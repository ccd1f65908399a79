------------------------ MODULE SpecSchedulerProofs ------------------------
(***************************************************************************)
(* Theorems about SpecScheduler, for any requests, prompts, pool, page     *)
(* size, block, chunk size and batch limits: the scheduler follows the     *)
(* memory protocol of KVMemory, so that every page keeps one owner; no     *)
(* allocation ever fails; what is cached and what is committed holds the   *)
(* KV of its own text, in both models; rows belong exactly to the          *)
(* unfinished requests of the batches; draft state is never shifted;       *)
(* prompts are cut one at a time; the queue is first come, first served.   *)
(***************************************************************************)
EXTENDS SpecScheduler, CollectionProofs

-----------------------------------------------------------------------------
(* The memory protocol of KVMemory, for any requests, texts, pool and page *)
(* size: every step keeps every page with one owner and the protected part *)
(* of every row in the cache.                                              *)

\* The inductive invariant.  PageOwnership alone is not inductive: that an
\* insert files only pages its caller owns needs the protected part of the row
\* (ProtectedIsCached), and that the pages behind the match are not cached yet
\* needs PrefixClosed.
MemInv ==
  /\ MemTypeOK
  /\ PrefixClosed
  /\ ProtectedIsCached
  /\ NoSharing
  /\ NoLeak

-----------------------------------------------------------------------------
(* Paths.                                                                  *)

\* More pages, more tokens.
LEMMA ScaleMonotone ==
  ASSUME NEW i \in Nat, NEW j \in Nat, i <= j
  PROVE  i * PageSize <= j * PageSize /\ i * PageSize \in Nat /\ j * PageSize \in Nat
BY MemAssumption, Scale

\* A strictly longer path has strictly more tokens.
LEMMA ScaleStrict ==
  ASSUME NEW i \in Nat, NEW j \in Nat, i < j
  PROVE  i * PageSize < j * PageSize
BY MemAssumption, ScaleStrictly

\* Equal paths have as many pages.
LEMMA PathLength ==
  ASSUME NEW q \in Req, NEW r \in Req, NEW j \in Nat, NEW k \in Nat,
         Path(q, j) = Path(r, k)
  PROVE  j = k
<1>1. PageSize \in Nat
  BY MemAssumption
<1>2. 1 .. j * PageSize = 1 .. k * PageSize
  BY DEF Path
<1>3. j * PageSize \in Nat /\ k * PageSize \in Nat
  BY <1>1
<1>4. j * PageSize = k * PageSize
  BY <1>2, <1>3
<1>5. CASE j < k
  BY <1>4, <1>5, ScaleStrict, <1>3
<1>6. CASE k < j
  BY <1>4, <1>6, ScaleStrict, <1>3
<1> QED BY <1>5, <1>6

\* Equal paths agree page by page.
LEMMA PathAgree ==
  ASSUME NEW q \in Req, NEW r \in Req, NEW j \in Nat, NEW i \in Nat, i <= j,
         Path(q, j) = Path(r, j)
  PROVE  Path(q, i) = Path(r, i)
<1>1. i * PageSize <= j * PageSize /\ i * PageSize \in Nat /\ j * PageSize \in Nat
  BY ScaleMonotone
<1>2. \A n \in 1 .. j * PageSize : Text[q][n] = Text[r][n]
  BY DEF Path
<1>3. \A n \in 1 .. i * PageSize : Text[q][n] = Text[r][n]
  BY <1>1, <1>2
<1> QED BY <1>3 DEF Path

\* A path's pages are its prefixes.
LEMMA PathPrefixes ==
  ASSUME NEW r \in Req, NEW i \in Nat, NEW j \in Nat, i <= j
  PROVE  PathPrefix(Path(r, i), Path(r, j))
<1>1. i * PageSize <= j * PageSize /\ i * PageSize \in Nat /\ j * PageSize \in Nat
  BY ScaleMonotone
<1> QED BY <1>1 DEF PathPrefix, Path

-----------------------------------------------------------------------------
(* Filing pages.                                                           *)

\* What insert() of r's first K pages does when m of them match: the match
\* covers the protected pages, what was cached stays, and the rest is filed
\* from the row.
InsertEffect(r, K, m) ==
  /\ prot[r] <= m /\ m <= K /\ K <= Len(table[r])
  /\ \A j \in m + 1 .. K : Path(r, j) \notin Cached
  /\ DOMAIN Inserted(r, K) = Cached \cup {Path(r, j) : j \in m + 1 .. K}
  /\ \A p \in Cached : Inserted(r, K)[p] = cache[p]
  /\ \A j \in m + 1 .. K : Inserted(r, K)[Path(r, j)] = table[r][j]

\* insert() of whole pages has this effect.
LEMMA InsertFacts ==
  ASSUME MemInv, NEW r \in Req, NEW K \in 0 .. NumPages, NEW m \in 0 .. NumPages,
         Whole(r, K), IsMatch(r, K, m)
  PROVE  InsertEffect(r, K, m)
<1>0. /\ NumPages \in Nat /\ prot[r] \in Nat /\ Len(table[r]) \in Nat
      /\ prot[r] <= K /\ K <= Len(table[r]) /\ K \in Nat /\ K <= NumPages /\ m \in Nat
  BY MemAssumption DEF MemInv, MemTypeOK, Whole
<1>1. /\ m <= K
      /\ \A j \in 1 .. m : Path(r, j) \in Cached
      /\ m < K => Path(r, m + 1) \notin Cached
  BY <1>0 DEF IsMatch
<1>2. prot[r] <= m
  <2>1. SUFFICES ASSUME m < prot[r] PROVE FALSE
    BY <1>0
  <2>2. m + 1 \in 1 .. prot[r] /\ m < K
    BY <1>0, <2>1
  <2> QED BY <1>1, <2>2 DEF MemInv, ProtectedIsCached
<1>3. ASSUME NEW j \in m + 1 .. K PROVE Path(r, j) \notin Cached
  <2>1. j \in 1 .. NumPages /\ m + 1 \in 1 .. j /\ m < K
    BY <1>0
  <2> QED BY <1>1, <2>1 DEF MemInv, PrefixClosed
<1>4. DOMAIN Inserted(r, K) = Cached \cup {Path(r, j) : j \in 1 .. K}
  BY DEF Inserted
<1>5. {Path(r, j) : j \in 1 .. K} = {Path(r, j) : j \in 1 .. m} \cup {Path(r, j) : j \in m + 1 .. K}
  <2>1. 1 .. K = 1 .. m \cup m + 1 .. K
    BY <1>0, <1>1
  <2> QED BY <2>1
<1>6. DOMAIN Inserted(r, K) = Cached \cup {Path(r, j) : j \in m + 1 .. K}
  BY <1>1, <1>4, <1>5
<1>7. ASSUME NEW p \in Cached PROVE Inserted(r, K)[p] = cache[p]
  BY DEF Inserted
<1>8. ASSUME NEW j \in m + 1 .. K PROVE Inserted(r, K)[Path(r, j)] = table[r][j]
  <2>1. j \in 1 .. K /\ j \in Nat
    BY <1>0
  <2> DEFINE c == CHOOSE k \in 1 .. K : Path(r, j) = Path(r, k)
  <2>2. c \in 1 .. K /\ Path(r, j) = Path(r, c)
    BY <2>1
  <2>4. Inserted(r, K)[Path(r, j)] = table[r][c]
    BY <2>1, <1>3 DEF Inserted
  <2> HIDE DEF c
  <2>3. c = j
    BY <2>1, <2>2, <1>0, PathLength
  <2> QED BY <2>3, <2>4
<1> QED BY <1>0, <1>1, <1>2, <1>3, <1>6, <1>7, <1>8 DEF InsertEffect

\* Filing pages keeps the cache closed under prefixes.
LEMMA InsertPrefixClosed ==
  ASSUME MemInv, NEW r \in Req, NEW K \in 0 .. NumPages, NEW m \in 0 .. NumPages,
         Whole(r, K), IsMatch(r, K, m), cache' = Inserted(r, K)
  PROVE  PrefixClosed'
<1>0. NumPages \in Nat /\ K \in Nat /\ m \in Nat /\ m <= K
  BY MemAssumption DEF IsMatch
<1>1. Cached' = Cached \cup {Path(r, j) : j \in 1 .. K}
  BY DEF Inserted, Cached
<1>2. SUFFICES ASSUME NEW q \in Req, NEW j \in 1 .. NumPages, Path(q, j) \in Cached',
                      NEW i \in 1 .. j
               PROVE  Path(q, i) \in Cached'
  BY DEF PrefixClosed, Path
<1>3. CASE Path(q, j) \in Cached
  BY <1>1, <1>3 DEF MemInv, PrefixClosed
<1>4. CASE \E k \in 1 .. K : Path(q, j) = Path(r, k)
  <2>1. PICK k \in 1 .. K : Path(q, j) = Path(r, k)
    BY <1>4
  <2>2. k = j
    BY <1>0, <2>1, PathLength
  <2>3. Path(q, i) = Path(r, i)
    BY <1>0, <2>1, <2>2, PathAgree
  <2>4. i \in 1 .. K
    BY <1>0, <2>2
  <2> QED BY <1>1, <2>3, <2>4
<1> QED BY <1>1, <1>2, <1>3, <1>4

-----------------------------------------------------------------------------
(* One lemma per operation of the protocol.                                *)

\* A cleared pool: every page free, nothing cached, no rows.
LEMMA InitInv == MemInit => MemInv
<1> SUFFICES ASSUME MemInit PROVE MemInv
  OBVIOUS
<1>1. Cached = {}
  BY DEF MemInit, Cached
<1>2. \A r \in Req : table[r] = <<>> /\ Len(table[r]) = 0 /\ prot[r] = 0 /\ pin[r] = 0
  BY DEF MemInit
<1>3. MemTypeOK
  BY <1>1 DEF MemInit, MemTypeOK
<1>4. PrefixClosed /\ ProtectedIsCached
  BY <1>1, <1>2 DEF PrefixClosed, ProtectedIsCached
<1>5. \A r \in Req : Private(r) = {}
  BY <1>2 DEF Private
<1>6. NoSharing
  BY <1>1, <1>5 DEF NoSharing
<1>7. NoLeak
  BY DEF MemInit, NoLeak
<1> QED BY <1>3, <1>4, <1>6, <1>7 DEF MemInv

\* evict() of unlocked leaves.
LEMMA EvictInv ==
  ASSUME MemInv, NEW E \in SUBSET Evictable(pin), UpClosed(E), Evict(E)
  PROVE  MemInv'
<1>1. /\ Cached' = Cached \ E /\ E \subseteq Cached
      /\ \A p \in Cached \ E : cache'[p] = cache[p]
      /\ free' = free \cup {cache[p] : p \in E}
      /\ table' = table /\ prot' = prot /\ pin' = pin
  BY DEF Evict, Cached, Evictable
<1>2. MemTypeOK'
  BY <1>1 DEF MemInv, MemTypeOK
<1>3. PrefixClosed'
  <2>1. SUFFICES ASSUME NEW r \in Req, NEW j \in 1 .. NumPages, Path(r, j) \in Cached',
                        NEW i \in 1 .. j, Path(r, i) \notin Cached'
                 PROVE  FALSE
    BY DEF PrefixClosed, Path
  <2>2. Path(r, i) \in E /\ Path(r, j) \in Cached \ E
    BY <1>1, <2>1 DEF MemInv, PrefixClosed
  <2>3. NumPages \in Nat
    BY MemAssumption
  <2>4. PathPrefix(Path(r, i), Path(r, j))
    BY <2>3, PathPrefixes
  <2> QED BY <2>2, <2>4 DEF UpClosed
<1>4. ProtectedIsCached'
  <2>1. \A r \in Req : \A j \in 1 .. prot[r] : Path(r, j) \in Cached \ E
    BY DEF Evictable, PinnedPaths, MemInv, ProtectedIsCached
  <2> QED BY Zenon, <1>1, <2>1 DEF MemInv, ProtectedIsCached, Path
<1>5. NoSharing'
  BY <1>1 DEF MemInv, NoSharing, Private
<1>6. NoLeak'
  <2>1. SUFFICES ASSUME NEW g \in Page,
                        g \notin free',
                        ~ \E r \in Req : \E j \in Private(r)' : table'[r][j] = g
                 PROVE  \E p \in Cached' : cache'[p] = g
    BY DEF NoLeak, Page
  <2>2. g \notin free /\ ~ \E r \in Req : \E j \in Private(r) : table[r][j] = g
    BY <1>1, <2>1 DEF Private
  <2>3. PICK p \in Cached : cache[p] = g
    BY <2>2 DEF MemInv, NoLeak
  <2>4. p \notin E
    BY <1>1, <2>1, <2>3
  <2> QED BY <1>1, <2>3, <2>4
<1> QED BY <1>2, <1>3, <1>4, <1>5, <1>6 DEF MemInv

\* _req_inc_lock_ref of a matched path.
LEMMA LockInv ==
  ASSUME MemInv, NEW r \in Req, NEW m \in 0 .. NumPages, table[r] = <<>>,
         \A j \in 1 .. m : Path(r, j) \in Cached, Lock(r, m)
  PROVE  MemInv'
<1>0. m \in Nat
  BY MemAssumption
<1>1. /\ Cached' = Cached /\ cache' = cache /\ free' = free /\ table' = table
      /\ prot' \in [Req -> Nat] /\ pin' \in [Req -> Nat]
      /\ prot'[r] = m /\ pin'[r] = m
      /\ \A q \in Req \ {r} : prot'[q] = prot[q] /\ pin'[q] = pin[q]
  BY <1>0 DEF Lock, Cached, MemInv, MemTypeOK
<1>2. \A q \in Req : Private(q)' = Private(q)
  <2>1. Len(table[r]) = 0
    BY DEF MemInv
  <2>2. Private(r) = {} /\ Private(r)' = {}
    BY <1>0, <1>1, <2>1 DEF Private, MemInv, MemTypeOK
  <2> QED BY Zenon, <1>1, <2>2 DEF Private
<1>3. MemTypeOK'
  BY <1>1 DEF MemInv, MemTypeOK, Page
<1>4. PrefixClosed'
  BY Zenon, <1>1 DEF MemInv, PrefixClosed, Path
<1>5. ProtectedIsCached'
  BY <1>1 DEF MemInv, ProtectedIsCached, Path
<1>6. NoSharing'
  BY <1>1, <1>2 DEF MemInv, NoSharing
<1>7. NoLeak'
  BY <1>1, <1>2 DEF MemInv, NoLeak, Page
<1> QED BY <1>3, <1>4, <1>5, <1>6, <1>7 DEF MemInv

\* The row an allocation starts from: at least the protected pages, and the
\* same private pages as before.
LEMMA RowFacts ==
  ASSUME MemInv, NEW r \in Req
  PROVE  /\ Row(r) \in Seq(Page)
         /\ Len(Row(r)) >= prot[r]
         /\ \A j \in 1 .. prot[r] : Row(r)[j] = cache[Path(r, j)]
         /\ Private(r) = prot[r] + 1 .. Len(Row(r))
         /\ \A j \in Private(r) : Row(r)[j] = table[r][j]
<1>0. /\ table[r] \in Seq(Page) /\ prot[r] \in Nat /\ Len(table[r]) \in Nat
      /\ \A p \in Cached : cache[p] \in Page
      /\ \A j \in 1 .. prot[r] : Path(r, j) \in Cached
  BY DEF MemInv, MemTypeOK, ProtectedIsCached
<1>1. CASE table[r] = <<>>
  <2>1. Row(r) = [j \in 1 .. prot[r] |-> cache[Path(r, j)]]
    BY <1>1 DEF Row
  <2>2. Row(r) \in [1 .. prot[r] -> Page]
    BY <1>0, <2>1
  <2>3. Row(r) \in Seq(Page) /\ Len(Row(r)) = prot[r]
    BY <1>0, <2>2
  <2>4. Len(table[r]) = 0
    BY <1>1
  <2>5. Private(r) = {} /\ prot[r] + 1 .. Len(Row(r)) = {}
    BY <1>0, <2>3, <2>4 DEF Private
  <2> QED BY <1>0, <2>1, <2>3, <2>5
<1>2. CASE table[r] # <<>>
  BY <1>0, <1>2 DEF Row, Private, MemInv, ProtectedIsCached
<1> QED BY <1>1, <1>2

\* An allocation gives no page twice.
LEMMA AssignmentInjective ==
  ASSUME NEW S, NEW a, IsAssignment(a, S), NEW q \in Req, NEW r \in Req,
         NEW i \in DOMAIN a[q], NEW j \in DOMAIN a[r], a[q][i] = a[r][j]
  PROVE  q = r /\ i = j
  BY Zenon DEF IsAssignment

\* A private page is in one place of one row.
LEMMA PrivateInjective ==
  ASSUME NoSharing, NEW q \in Req, NEW r \in Req,
         NEW i \in Private(q), NEW j \in Private(r), table[q][i] = table[r][j]
  PROVE  q = r /\ i = j
  BY Zenon DEF NoSharing

\* alloc_extend, of any disjoint lists of free pages.
LEMMA GrowInv ==
  ASSUME MemInv, NEW S \in SUBSET Req, NEW a, IsAssignment(a, free), Grow(S, a)
  PROVE  MemInv'
<1>1. /\ a \in [Req -> Seq(free)] /\ free \subseteq Page
      /\ \A r \in S : table'[r] = Row(r) \o a[r]
      /\ \A r \in Req \ S : table'[r] = table[r]
      /\ free' = free \ UNION {{a[r][i] : i \in DOMAIN a[r]} : r \in S}
      /\ cache' = cache /\ Cached' = Cached /\ prot' = prot /\ pin' = pin
      /\ prot \in [Req -> Nat] /\ pin \in [Req -> Nat]
  BY Zenon DEF IsAssignment, Grow, MemInv, MemTypeOK, Cached
<1>2. ASSUME NEW r \in S
      PROVE  /\ table'[r] \in Seq(Page)
             /\ Len(table'[r]) = Len(Row(r)) + Len(a[r])
             /\ \A j \in 1 .. Len(Row(r)) : table'[r][j] = Row(r)[j]
             /\ \A i \in 1 .. Len(a[r]) : table'[r][Len(Row(r)) + i] = a[r][i]
             /\ DOMAIN a[r] = 1 .. Len(a[r])
             /\ \A i \in 1 .. Len(a[r]) : a[r][i] \in free
             /\ Len(a[r]) \in Nat /\ Len(Row(r)) \in Nat
  <2>1. Row(r) \in Seq(Page) /\ a[r] \in Seq(free) /\ a[r] \in Seq(Page)
    BY <1>1, RowFacts
  <2>2. DOMAIN a[r] = 1 .. Len(a[r]) /\ \A i \in 1 .. Len(a[r]) : a[r][i] \in free
    BY <2>1
  <2>3. /\ Row(r) \o a[r] \in Seq(Page)
        /\ Len(Row(r) \o a[r]) = Len(Row(r)) + Len(a[r])
        /\ \A j \in 1 .. Len(Row(r)) : (Row(r) \o a[r])[j] = Row(r)[j]
        /\ \A i \in 1 .. Len(a[r]) : (Row(r) \o a[r])[Len(Row(r)) + i] = a[r][i]
        /\ Len(a[r]) \in Nat /\ Len(Row(r)) \in Nat
    BY <2>1
  <2>4. table'[r] = Row(r) \o a[r]
    BY <1>1
  <2> QED BY <2>2, <2>3, <2>4, Zenon
\* A private page is an old private page or a page of the allocation.
<1>3. ASSUME NEW r \in Req, NEW j \in Private(r)'
      PROVE  \/ j \in Private(r) /\ table'[r][j] = table[r][j]
             \/ r \in S /\ j - Len(Row(r)) \in DOMAIN a[r]
                        /\ table'[r][j] = a[r][j - Len(Row(r))]
  <2>1. CASE r \notin S
    BY <1>1, <2>1 DEF Private
  <2>2. CASE r \in S
    <3>1. j \in Int /\ prot[r] + 1 <= j /\ j <= Len(Row(r)) + Len(a[r])
      BY <1>1, <1>2, <2>2 DEF Private
    <3>2. CASE j <= Len(Row(r))
      <4>1. j \in prot[r] + 1 .. Len(Row(r)) /\ j \in 1 .. Len(Row(r))
        BY <1>1, <1>2, <2>2, <3>1, <3>2
      <4> QED BY Zenon, <1>2, <2>2, <4>1, RowFacts
    <3>3. CASE j > Len(Row(r))
      <4>1. j - Len(Row(r)) \in 1 .. Len(a[r]) /\ j = Len(Row(r)) + (j - Len(Row(r)))
        BY <1>2, <2>2, <3>1, <3>3
      <4> QED BY <1>2, <2>2, <4>1
    <3> QED BY <1>2, <2>2, <3>1, <3>2, <3>3
  <2> QED BY <2>1, <2>2
\* Both kinds are private afterwards.
<1>4. ASSUME NEW r \in Req, NEW j \in Private(r)
      PROVE  j \in Private(r)' /\ table'[r][j] = table[r][j]
  <2>1. CASE r \notin S
    BY <1>1, <2>1 DEF Private
  <2>2. CASE r \in S
    <3>1. j \in prot[r] + 1 .. Len(Row(r)) /\ Row(r)[j] = table[r][j]
      BY Zenon, RowFacts
    <3>2. j \in 1 .. Len(Row(r)) /\ j \in prot[r] + 1 .. Len(table'[r])
      BY <1>1, <1>2, <2>2, <3>1
    <3> QED BY <1>1, <1>2, <2>2, <3>1, <3>2 DEF Private
  <2> QED BY <2>1, <2>2
<1>5. ASSUME NEW r \in S, NEW i \in DOMAIN a[r]
      PROVE  Len(Row(r)) + i \in Private(r)' /\ table'[r][Len(Row(r)) + i] = a[r][i]
  <2>1. i \in 1 .. Len(a[r]) /\ prot[r] <= Len(Row(r)) /\ prot'[r] = prot[r] /\ prot[r] \in Nat
    BY <1>1, <1>2, RowFacts
  <2>2. Len(Row(r)) + i \in prot[r] + 1 .. Len(table'[r])
    BY <1>2, <2>1
  <2> QED BY Zenon, <1>2, <2>1, <2>2 DEF Private
<1>6. MemTypeOK'
  <2>1. table' \in [Req -> Seq(Page)]
    BY Zenon, <1>2 DEF Grow, MemInv, MemTypeOK
  <2> QED BY <1>1, <2>1 DEF MemInv, MemTypeOK, Page
<1>7. PrefixClosed'
  BY Zenon, <1>1 DEF MemInv, PrefixClosed, Path
<1>8. ProtectedIsCached'
  <2>1. ASSUME NEW r \in S
        PROVE  prot[r] <= Len(table'[r]) /\ \A j \in 1 .. prot[r] : table'[r][j] = cache[Path(r, j)]
    BY <1>1, <1>2, RowFacts
  <2> QED BY <1>1, <2>1 DEF MemInv, ProtectedIsCached, Path
<1>9. NoSharing'
  <2>1. \A p \in Cached : cache[p] \notin free'
    BY <1>1 DEF MemInv, NoSharing
  <2>2. \A p, q \in Cached : cache[p] = cache[q] => p = q
    BY DEF MemInv, NoSharing
  <2>3. ASSUME NEW r \in Req, NEW j \in Private(r)'
        PROVE  table'[r][j] \notin free' /\ \A p \in Cached : table'[r][j] # cache[p]
    <3>1. CASE j \in Private(r) /\ table'[r][j] = table[r][j]
      BY <1>1, <3>1 DEF MemInv, NoSharing
    <3>2. CASE r \in S /\ j - Len(Row(r)) \in DOMAIN a[r] /\ table'[r][j] = a[r][j - Len(Row(r))]
      BY <1>1, <1>2, <3>2 DEF MemInv, NoSharing
    <3> QED BY <1>3, <3>1, <3>2
  <2>4. ASSUME NEW q \in Req, NEW r \in Req, NEW i \in Private(q)', NEW j \in Private(r)',
               table'[q][i] = table'[r][j]
        PROVE  q = r /\ i = j
    <3>1. CASE i \in Private(q) /\ table'[q][i] = table[q][i]
      <4>1. table'[r][j] \notin free
        BY <2>4, <3>1 DEF MemInv, NoSharing
      <4>2. j \in Private(r) /\ table'[r][j] = table[r][j]
        BY Zenon, <1>2, <1>3, <4>1
      <4>3. table[q][i] = table[r][j] /\ NoSharing
        BY Zenon, <2>4, <3>1, <4>2 DEF MemInv
      <4> QED BY <3>1, <4>2, <4>3, PrivateInjective, Zenon
    <3>2. CASE q \in S /\ i - Len(Row(q)) \in DOMAIN a[q] /\ table'[q][i] = a[q][i - Len(Row(q))]
      <4>1. table'[r][j] \in free
        <5>1. a[q][i - Len(Row(q))] \in free
          BY <1>2, <3>2
        <5> QED
          BY Zenon, <2>4, <3>2, <5>1
      <4>2. r \in S /\ j - Len(Row(r)) \in DOMAIN a[r] /\ table'[r][j] = a[r][j - Len(Row(r))]
        BY <1>3, <4>1 DEF MemInv, NoSharing
      <4>3. q = r /\ i - Len(Row(q)) = j - Len(Row(r))
        <5>1. a[q][i - Len(Row(q))] = a[r][j - Len(Row(r))]
          BY Zenon, <2>4, <3>2, <4>2
        <5>2. ASSUME NEW x \in DOMAIN a[q], NEW y \in DOMAIN a[r], a[q][x] = a[r][y]
              PROVE  q = r /\ x = y
          BY <5>2, AssignmentInjective
        <5> QED BY <3>2, <4>2, <5>1, <5>2
      <4>4. i \in Int /\ j \in Int /\ Len(Row(r)) \in Int
        BY <1>2, <4>2 DEF Private
      <4> QED BY <4>3, <4>4
    <3> QED BY <1>3, <3>1, <3>2
  <2> QED BY <1>1, <2>1, <2>2, <2>3, <2>4 DEF NoSharing
<1>10. NoLeak'
  <2>1. SUFFICES ASSUME NEW g \in Page, g \notin free',
                        ~ \E p \in Cached : cache[p] = g
                 PROVE  \E r \in Req : \E j \in Private(r)' : table'[r][j] = g
    BY <1>1 DEF NoLeak, Page
  <2>2. CASE g \in free
    <3>1. PICK r \in S : \E i \in DOMAIN a[r] : a[r][i] = g
      BY <1>1, <2>1, <2>2
    <3> QED BY <1>5, <3>1
  <2>3. CASE g \notin free
    <3>1. PICK r \in Req : \E j \in Private(r) : table[r][j] = g
      BY <2>1, <2>3 DEF MemInv, NoLeak
    <3> QED BY <1>4, <3>1
  <2> QED BY <2>2, <2>3
<1> QED BY <1>6, <1>7, <1>8, <1>9, <1>10 DEF MemInv

\* Private pages that are given up and freed keep every page with one owner.
LEMMA ReleaseOwnership ==
  ASSUME MemInv, cache' = cache,
         \A r \in Req : \A j \in Private(r)' : j \in Private(r) /\ table'[r][j] = table[r][j],
         \A g : g \in free' <=>
           g \in free \/ \E r \in Req : \E j \in Private(r) \ Private(r)' : g = table[r][j]
  PROVE  NoSharing' /\ NoLeak'
<1>1. Cached' = Cached
  BY DEF Cached
<1>2. \A g : g \in free' <=>
        g \in free \/ \E r \in Req : \E j \in Private(r) \ Private(r)' : g = table[r][j]
  OBVIOUS
<1>3. NoSharing'
  <2>1. \A p \in Cached : cache[p] \notin free'
    BY <1>2 DEF MemInv, NoSharing
  <2>2. \A p, q \in Cached : cache[p] = cache[q] => p = q
    BY DEF MemInv, NoSharing
  <2>3. ASSUME NEW r \in Req, NEW j \in Private(r)'
        PROVE  table'[r][j] \notin free' /\ \A p \in Cached : table'[r][j] # cache[p]
    <3>1. j \in Private(r) /\ table'[r][j] = table[r][j]
      OBVIOUS
    <3>2. table[r][j] \notin free /\ \A p \in Cached : table[r][j] # cache[p]
      BY <3>1 DEF MemInv, NoSharing
    <3>3. ASSUME NEW q \in Req, NEW i \in Private(q) \ Private(q)' PROVE table[r][j] # table[q][i]
      BY <3>1, PrivateInjective DEF MemInv
    <3> QED BY <1>2, <3>1, <3>2, <3>3
  <2>4. ASSUME NEW q \in Req, NEW r \in Req, NEW i \in Private(q)', NEW j \in Private(r)',
               table'[q][i] = table'[r][j]
        PROVE  q = r /\ i = j
    <3>1. i \in Private(q) /\ j \in Private(r) /\ table[q][i] = table[r][j] /\ NoSharing
      BY <2>4 DEF MemInv
    <3> QED BY <3>1, PrivateInjective
  <2> QED BY <1>1, <2>1, <2>2, <2>3, <2>4 DEF NoSharing
<1>4. NoLeak'
  <2>1. SUFFICES ASSUME NEW g \in Page, g \notin free', ~ \E p \in Cached : cache[p] = g
                 PROVE  \E r \in Req : \E j \in Private(r)' : table'[r][j] = g
    BY <1>1 DEF NoLeak, Page
  <2>2. PICK r \in Req : \E j \in Private(r) : table[r][j] = g
    BY <1>2, <2>1 DEF MemInv, NoLeak
  <2>3. PICK j \in Private(r) : table[r][j] = g
    BY <2>2
  <2>4. j \in Private(r)'
    BY <1>2, <2>1, <2>3
  <2> QED BY <2>3, <2>4
<1> QED BY <1>3, <1>4

\* verify() gives up the tail of the rows of S.
LEMMA TrimInv ==
  ASSUME MemInv, NEW S \in SUBSET Req, NEW keep,
         \A r \in S : keep[r] \in prot[r] .. Len(table[r]), Trim(S, keep)
  PROVE  MemInv'
<1>1. /\ table \in [Req -> Seq(Page)] /\ prot \in [Req -> Nat] /\ pin \in [Req -> Nat]
      /\ free' = free \cup UNION {RowPages(r, keep[r] + 1, Len(table[r])) : r \in S}
      /\ table' = [r \in Req |-> IF r \in S THEN [j \in 1 .. keep[r] |-> table[r][j]] ELSE table[r]]
      /\ cache' = cache /\ Cached' = Cached /\ prot' = prot /\ pin' = pin
  BY DEF Trim, MemInv, MemTypeOK, Cached
<1>2. ASSUME NEW r \in S
      PROVE  /\ keep[r] \in Nat /\ prot[r] <= keep[r] /\ keep[r] <= Len(table[r])
             /\ table'[r] \in Seq(Page) /\ Len(table'[r]) = keep[r]
             /\ \A j \in 1 .. keep[r] : table'[r][j] = table[r][j]
             /\ prot[r] \in Nat /\ Len(table[r]) \in Nat
  <2>1. /\ keep[r] \in Nat /\ prot[r] <= keep[r] /\ keep[r] <= Len(table[r])
        /\ prot[r] \in Nat /\ Len(table[r]) \in Nat /\ table[r] \in Seq(Page)
    BY <1>1
  <2>2. table'[r] = [j \in 1 .. keep[r] |-> table[r][j]]
    BY Zenon, <1>1
  <2>3. \A j \in 1 .. keep[r] : table[r][j] \in Page
    BY <2>1
  <2>4. table'[r] \in [1 .. keep[r] -> Page]
    BY <2>2, <2>3
  <2> QED BY <2>1, <2>2, <2>4
<1>3. \A r \in Req \ S : table'[r] = table[r] /\ Private(r)' = Private(r)
  BY <1>1 DEF Private
<1>4. \A r \in S : Private(r) \ Private(r)' = keep[r] + 1 .. Len(table[r])
  BY <1>1, <1>2 DEF Private
<1>5. MemTypeOK'
  <2>1. table' \in [Req -> Seq(Page)]
    BY Zenon, <1>1, <1>2
  <2>2. free' \subseteq Page
    <3>1. ASSUME NEW r \in S, NEW j \in keep[r] + 1 .. Len(table[r]) PROVE table[r][j] \in Page
      BY <1>1, <1>2
    <3> QED BY <1>1, <3>1 DEF RowPages, MemInv, MemTypeOK
  <2> QED BY <1>1, <2>1, <2>2 DEF MemInv, MemTypeOK, Page
<1>6. PrefixClosed'
  BY <1>1 DEF MemInv, PrefixClosed, Path
<1>7. ProtectedIsCached'
  <2>1. ASSUME NEW r \in S, table'[r] # <<>>
        PROVE  prot[r] <= Len(table'[r]) /\ \A j \in 1 .. prot[r] : table'[r][j] = cache[Path(r, j)]
    <3>1. table[r] # <<>>
      BY <1>1, <1>2, <2>1
    <3>2. \A j \in 1 .. prot[r] : j \in 1 .. keep[r]
      BY <1>2
    <3> QED BY <1>2, <3>1, <3>2 DEF MemInv, ProtectedIsCached
  <2> QED BY <1>1, <2>1 DEF MemInv, ProtectedIsCached, Path
<1>8. \A r \in Req : \A j \in Private(r)' : j \in Private(r) /\ table'[r][j] = table[r][j]
  <2>1. ASSUME NEW r \in S, NEW j \in Private(r)'
        PROVE  j \in Private(r) /\ table'[r][j] = table[r][j]
    BY <1>1, <1>2 DEF Private
  <2> QED BY <1>3, <2>1
<1>9. \A g : g \in free' <=>
        g \in free \/ \E r \in Req : \E j \in Private(r) \ Private(r)' : g = table[r][j]
  <2>1. \A g : g \in free' <=>
          g \in free \/ \E r \in S : \E j \in keep[r] + 1 .. Len(table[r]) : g = table[r][j]
    BY <1>1 DEF RowPages
  <2> QED BY <1>3, <1>4, <2>1
<1> QED BY Zenon, <1>1, <1>5, <1>6, <1>7, <1>8, <1>9, ReleaseOwnership DEF MemInv

\* release_kv_cache(is_insert=False).
LEMMA ReleaseDropInv ==
  ASSUME MemInv, NEW r \in Req, ReleaseDrop(r)
  PROVE  MemInv'
<1>1. /\ table \in [Req -> Seq(Page)] /\ prot \in [Req -> Nat] /\ pin \in [Req -> Nat]
      /\ table' = [table EXCEPT ![r] = <<>>]
      /\ prot' = [prot EXCEPT ![r] = 0] /\ pin' = [pin EXCEPT ![r] = 0]
      /\ cache' = cache /\ Cached' = Cached
      /\ free' = free \cup RowPages(r, prot[r] + 1, Len(table[r]))
  BY DEF ReleaseDrop, Forget, MemInv, MemTypeOK, Cached
<1>2. \A q \in Req \ {r} : table'[q] = table[q] /\ prot'[q] = prot[q] /\ pin'[q] = pin[q]
                           /\ Private(q)' = Private(q)
  BY <1>1 DEF Private
<1>3. table'[r] = <<>> /\ Len(table'[r]) = 0 /\ prot'[r] = 0 /\ pin'[r] = 0 /\ Private(r)' = {}
  BY <1>1 DEF Private
<1>4. MemTypeOK'
  <2>1. table' \in [Req -> Seq(Page)] /\ prot' \in [Req -> Nat] /\ pin' \in [Req -> Nat]
    BY <1>1
  <2>2. \A j \in prot[r] + 1 .. Len(table[r]) : table[r][j] \in Page
    BY <1>1
  <2>3. free' \subseteq Page
    BY <1>1, <2>2 DEF RowPages, MemInv, MemTypeOK
  <2> QED BY <1>1, <2>1, <2>3 DEF MemInv, MemTypeOK, Page
<1>5. PrefixClosed'
  BY Zenon, <1>1 DEF MemInv, PrefixClosed, Path
<1>6. ProtectedIsCached'
  <2>1. ASSUME NEW q \in Req
        PROVE  /\ pin'[q] = prot'[q] /\ (table'[q] # <<>> => prot'[q] <= Len(table'[q]))
               /\ \A j \in 1 .. prot'[q] :
                    /\ Path(q, j) \in Cached'
                    /\ table'[q] # <<>> => table'[q][j] = cache'[Path(q, j)]
    <3>1. CASE q = r
      BY <1>3, <3>1
    <3>2. CASE q # r
      BY Zenon, <1>1, <1>2, <3>2 DEF MemInv, ProtectedIsCached
    <3> QED BY <3>1, <3>2
  <2> QED BY Zenon, <2>1 DEF ProtectedIsCached, Path
<1>7. \A g : g \in free' <=>
        g \in free \/ \E q \in Req : \E j \in Private(q) \ Private(q)' : g = table[q][j]
  <2>1. \A g : g \in free' <=> g \in free \/ \E j \in Private(r) : g = table[r][j]
    BY <1>1 DEF RowPages, Private
  <2> QED BY <1>2, <1>3, <2>1
<1>8. \A q \in Req : \A j \in Private(q)' : j \in Private(q) /\ table'[q][j] = table[q][j]
  BY <1>2, <1>3
<1> QED BY <1>1, <1>4, <1>5, <1>6, <1>7, <1>8, ReleaseOwnership DEF MemInv

\* Filing r's pages up to K: duplicates (behind the protected part, up to the
\* match m) are freed, new pages go to the cache, and of the rest of the row
\* some stay private and the others are freed.
LEMMA InsertOwnership ==
  ASSUME MemInv, NEW r \in Req, NEW K \in 0 .. NumPages, NEW m \in 0 .. NumPages,
         Whole(r, K), IsMatch(r, K, m), cache' = Inserted(r, K),
         \A q \in Req \ {r} : Private(q)' = Private(q) /\ table'[q] = table[q],
         \A j \in Private(r)' : j \in K + 1 .. Len(table[r]) /\ table'[r][j] = table[r][j],
         \A g : g \in free' <=>
           \/ g \in free
           \/ \E j \in prot[r] + 1 .. m : g = table[r][j]
           \/ \E j \in (K + 1 .. Len(table[r])) \ Private(r)' : g = table[r][j]
  PROVE  NoSharing' /\ NoLeak'
<1> DEFINE Filed == m + 1 .. K
           Freed == {j \in Private(r) : j <= m \/ (K < j /\ j \notin Private(r)')}
<1>0. InsertEffect(r, K, m)
  BY InsertFacts
<1>1. /\ prot[r] \in Nat /\ m \in Nat /\ K \in Nat /\ Len(table[r]) \in Nat
      /\ prot[r] <= m /\ m <= K /\ K <= Len(table[r])
  BY <1>0, MemAssumption DEF InsertEffect, MemInv, MemTypeOK
<1>2. /\ Cached' = Cached \cup {Path(r, j) : j \in Filed}
      /\ \A p \in Cached : cache'[p] = cache[p]
      /\ \A j \in Filed : cache'[Path(r, j)] = table[r][j] /\ Path(r, j) \notin Cached
  BY <1>0 DEF InsertEffect, Cached
\* Where a page of the cache, of a row and of the allocator comes from.
<1>3. ASSUME NEW p \in Cached'
      PROVE  \/ p \in Cached /\ cache'[p] = cache[p]
             \/ p \notin Cached /\ \E j \in Filed : p = Path(r, j) /\ cache'[p] = table[r][j]
  BY <1>2
<1>4. /\ Filed \subseteq Private(r) /\ Freed \subseteq Private(r)
      /\ Private(r)' \subseteq Private(r)
      /\ Filed \cap Freed = {} /\ Filed \cap Private(r)' = {} /\ Freed \cap Private(r)' = {}
      /\ Private(r) = Filed \cup Freed \cup Private(r)'
  <2>1. Private(r) = prot[r] + 1 .. Len(table[r])
    BY DEF Private
  <2>2. \A j \in Private(r)' : j \in Int /\ K < j /\ j <= Len(table[r])
    BY <1>1
  <2> HIDE DEF Private
  <2> QED BY <1>1, <2>1, <2>2
<1>5. \A g : g \in free' <=> g \in free \/ \E j \in Freed : g = table[r][j]
  <2>1. \A j : j \in prot[r] + 1 .. m \/ j \in (K + 1 .. Len(table[r])) \ Private(r)' <=> j \in Freed
    <3>1. Private(r) = prot[r] + 1 .. Len(table[r])
      BY DEF Private
    <3>2. \A j \in Private(r)' : j \in Int /\ K < j /\ j <= Len(table[r])
      BY <1>1
    <3> HIDE DEF Private
    <3> QED BY <1>1, <3>1, <3>2
  <2> HIDE DEF Freed
  <2> QED BY <2>1
<1>6. \A q \in Req : \A j \in Private(q)' : j \in Private(q) /\ table'[q][j] = table[q][j]
  BY <1>4
<1> HIDE DEF Filed, Freed
<1>7. NoSharing'
  <2>1. ASSUME NEW p \in Cached' PROVE cache'[p] \notin free'
    <3>1. CASE p \in Cached /\ cache'[p] = cache[p]
      BY <1>4, <1>5, <3>1 DEF MemInv, NoSharing
    <3>2. CASE p \notin Cached /\ \E j \in Filed : p = Path(r, j) /\ cache'[p] = table[r][j]
      <4>1. PICK j \in Filed : cache'[p] = table[r][j]
        BY <3>2
      <4>2. j \in Private(r) /\ j \notin Freed
        BY <1>4
      <4>3. table[r][j] \notin free
        BY <4>2 DEF MemInv, NoSharing
      <4>4. \A i \in Freed : table[r][j] # table[r][i]
        BY <1>4, <4>2, PrivateInjective DEF MemInv
      <4> QED BY <1>5, <4>1, <4>3, <4>4
    <3> QED BY <1>3, <3>1, <3>2
  <2>2. ASSUME NEW p \in Cached', NEW q \in Cached', cache'[p] = cache'[q] PROVE p = q
    <3>1. ASSUME NEW x \in Cached, NEW j \in Filed PROVE cache[x] # table[r][j]
      BY <1>4 DEF MemInv, NoSharing
    <3>2. CASE p \in Cached /\ q \in Cached
      BY <1>2, <2>2, <3>2 DEF MemInv, NoSharing
    <3>3. CASE p \notin Cached /\ q \notin Cached
      <4>1. PICK i \in Filed : p = Path(r, i) /\ cache'[p] = table[r][i]
        BY <1>3, <3>3
      <4>2. PICK j \in Filed : q = Path(r, j) /\ cache'[q] = table[r][j]
        BY <1>3, <3>3
      <4>3. i = j
        BY <1>4, <2>2, <4>1, <4>2, PrivateInjective DEF MemInv
      <4> QED BY <4>1, <4>2, <4>3
    <3>4. CASE ~(p \in Cached <=> q \in Cached)
      BY <1>3, <2>2, <3>1, <3>4
    <3> QED BY <3>2, <3>3, <3>4
  <2>3. ASSUME NEW q \in Req, NEW j \in Private(q)'
        PROVE  table'[q][j] \notin free' /\ \A p \in Cached' : table'[q][j] # cache'[p]
    <3>1. j \in Private(q) /\ table'[q][j] = table[q][j]
      BY <1>6
    <3>2. table[q][j] \notin free /\ \A p \in Cached : table[q][j] # cache[p]
      BY <3>1 DEF MemInv, NoSharing
    <3>3. ASSUME NEW i \in Freed \cup Filed PROVE table[q][j] # table[r][i]
      <4>1. i \in Private(r) /\ (q = r => i # j)
        BY <1>4
      <4> QED BY <3>1, <4>1, PrivateInjective DEF MemInv
    <3>4. table'[q][j] \notin free'
      BY <1>5, <3>1, <3>2, <3>3
    <3> QED BY <1>3, <3>1, <3>2, <3>3, <3>4
  <2>4. ASSUME NEW q \in Req, NEW x \in Req, NEW i \in Private(q)', NEW j \in Private(x)',
               table'[q][i] = table'[x][j]
        PROVE  q = x /\ i = j
    <3>1. i \in Private(q) /\ j \in Private(x) /\ table[q][i] = table[x][j] /\ NoSharing
      BY <1>6, <2>4 DEF MemInv
    <3> QED BY <3>1, PrivateInjective
  <2> QED BY <2>1, <2>2, <2>3, <2>4 DEF NoSharing
<1>8. NoLeak'
  <2>1. SUFFICES ASSUME NEW g \in Page, g \notin free', ~ \E p \in Cached' : cache'[p] = g
                 PROVE  \E q \in Req : \E j \in Private(q)' : table'[q][j] = g
    BY DEF NoLeak, Page
  <2>2. g \notin free /\ ~ \E p \in Cached : cache[p] = g
    BY <1>2, <1>5, <2>1
  <2>3. PICK q \in Req : \E j \in Private(q) : table[q][j] = g
    BY <2>2 DEF MemInv, NoLeak
  <2>4. PICK j \in Private(q) : table[q][j] = g
    BY <2>3
  <2>5. CASE q # r
    BY <2>4, <2>5
  <2>6. CASE q = r
    <3>1. j \notin Freed
      BY <1>5, <2>1, <2>4, <2>6
    <3>2. j \notin Filed
      BY <1>2, <2>1, <2>4, <2>6
    <3>3. j \in Private(r)'
      BY <1>4, <2>4, <2>6, <3>1, <3>2
    <3> QED BY <1>6, <2>4, <2>6, <3>3
  <2> QED BY <2>5, <2>6
<1> QED BY <1>7, <1>8

\* Pages of a row are pages.
LEMMA RowPagesType ==
  ASSUME MemInv, NEW r \in Req, NEW i \in Nat, NEW j \in Nat, 1 <= i, j <= Len(table[r])
  PROVE  RowPages(r, i, j) \subseteq Page
<1>1. table[r] \in Seq(Page)
  BY DEF MemInv, MemTypeOK
<1>2. \A k \in i .. j : table[r][k] \in Page
  BY <1>1
<1> QED BY <1>2 DEF RowPages

\* The new entries of the cache are pages.
LEMMA InsertType ==
  ASSUME MemInv, NEW r \in Req, NEW K \in 0 .. NumPages, NEW m \in 0 .. NumPages,
         Whole(r, K), IsMatch(r, K, m)
  PROVE  \A p \in DOMAIN Inserted(r, K) : Inserted(r, K)[p] \in Page
<1>1. table[r] \in Seq(Page) /\ \A p \in Cached : cache[p] \in Page
  BY DEF MemInv, MemTypeOK
<1>0. InsertEffect(r, K, m)
  BY InsertFacts
<1>2. m \in Nat /\ K \in Nat /\ K <= Len(table[r])
  BY <1>0, MemAssumption DEF InsertEffect
<1>3. \A j \in m + 1 .. K : table[r][j] \in Page
  BY <1>1, <1>2
<1> QED BY <1>0, <1>1, <1>3 DEF InsertEffect

\* release_kv_cache(is_insert=True).
LEMMA ReleaseInsertInv ==
  ASSUME MemInv, NEW r \in Req, NEW K \in 0 .. NumPages, NEW m \in 0 .. NumPages,
         Whole(r, K), ReleaseInsert(r, K, m)
  PROVE  MemInv'
<1>1. /\ IsMatch(r, K, m)
      /\ table \in [Req -> Seq(Page)] /\ prot \in [Req -> Nat] /\ pin \in [Req -> Nat]
      /\ table' = [table EXCEPT ![r] = <<>>]
      /\ prot' = [prot EXCEPT ![r] = 0] /\ pin' = [pin EXCEPT ![r] = 0]
      /\ cache' = Inserted(r, K) /\ Cached' = DOMAIN Inserted(r, K)
      /\ free' = free \cup RowPages(r, prot[r] + 1, m) \cup RowPages(r, K + 1, Len(table[r]))
  BY DEF ReleaseInsert, Forget, MemInv, MemTypeOK, Cached
<1>0. InsertEffect(r, K, m)
  BY <1>1, InsertFacts
<1>2. \A q \in Req \ {r} : table'[q] = table[q] /\ prot'[q] = prot[q] /\ pin'[q] = pin[q]
                           /\ Private(q)' = Private(q)
  BY <1>1 DEF Private
<1>3. table'[r] = <<>> /\ Len(table'[r]) = 0 /\ prot'[r] = 0 /\ pin'[r] = 0 /\ Private(r)' = {}
  BY <1>1 DEF Private
<1>4. MemTypeOK'
  <2>1. table' \in [Req -> Seq(Page)] /\ prot' \in [Req -> Nat] /\ pin' \in [Req -> Nat]
    BY <1>1
  <2>2. RowPages(r, prot[r] + 1, m) \subseteq Page /\ RowPages(r, K + 1, Len(table[r])) \subseteq Page
    <3>1. /\ prot[r] \in Nat /\ K \in Nat /\ m \in Nat /\ Len(table[r]) \in Nat
          /\ m <= Len(table[r])
      BY <1>0, <1>1, MemAssumption DEF InsertEffect
    <3> QED BY <3>1, RowPagesType
  <2>3. free' \subseteq Page
    BY <1>1, <2>2 DEF MemInv, MemTypeOK
  <2> QED BY <1>1, <2>1, <2>3, InsertType DEF MemTypeOK, Page
<1>5. PrefixClosed'
  BY <1>1, InsertPrefixClosed
<1>6. ProtectedIsCached'
  <2>1. Cached \subseteq Cached' /\ \A p \in Cached : cache'[p] = cache[p]
    BY <1>0, <1>1 DEF InsertEffect
  <2> QED BY <1>2, <1>3, <2>1 DEF MemInv, ProtectedIsCached, Path
<1>7. NoSharing' /\ NoLeak'
  <2>1. \A g : g \in free' <=>
          \/ g \in free
          \/ \E j \in prot[r] + 1 .. m : g = table[r][j]
          \/ \E j \in (K + 1 .. Len(table[r])) \ Private(r)' : g = table[r][j]
    BY <1>1, <1>3 DEF RowPages
  <2> QED BY Zenon, <1>1, <1>2, <1>3, <2>1, InsertOwnership
<1> QED BY <1>4, <1>5, <1>6, <1>7 DEF MemInv

\* cache_unfinished_req.
LEMMA CacheUnfinishedInv ==
  ASSUME MemInv, NEW r \in Req, NEW K \in 0 .. NumPages, NEW m \in 0 .. NumPages,
         Whole(r, K), CacheUnfinished(r, K, m)
  PROVE  MemInv'
<1> DEFINE row == [j \in 1 .. Len(table[r]) |->
                     IF j <= K THEN Inserted(r, K)[Path(r, j)] ELSE table[r][j]]
<1>1. /\ IsMatch(r, K, m)
      /\ table \in [Req -> Seq(Page)] /\ prot \in [Req -> Nat] /\ pin \in [Req -> Nat]
      /\ table' = [table EXCEPT ![r] = row]
      /\ prot' = [prot EXCEPT ![r] = K] /\ pin' = [pin EXCEPT ![r] = K]
      /\ cache' = Inserted(r, K) /\ Cached' = DOMAIN Inserted(r, K)
      /\ free' = free \cup RowPages(r, prot[r] + 1, m)
  BY DEF CacheUnfinished, MemInv, MemTypeOK, Cached
<1>0. InsertEffect(r, K, m)
  BY <1>1, InsertFacts
<1>2. /\ prot[r] \in Nat /\ K \in Nat /\ m \in Nat /\ Len(table[r]) \in Nat
      /\ prot[r] <= m /\ m <= K /\ K <= Len(table[r])
  BY <1>0, <1>1, MemAssumption DEF InsertEffect
<1>3. \A j \in 1 .. K : Path(r, j) \in DOMAIN Inserted(r, K)
  BY DEF Inserted
<1>4. row \in [1 .. Len(table[r]) -> Page]
  <2>1. ASSUME NEW j \in 1 .. Len(table[r]) PROVE row[j] \in Page
    <3>1. CASE j <= K
      <4>1. Path(r, j) \in DOMAIN Inserted(r, K)
        BY <1>2, <1>3, <3>1
      <4> QED BY <1>1, <3>1, <4>1, InsertType
    <3>2. CASE K < j
      BY <1>1, <1>2, <3>2
    <3> QED BY <1>2, <3>1, <3>2
  <2> QED BY Zenon, <2>1
<1>5. /\ \A j \in 1 .. K : row[j] = cache'[Path(r, j)]
      /\ \A j \in K + 1 .. Len(table[r]) : row[j] = table[r][j]
  BY <1>1, <1>2
<1> HIDE DEF row
<1>6. row \in Seq(Page) /\ Len(row) = Len(table[r])
  BY <1>2, <1>4
<1>7. \A q \in Req \ {r} : table'[q] = table[q] /\ prot'[q] = prot[q] /\ pin'[q] = pin[q]
                           /\ Private(q)' = Private(q)
  BY <1>1 DEF Private
<1>8. table'[r] = row /\ prot'[r] = K /\ pin'[r] = K /\ Private(r)' = K + 1 .. Len(table[r])
  BY <1>1, <1>6 DEF Private
<1>9. MemTypeOK'
  <2>1. table' \in [Req -> Seq(Page)] /\ prot' \in [Req -> Nat] /\ pin' \in [Req -> Nat]
    BY <1>1, <1>2, <1>6
  <2>2. RowPages(r, prot[r] + 1, m) \subseteq Page
    BY <1>2, RowPagesType
  <2>3. free' \subseteq Page
    BY <1>1, <2>2 DEF MemInv, MemTypeOK
  <2> QED BY <1>1, <2>1, <2>3, InsertType DEF MemTypeOK, Page
<1>10. PrefixClosed'
  BY <1>1, InsertPrefixClosed
<1>11. ProtectedIsCached'
  <2>1. Cached \subseteq Cached' /\ \A p \in Cached : cache'[p] = cache[p]
    BY <1>0, <1>1 DEF InsertEffect
  <2>2. /\ prot'[r] <= Len(table'[r])
        /\ \A j \in 1 .. prot'[r] : Path(r, j) \in Cached' /\ table'[r][j] = cache'[Path(r, j)]
    BY <1>1, <1>2, <1>3, <1>5, <1>6, <1>8
  <2>3. ASSUME NEW q \in Req
        PROVE  /\ pin'[q] = prot'[q] /\ (table'[q] # <<>> => prot'[q] <= Len(table'[q]))
               /\ \A j \in 1 .. prot'[q] :
                    /\ Path(q, j) \in Cached'
                    /\ table'[q] # <<>> => table'[q][j] = cache'[Path(q, j)]
    <3>1. CASE q = r
      BY Zenon, <1>8, <2>2, <3>1
    <3>2. CASE q # r
      <4>1. table'[q] = table[q] /\ prot'[q] = prot[q] /\ pin'[q] = pin[q]
        BY Zenon, <1>7, <3>2
      <4> QED BY Zenon, <2>1, <4>1 DEF MemInv, ProtectedIsCached
    <3> QED BY <3>1, <3>2
  <2> QED BY Zenon, <2>3 DEF ProtectedIsCached, Path
<1>12. NoSharing' /\ NoLeak'
  <2>1. \A g : g \in free' <=>
          \/ g \in free
          \/ \E j \in prot[r] + 1 .. m : g = table[r][j]
          \/ \E j \in (K + 1 .. Len(table[r])) \ Private(r)' : g = table[r][j]
    BY <1>1, <1>8 DEF RowPages
  <2>2. \A j \in Private(r)' : j \in K + 1 .. Len(table[r]) /\ table'[r][j] = table[r][j]
    BY <1>5, <1>8
  <2> QED BY Zenon, <1>1, <1>7, <2>1, <2>2, InsertOwnership
<1> QED BY <1>9, <1>10, <1>11, <1>12 DEF MemInv

-----------------------------------------------------------------------------
(* The theorems.                                                           *)

\* Every step of the memory protocol keeps the invariant.
LEMMA StepInv == MemInv /\ [MemNext]_mem => MemInv'
<1> SUFFICES ASSUME MemInv, [MemNext]_mem PROVE MemInv'
  OBVIOUS
<1>1. CASE UNCHANGED mem
  <2>1. /\ free' = free /\ cache' = cache /\ table' = table /\ prot' = prot /\ pin' = pin
        /\ Cached' = Cached /\ \A r \in Req : Private(r)' = Private(r)
    BY <1>1 DEF mem, Cached, Private
  <2>2. MemTypeOK'
    BY <2>1 DEF MemInv, MemTypeOK, Page
  <2>3. PrefixClosed' /\ ProtectedIsCached'
    BY <2>1 DEF MemInv, PrefixClosed, ProtectedIsCached, Path
  <2>4. NoSharing'
    BY <2>1 DEF MemInv, NoSharing
  <2>5. NoLeak'
    BY <2>1 DEF MemInv, NoLeak, Page
  <2> QED BY <2>2, <2>3, <2>4, <2>5 DEF MemInv
<1>2. CASE \E E \in SUBSET Evictable(pin) : UpClosed(E) /\ Evict(E)
  BY <1>2, EvictInv
<1>3. CASE \E r \in Req, m \in 0 .. NumPages :
             /\ table[r] = <<>>
             /\ \A j \in 1 .. m : Path(r, j) \in Cached
             /\ Lock(r, m)
  BY <1>3, LockInv
<1>4. CASE MemGrow
  <2>1. PICK S \in SUBSET Req : IsAssignment(Taken, free) /\ Grow(S, Taken)
    BY <1>4 DEF MemGrow
  <2>2. PICK a : a = Taken
    OBVIOUS
  <2>3. IsAssignment(a, free) /\ Grow(S, a)
    BY <2>1, <2>2
  <2> QED BY <2>3, GrowInv
<1>5. CASE MemTrim
  <2>1. PICK keep : keep = [r \in Req |-> Len(table'[r])]
    BY Zenon
  <2>2. PICK S \in SUBSET Req :
          /\ \A r \in S : keep[r] \in prot[r] .. Len(table[r])
          /\ Trim(S, keep)
    BY Zenon, <1>5, <2>1 DEF MemTrim
  <2> QED BY <2>2, TrimInv
<1>6. CASE \E r \in Req, K \in 0 .. NumPages, m \in 0 .. NumPages :
             Whole(r, K) /\ (CacheUnfinished(r, K, m) \/ ReleaseInsert(r, K, m))
  BY <1>6, CacheUnfinishedInv, ReleaseInsertInv
<1>7. CASE \E r \in Req : ReleaseDrop(r)
  BY <1>7, ReleaseDropInv
<1> QED BY <1>1, <1>2, <1>3, <1>4, <1>5, <1>6, <1>7 DEF MemNext

\* The invariant holds in every reachable state of the memory protocol.
THEOREM MemInvHolds == MemSpec => []MemInv
<1> QED BY InitInv, StepInv, PTL DEF MemSpec

\* No sequence of allocations, verify trims, chunks, finishes, retractions,
\* aborts and evictions gives a page two owners or loses one (release_kv_cache,
\* cache_finished_req, cache_unfinished_req, evict, alloc_extend, verify).
THEOREM PageOwnershipHolds == MemSpec => []PageOwnership
<1>1. MemInv => PageOwnership
  BY DEF MemInv, PageOwnership
<1> QED BY <1>1, MemInvHolds, PTL

\* What a request reads through its row below cache_protected_len is always a
\* cached, locked path of its own text: eviction never takes it away.
THEOREM ProtectedIsCachedHolds == MemSpec => []ProtectedIsCached
<1>1. MemInv => ProtectedIsCached
  BY DEF MemInv
<1> QED BY <1>1, MemInvHolds, PTL

\* The cache stays closed under prefixes, so match_prefix finds whatever is
\* cached.
THEOREM PrefixClosedHolds == MemSpec => []PrefixClosed
<1>1. MemInv => PrefixClosed
  BY DEF MemInv
<1> QED BY <1>1, MemInvHolds, PTL

\* Type correctness of the memory protocol.
THEOREM MemTypeCorrect == MemSpec => []MemTypeOK
<1>1. MemInv => MemTypeOK
  BY DEF MemInv
<1> QED BY <1>1, MemInvHolds, PTL

-----------------------------------------------------------------------------
(* The inductive invariant.                                                *)

\* The phase the loop is in, or returns to from an eviction.
Stage == IF phase = "evict" THEN goal.then ELSE phase

HeadStages == {"recv", "merge"}
AddStages == {"adding", "prefill_alloc", "prefill_result"}
EvictStages == {"prefill_alloc", "mem_check", "recheck", "last_check",
                "retract_check", "verify_alloc", "pause_release"}
\* The running batch has been filtered and is not verified yet.
CleanStages == {"mem_check", "recheck", "last_check", "retract", "retract_check",
                "abort_last", "draft", "verify_alloc", "verify", "pause_release"}
DecodeStages == CleanStages \cup {"update", "decode_result"}

Adders == [list : Seq(Req), idx : Nat, off : Nat, cur : Nat, inp : Int,
           chunk : Int, new : Req \cup {NoReq}]

\* The types of the scheduler's own variables.
SchedTypes ==
  /\ out \in [Req -> Nat] /\ pre \in [Req -> Nat]
  /\ fill \in [Req -> Nat] /\ committed \in [Req -> Nat]
  /\ finished \subseteq Req /\ to_finish \subseteq Req /\ gone \subseteq Req
  /\ arrived \subseteq Req
  /\ waiting \in Seq(Req) /\ running \in Seq(Req)
  /\ spec \in Seq(Req) /\ last \in Seq(Req)
  /\ chunked \in Req \cup {NoReq} /\ full \in BOOLEAN
  /\ adder \in Adders
  /\ goal \in [need : Nat, then : Phases]
  /\ step \in Nat /\ phase \in Phases /\ paused \in BOOLEAN
  /\ phase = "evict" => goal.then \in EvictStages

Chunked == {chunked} \ {NoReq}

\* Every request received is in one place.
PlacesInv ==
  /\ IsInjective(waiting) /\ IsInjective(running) /\ IsInjective(last) /\ IsInjective(adder.list)
  /\ Set(waiting) \cap (Set(running) \cup Set(last) \cup finished \cup gone) = {}
  /\ Set(running) \cap Set(last) = {}
  /\ Set(adder.list) \cap (Set(running) \cup gone) = {}
  /\ gone \cap (finished \cup Set(running) \cup Set(last)) = {}
  /\ chunked \notin finished \cup gone \cup Set(running) \cup Set(waiting)
  /\ arrived = Set(waiting) \cup Set(running) \cup Set(last) \cup Set(adder.list)
                 \cup Chunked \cup finished \cup gone

\* Which batches exist in which stage.
StageInv ==
  /\ Stage \notin HeadStages => last = <<>>
  /\ Stage \notin AddStages => adder = NoAdder
  /\ Stage \in HeadStages => Chunked \subseteq Set(last)
  /\ Stage \in DecodeStages => chunked = NoReq
  /\ Stage \in {"prefill_alloc", "prefill_result"} =>
       Chunked \subseteq Set(adder.list) /\ Set(adder.list) \cap Set(waiting) = {}
  /\ Stage \in {"adding", "prefill_alloc"} => Set(adder.list) \cap finished = {}
  /\ Stage = "prefill_result" =>
       /\ step \in 1 .. Len(adder.list) + 1
       /\ \A i \in step .. Len(adder.list) : adder.list[i] \notin finished
  /\ Stage \in CleanStages => Set(running) \cap finished = {}
  /\ Stage \in CleanStages \ {"pause_release"} => running # <<>>
  /\ Stage = "retract" => Len(running) > 1
  /\ Stage \in {"last_check", "abort_last"} => Len(running) = 1
  /\ Stage \in {"decode_result", "pause_release"} => step \in 1 .. Len(running) + 1

\* Who has a row.
RowsInv ==
  /\ Set(waiting) \cap RowsHeld = {}
  /\ Stage = "decode_result" =>
       RowsHeld = {running[i] : i \in {j \in DOMAIN running : j >= step \/ running[j] \notin finished}}
  /\ Stage = "pause_release" => RowsHeld = {running[i] : i \in step .. Len(running)}
  /\ Stage \in {"adding", "prefill_alloc"} =>
       /\ RowsHeld \ Set(adder.list) = Set(running) \ finished
       /\ \A i \in 2 .. Len(adder.list) : adder.list[i] \notin RowsHeld
  /\ Stage \notin {"decode_result", "pause_release", "adding", "prefill_alloc"} =>
       RowsHeld = ((Set(running) \cup Set(last) \cup Set(adder.list)) \ finished) \cup Chunked

\* How long rows are, and what is computed of a request.
LengthsInv ==
  /\ \A r \in Req : out[r] <= FinishLen(r) /\ (r \notin finished => out[r] < FinishLen(r))
  /\ \A r \in RowsHeld :
       /\ prot[r] * PageSize <= committed[r] /\ committed[r] <= InputLen(r)
       /\ Len(table[r]) = PagesFor(committed[r] + (IF Stage = "verify" THEN Block ELSE 0))
  /\ Stage # "pause_release" =>
       \A r \in RowsHeld \cap (Set(running) \cup Set(last)) :
         r # chunked => committed[r] = InputLen(r) - 1
  /\ Stage \in HeadStages \cup {"plan"} =>
       \A r \in Chunked : committed[r] = fill[r] /\ fill[r] < InputLen(r)
  /\ Stage \in {"merge", "plan"} => \A r \in Chunked : pre[r] = fill[r]
  /\ Stage \in {"adding", "prefill_alloc"} =>
       \A r \in Set(adder.list) :
         /\ prot[r] * PageSize <= pre[r] /\ pre[r] < fill[r] /\ fill[r] <= InputLen(r)
         /\ IF r \in RowsHeld THEN committed[r] = pre[r] ELSE pre[r] = prot[r] * PageSize
  /\ Stage = "prefill_alloc" =>
       \A r \in Set(adder.list) : fill[r] < InputLen(r) <=> r = chunked
  /\ Stage = "prefill_result" =>
       \A i \in DOMAIN adder.list :
         LET r == adder.list[i]
         IN  /\ r = chunked => committed[r] = fill[r] /\ fill[r] < InputLen(r)
             /\ r # chunked /\ i >= step => committed[r] = fill[r] /\ fill[r] = InputLen(r)
             /\ r # chunked /\ r \notin finished /\ i < step => committed[r] = InputLen(r) - 1

\* While requests are admitted: the list is the resumed chunk, if there is one,
\* and then the front of the queue; one request at most is cut.
Resumed == IF adder.list # <<>> /\ adder.list[1] \in RowsHeld THEN 1 ELSE 0
AddingInv ==
  Stage = "adding" =>
    /\ adder.idx >= 1
    /\ Len(adder.list) - Resumed <= Len(waiting)
    /\ \A i \in 1 .. Len(adder.list) - Resumed : adder.list[Resumed + i] = waiting[i]
    /\ adder.idx = Len(adder.list) - Resumed + 1 \/ adder.idx = Len(waiting) + 1
    /\ chunked # NoReq =>
         /\ adder.list = <<chunked>> /\ adder.new = NoReq /\ chunked \in RowsHeld
         /\ adder.chunk < PageSize \/ RemTotal(adder, pin) <= 0
    /\ adder.new # NoReq => adder.new \in Set(adder.list) /\ adder.chunk < PageSize
    /\ \A r \in Set(adder.list) : fill[r] < InputLen(r) <=> r \in {chunked, adder.new}

\* Free or evictable pages.
Reserve(pn) == Cardinality(free) + Cardinality(Evictable(pn))

\* What the requests in the list still need, and what their prefill takes and
\* computes.
Wanted == [r \in Req |-> NewPages(pre[r], InputLen(r))]
Taking == [r \in Req |-> NewPages(pre[r], fill[r])]
Computing == [r \in Req |-> fill[r] - pre[r]]

\* There is a row for every request that was admitted.
RowRoom ==
  /\ Cardinality(RowsHeld) <= MaxRunning
  /\ Stage \in {"adding", "prefill_alloc"} =>
       Cardinality(Set(adder.list) \cup RowsHeld) <= MaxRunning

\* There are pages for all that the admitted requests have not computed; the
\* adder has counted them.
AddRoom ==
  /\ Stage \in {"adding", "prefill_alloc"} => Reserve(pin) >= Total(Wanted, Set(adder.list))
  /\ Stage = "adding" /\ chunked = NoReq /\ adder.new = NoReq =>
       adder.off >= PageSize * Total(Wanted, Set(adder.list))

\* So there are for the rest of the prompt that was cut, whatever is evicted,
\* until it is resumed.
ChunkRoom ==
  Stage \in HeadStages \cup {"plan", "prefill_result"} =>
    \A r \in Chunked : Reserve(pin) >= NewPages(fill[r], InputLen(r))

\* A prefill batch asks the cache for enough, and gets it.
AllocRoom ==
  /\ phase = "evict" /\ goal.then = "prefill_alloc" =>
       goal.need = EvictTokens(Total(Computing, Set(adder.list)), Len(adder.list))
  /\ phase = "prefill_alloc" => Total(Taking, Set(adder.list)) <= Cardinality(free)

\* check_decode_mem has found room for the blocks of the running batch.
DecodeRoom ==
  Stage \in {"draft", "verify_alloc"} => Available >= DecodeTokens(Len(running))

RoomInv == RowRoom /\ AddRoom /\ ChunkRoom /\ AllocRoom /\ DecodeRoom

\* The invariant of the event loop, on top of that of the memory.
BatchInv == SchedTypes /\ PlacesInv /\ StageInv /\ RowsInv /\ LengthsInv /\ AddingInv
SpecInv == MemInv /\ BatchInv /\ SpecAligned /\ RoomInv /\ NeverOOM

-----------------------------------------------------------------------------
(* Whole pages.                                                            *)

\* PageSize and NumPages are positive.
LEMMA PageTypes ==
  PageSize \in Nat \ {0} /\ PageSize \in Nat /\ PageSize > 0 /\ NumPages \in Nat
BY MemAssumption

LEMMA PagesForRoundUp == \A n : PagesFor(n) = RoundUp(n, PageSize)
BY DEF PagesFor, CeilDiv, RoundUp

\* The pages for n tokens are just enough.
LEMMA PagesForBounds ==
  ASSUME NEW n \in Nat
  PROVE  /\ PagesFor(n) \in Nat
         /\ n <= PagesFor(n) * PageSize /\ PagesFor(n) * PageSize < n + PageSize
BY PageTypes, PagesForRoundUp, WholeBounds

\* The least number of pages that holds n tokens.
LEMMA PagesForLeast ==
  ASSUME NEW n \in Nat, NEW k \in Nat
  PROVE  PagesFor(n) <= k <=> n <= k * PageSize
BY PageTypes, PagesForRoundUp, WholeLeast

\* Whole pages need no page more; more tokens do not need fewer.
LEMMA PagesForWhole ==
  ASSUME NEW k \in Nat
  PROVE  PagesFor(k * PageSize) = k
BY PageTypes, PagesForRoundUp, WholeExact

LEMMA PagesForMonotone ==
  ASSUME NEW n \in Nat, NEW m \in Nat, n <= m
  PROVE  PagesFor(n) <= PagesFor(m)
BY PageTypes, PagesForRoundUp, RoundUpMonotone

\* The first token needs a page.
LEMMA PagesForPositive ==
  ASSUME NEW n \in Nat
  PROVE  PagesFor(n) = 0 <=> n = 0
BY PageTypes, PagesForRoundUp, WholePositive

\* Two lists of tokens need at most a page more apart than together.
LEMMA PagesForSum ==
  ASSUME NEW n \in Nat, NEW m \in Nat
  PROVE  PagesFor(n + m) <= PagesFor(n) + PagesFor(m)
BY PageTypes, PagesForRoundUp, WholeSum

\* Tokens behind whole pages need their own pages.
LEMMA PagesForBehind ==
  ASSUME NEW k \in Nat, NEW n \in Nat
  PROVE  PagesFor(k * PageSize + n) = k + PagesFor(n)
BY PageTypes, PagesForRoundUp, WholeBehind

\* The whole pages of n tokens.
LEMMA DivBounds ==
  ASSUME NEW n \in Nat
  PROVE  /\ n \div PageSize \in Nat
         /\ (n \div PageSize) * PageSize <= n
         /\ n < (n \div PageSize) * PageSize + PageSize
BY PageTypes, PagesForRoundUp, WholeDiv

LEMMA DivLeast ==
  ASSUME NEW n \in Nat, NEW k \in Nat
  PROVE  /\ k * PageSize <= n => k <= n \div PageSize
         /\ n \div PageSize <= PagesFor(n)
         /\ n <= k * PageSize => n \div PageSize <= k
BY Zenon, PageTypes, PagesForRoundUp, WholeDivLeast

-----------------------------------------------------------------------------
(* Lists.                                                                  *)

\* The positions that stay.
Staying(s, S) == {i \in DOMAIN s : s[i] \notin S}

\* What keep_indices is.
LEMMA KeepFacts ==
  ASSUME NEW A, NEW s \in Seq(A), NEW S, NEW k \in KeepIndices(s, S)
  PROVE  /\ k \in Seq(Nat) /\ DOMAIN k = 1 .. Len(k) /\ Len(k) \in Nat
         /\ Len(k) = Cardinality(Staying(s, S)) /\ Len(k) <= Len(s)
         /\ \A n \in DOMAIN k : k[n] \in Staying(s, S)
         /\ \A i \in Staying(s, S) : \E n \in DOMAIN k : k[n] = i
         /\ \A a, b \in DOMAIN k : a < b => k[a] < k[b]
<1> DEFINE K == Staying(s, S)
           N == Cardinality(K)
<1>1. DOMAIN s = 1 .. Len(s) /\ Len(s) \in Nat
  BY SetType
<1>2. IsFiniteSet(1 .. Len(s)) /\ Cardinality(1 .. Len(s)) = Len(s)
  BY <1>1, CardUpto
<1>3. K \subseteq 1 .. Len(s)
  BY <1>1 DEF Staying
<1>4. IsFiniteSet(K) /\ N \in Nat /\ N <= Len(s)
  <2> HIDE DEF K
  <2> QED
    BY Zenon, <1>2, <1>3, FS_Subset, FS_CardinalityType
<1>5. k \in [1 .. N -> K] /\ \A a, b \in DOMAIN k : a < b => k[a] < k[b]
  BY DEF KeepIndices, Staying
<1>6. \A i \in K : i \in Nat
  BY <1>3
<1> HIDE DEF K, N
<1>7. k \in [1 .. N -> Nat] /\ DOMAIN k = 1 .. N
  BY <1>5, <1>6
<1>8. k \in Seq(Nat) /\ Len(k) = N
  BY <1>4, <1>7, SeqOfMap
<1>9. k \in Injection(1 .. N, K)
  <2>1. ASSUME NEW a \in 1 .. N, NEW b \in 1 .. N, k[a] = k[b] PROVE a = b
    <3>1. a \in Nat /\ b \in Nat /\ k[a] \in Nat /\ k[b] \in Nat
      BY <1>4, <1>7, <2>1
    <3>2. ~ a < b /\ ~ b < a
      BY <1>5, <1>7, <2>1, <3>1
    <3> QED
      BY <3>1, <3>2
  <2> QED
    BY <1>5, <1>7, <2>1 DEF Injection, IsInjective
<1>10. k \in Surjection(1 .. N, K)
  <2>1. IsFiniteSet(1 .. N) /\ Cardinality(1 .. N) = N
    BY <1>4, CardUpto
  <2>2. Cardinality(1 .. N) = Cardinality(K)
    BY <2>1 DEF N
  <2> QED
    BY <1>4, <1>9, <2>2, FS_Injection
<1>11. \A i \in K : \E n \in 1 .. N : k[n] = i
  BY <1>10 DEF Surjection
<1>12. \A n \in DOMAIN k : k[n] \in K
  BY <1>5, <1>7
<1> QED
  BY <1>4, <1>5, <1>7, <1>8, <1>11, <1>12 DEF K, N

\* filter_batch keeps the others, in their order.
LEMMA FilterFacts ==
  ASSUME NEW A, NEW s \in Seq(A), NEW S, NEW k \in KeepIndices(s, S)
  PROVE  /\ At(s, k) \in Seq(A) /\ Set(At(s, k)) = Set(s) \ S
         /\ Len(At(s, k)) = Len(k) /\ Len(k) <= Len(s) /\ Len(k) \in Nat
         /\ At(s, k) = <<>> <=> k = <<>>
         /\ IsInjective(s) => IsInjective(At(s, k))
<1> DEFINE K == Staying(s, S)
           t == At(s, k)
<1>1. /\ k \in Seq(Nat) /\ DOMAIN k = 1 .. Len(k) /\ Len(k) \in Nat /\ Len(k) <= Len(s)
      /\ \A n \in DOMAIN k : k[n] \in K
      /\ \A i \in K : \E n \in DOMAIN k : k[n] = i
      /\ \A a, b \in DOMAIN k : a < b => k[a] < k[b]
  BY KeepFacts
<1>2. K \subseteq DOMAIN s /\ \A i \in K : s[i] \in A /\ i \in Nat
  BY SetType DEF Staying
<1>3. t = [n \in 1 .. Len(k) |-> s[k[n]]]
  BY <1>1 DEF At
<1>4. t \in [1 .. Len(k) -> A]
  <2> HIDE DEF K
  <2> QED
    BY <1>1, <1>2, <1>3
<1>5. t \in Seq(A) /\ DOMAIN t = 1 .. Len(k) /\ Len(t) = Len(k)
  BY Zenon, <1>1, <1>4, SeqOfMap
<1>6. Set(t) = Set(s) \ S
  <2>1. ASSUME NEW x \in Set(t) PROVE x \in Set(s) \ S
    <3>1. PICK n \in 1 .. Len(k) : x = s[k[n]]
      BY <1>3, <1>5, <2>1 DEF Set
    <3>2. k[n] \in DOMAIN s /\ s[k[n]] \notin S
      BY Zenon, <1>1, <3>1 DEF Staying
    <3> QED
      BY <3>1, <3>2 DEF Set
  <2>2. ASSUME NEW x \in Set(s) \ S PROVE x \in Set(t)
    <3>1. PICK i \in DOMAIN s : x = s[i]
      BY <2>2 DEF Set
    <3>2. i \in K
      BY <2>2, <3>1 DEF Staying
    <3>3. PICK n \in 1 .. Len(k) : k[n] = i
      BY <1>1, <3>2
    <3> QED
      BY <1>3, <1>5, <3>1, <3>3 DEF Set
  <2> QED
    BY <2>1, <2>2
<1>7. ASSUME IsInjective(s) PROVE IsInjective(t)
  <2>1. ASSUME NEW a \in 1 .. Len(k), NEW b \in 1 .. Len(k), t[a] = t[b] PROVE a = b
    <3>1. k[a] \in DOMAIN s /\ k[b] \in DOMAIN s /\ s[k[a]] = s[k[b]]
      BY Zenon, <1>1, <1>3, <2>1 DEF Staying
    <3>2. k[a] = k[b] /\ k[a] \in Nat
      BY <1>1, <1>2, <1>7, <2>1, <3>1 DEF IsInjective
    <3> HIDE DEF K
    <3>3. a \in Nat /\ b \in Nat /\ a \in DOMAIN k /\ b \in DOMAIN k
      BY <1>1, <2>1
    <3>4. (a < b => k[a] < k[b]) /\ (b < a => k[b] < k[a])
      BY <1>1, <3>3, Zenon
    <3> QED
      BY <3>2, <3>3, <3>4
  <2> QED
    BY <1>5, <2>1 DEF IsInjective
<1>8. t = <<>> <=> k = <<>>
  BY <1>1, <1>5
<1> QED
  BY <1>1, <1>5, <1>6, <1>7, <1>8

-----------------------------------------------------------------------------
(* The draft state follows the batch.                                      *)

\* Steps that leave the running batch and its draft state alone.
LEMMA AlignedSame ==
  ASSUME SpecAligned, running' = running, spec' = spec
  PROVE  SpecAligned'
BY DEF SpecAligned

\* MergeLastBatch and the merge of pause_generation.
LEMMA AlignedMerge ==
  ASSUME SchedTypes, SpecAligned, NEW S, NEW k \in KeepIndices(last, S)
  PROVE  LET more == At(last, k)
             merged == running \o more
         IN  /\ merged \in Seq(Req)
             /\ merged # <<>> => (IF more = <<>> THEN spec ELSE MergedSpec(more)) = merged
<1> DEFINE more == At(last, k)
<1>1. last \in Seq(Req) /\ running \in Seq(Req) /\ spec \in Seq(Req)
  BY DEF SchedTypes
<1>2. more \in Seq(Req)
  BY <1>1, FilterFacts
<1> HIDE DEF more
<1>3. running \o more \in Seq(Req)
  BY <1>1, <1>2
<1>4. CASE more = <<>>
  <2>1. running \o more = running
    BY <1>1, <1>4
  <2> QED
    BY <1>3, <1>4, <2>1 DEF SpecAligned, more
<1>5. CASE more # <<>>
  <2>1. CASE running = <<>>
    <3>1. running \o more = more
      BY <1>2, <2>1
    <3> QED
      BY <1>3, <1>5, <2>1, <3>1 DEF MergedSpec, more
  <2>2. CASE running # <<>>
    BY <1>3, <1>5, <2>2 DEF MergedSpec, SpecAligned, more
  <2> QED
    BY <2>1, <2>2
<1> QED
  BY <1>4, <1>5

LEMMA AlignedMergeLastBatch ==
  ASSUME SchedTypes, SpecAligned, MergeLastBatch
  PROVE  SpecAligned'
<1>1. PICK k \in KeepIndices(last, finished \cup {chunked}) :
        LET more == At(last, k)
        IN  /\ running' = running \o more
            /\ spec' = IF more = <<>> THEN spec ELSE MergedSpec(more)
  BY Zenon DEF MergeLastBatch
<1> QED
  BY Zenon, <1>1, AlignedMerge DEF SpecAligned

LEMMA AlignedPauseRetract ==
  ASSUME SchedTypes, SpecAligned, PauseRetract
  PROVE  SpecAligned'
<1>1. PICK k \in KeepIndices(last, finished) :
        LET more == At(last, k)
            merged == running \o more
            mergedSpec == IF more = <<>> THEN spec ELSE MergedSpec(more)
        IN  \E kept \in KeepIndices(merged, finished) :
              /\ running' = At(merged, kept)
              /\ spec' = IF kept = <<>> THEN mergedSpec ELSE FilteredSpec(mergedSpec, kept)
  BY Zenon DEF PauseRetract
<1> DEFINE more == At(last, k)
           merged == running \o more
           mergedSpec == IF more = <<>> THEN spec ELSE MergedSpec(more)
<1>2. merged \in Seq(Req) /\ (merged # <<>> => mergedSpec = merged)
  BY AlignedMerge
<1>3. PICK kept \in KeepIndices(merged, finished) :
        /\ running' = At(merged, kept)
        /\ spec' = IF kept = <<>> THEN mergedSpec ELSE FilteredSpec(mergedSpec, kept)
  BY <1>1
<1> HIDE DEF merged, mergedSpec
<1>4. At(merged, kept) = <<>> <=> kept = <<>>
  BY <1>2, FilterFacts
<1>5. merged = <<>> => At(merged, kept) = <<>>
  <2>1. Len(kept) <= Len(merged) /\ Len(kept) \in Nat /\ At(merged, kept) \in Seq(Req)
        /\ Len(At(merged, kept)) = Len(kept)
    BY <1>2, FilterFacts
  <2> QED
    BY <1>2, <2>1
<1> QED
  BY <1>2, <1>3, <1>4, <1>5 DEF SpecAligned, FilteredSpec

LEMMA AlignedUpdateRunningBatch ==
  ASSUME SchedTypes, SpecAligned, UpdateRunningBatch
  PROVE  SpecAligned'
<1>1. PICK k \in KeepIndices(running, finished) :
        /\ running' = At(running, k)
        /\ IF k = <<>> THEN UNCHANGED spec ELSE spec' = FilteredSpec(spec, k)
  BY Zenon DEF UpdateRunningBatch
<1>2. running \in Seq(Req)
  BY DEF SchedTypes
<1>3. At(running, k) = <<>> <=> k = <<>>
  BY <1>2, FilterFacts
<1>4. running = <<>> => k = <<>>
  <2>1. Len(k) <= Len(running) /\ Len(k) \in Nat /\ k \in Seq(Nat)
    BY <1>2, FilterFacts, KeepFacts
  <2> QED
    BY <1>2, <2>1
<1> QED
  BY <1>1, <1>3, <1>4 DEF SpecAligned, FilteredSpec

LEMMA AlignedRetract ==
  ASSUME SchedTypes, SpecAligned, Retract
  PROVE  SpecAligned'
<1>1. /\ running' = SubSeq(running, 1, Len(running) - 1)
      /\ spec' = SubSeq(spec, 1, Len(running) - 1)
  BY Zenon DEF Retract
<1>2. running \in Seq(Req)
  BY DEF SchedTypes
<1>3. CASE running = <<>>
  <2>1. Len(running) - 1 = -1
    BY <1>3
  <2>2. SubSeq(running, 1, Len(running) - 1) = <<>>
    BY <1>2, <2>1
  <2> QED
    BY <1>1, <2>2 DEF SpecAligned
<1>4. CASE running # <<>>
  BY <1>1, <1>4 DEF SpecAligned
<1> QED
  BY <1>3, <1>4

\* Every step of the loop and of its clients keeps the draft state aligned.
LEMMA AlignedStep ==
  ASSUME SchedTypes, SpecAligned, [Next]_vars
  PROVE  SpecAligned'
<1>1. CASE UNCHANGED vars
  BY <1>1, AlignedSame DEF vars, sched
<1>2. ASSUME NEW r \in Req, HandleGenerateRequest(r) \/ AbortRequest(r) PROVE SpecAligned'
  BY <1>2, AlignedSame DEF HandleGenerateRequest, AbortRequest
<1>3. CASE PauseInPlace \/ ContinueGeneration
  BY <1>3, AlignedSame DEF PauseInPlace, ContinueGeneration, sched
<1>4. CASE PauseRelease \/ StashChunked \/ EvictFromTreeCache
  BY <1>4, AlignedSame DEF PauseRelease, StashChunked, EvictFromTreeCache, sched
<1>5. CASE PlanPrefill \/ AddOneReq \/ FinishAdder
  <2>1. running' = running /\ spec' = spec
    BY <1>5, Zenon DEF PlanPrefill, AddOneReq, FinishAdder
  <2> QED
    BY <2>1, AlignedSame
<1>6. CASE PrefillForward \/ PrefillResult \/ PrefillDone
  <2>1. running' = running /\ spec' = spec
    BY <1>6, Zenon DEF PrefillForward, PrefillResult, PrefillDone, sched
  <2> QED
    BY <2>1, AlignedSame
<1>7. CASE CheckDecodeMem \/ RetractCheck \/ DraftBlock
  <2>1. running' = running /\ spec' = spec
    BY <1>7, Zenon DEF CheckDecodeMem, RetractCheck, DraftBlock, sched
  <2> QED
    BY <2>1, AlignedSame
<1>8. CASE PrepareForVerify \/ Verify \/ DecodeResult \/ DecodeDone
  <2>1. running' = running /\ spec' = spec
    BY <1>8, Zenon DEF PrepareForVerify, Verify, DecodeResult, DecodeDone, sched
  <2> QED
    BY <2>1, AlignedSame
<1>9. CASE PauseDone \/ AbortLast
  <2>1. running' = <<>>
    BY <1>9, Zenon DEF PauseDone, AbortLast
  <2> QED
    BY <2>1 DEF SpecAligned
<1> QED
  BY <1>1, <1>2, <1>3, <1>4, <1>5, <1>6, <1>7, <1>8, <1>9, AlignedMergeLastBatch,
     AlignedPauseRetract, AlignedUpdateRunningBatch, AlignedRetract
  DEF Next, LoopStep

-----------------------------------------------------------------------------
(* The scheduler follows the memory protocol.                              *)

\* The parameters, and what is accepted.
LEMMA ParamTypes ==
  /\ Block \in Nat \ {0} /\ ChunkSize \in Nat \ {0}
  /\ MaxPrefillTokens \in Nat \ {0} /\ MaxRunning \in Nat \ {0}
  /\ ChunkSize % PageSize = 0
  /\ RetractSteps \in Nat /\ ClipMaxNew \in Nat
  /\ NoReq \notin Req
  /\ \A r \in Req : /\ PromptLen[r] \in Nat \ {0} /\ MaxNew[r] \in Nat \ {0}
                    /\ StopLen[r] \in Nat \ {0}
BY ConstantsAssumption

\* An accepted request never outgrows the pool.
LEMMA InputBound ==
  ASSUME SchedTypes, LengthsInv, NEW r \in Req
  PROVE  /\ InputLen(r) \in Nat /\ InputLen(r) >= 1 /\ InputLen(r) < NumPages * PageSize
         /\ FinishLen(r) \in Nat /\ FinishLen(r) >= 1 /\ FinishLen(r) <= MaxNew[r]
         /\ out[r] <= FinishLen(r) /\ (r \notin finished => out[r] < FinishLen(r))
         /\ out[r] \in Nat /\ NumPages * PageSize \in Nat
<1>1. out[r] \in Nat /\ PromptLen[r] \in Nat \ {0} /\ MaxNew[r] \in Nat \ {0}
      /\ StopLen[r] \in Nat \ {0}
  BY ParamTypes DEF SchedTypes
<1>2. FinishLen(r) \in Nat /\ FinishLen(r) >= 1 /\ FinishLen(r) <= MaxNew[r]
  BY <1>1 DEF FinishLen, Least
<1>3. out[r] <= FinishLen(r) /\ (r \notin finished => out[r] < FinishLen(r))
  BY DEF LengthsInv
<1>4. NumPages * PageSize \in Nat
  BY PageTypes
<1>5. MaxNew[r] <= NumPages * PageSize - 2 - PromptLen[r]
  BY AcceptedAssumption DEF AcceptedMaxNew
<1>6. InputLen(r) = PromptLen[r] + out[r]
  BY DEF InputLen
<1> QED
  BY <1>1, <1>2, <1>3, <1>4, <1>5, <1>6

\* The types of a row.
LEMMA RowTypes ==
  ASSUME MemInv, NEW r \in Req
  PROVE  /\ table[r] \in Seq(Page) /\ Len(table[r]) \in Nat
         /\ prot[r] \in Nat /\ pin[r] = prot[r]
         /\ r \in RowsHeld <=> Len(table[r]) > 0
BY DEF MemInv, MemTypeOK, ProtectedIsCached, RowsHeld

\* The committed tokens of a row fill whole pages of it.
LEMMA RowWhole ==
  ASSUME MemInv, SchedTypes, LengthsInv, NEW r \in RowsHeld
  PROVE  /\ committed[r] \in Nat
         /\ committed[r] \div PageSize \in 0 .. NumPages
         /\ Whole(r, committed[r] \div PageSize)
<1> DEFINE c == committed[r]
           d == c \div PageSize
           b == IF Stage = "verify" THEN Block ELSE 0
<1>1. r \in Req /\ c \in Nat
  BY DEF RowsHeld, SchedTypes
<1>2. prot[r] \in Nat /\ Len(table[r]) \in Nat
  BY <1>1, RowTypes
<1>3. prot[r] * PageSize <= c /\ c <= InputLen(r) /\ Len(table[r]) = PagesFor(c + b)
  BY DEF LengthsInv
<1>4. b \in Nat
  BY ParamTypes
<1>5. InputLen(r) \in Nat /\ InputLen(r) < NumPages * PageSize /\ NumPages * PageSize \in Nat
  BY <1>1, InputBound
<1> HIDE DEF c, d, b
<1>6. d \in Nat /\ prot[r] <= d
  BY Zenon, <1>1, <1>2, <1>3, DivBounds, DivLeast DEF d
<1>7. d <= NumPages
  <2>1. c <= NumPages * PageSize
    BY <1>1, <1>3, <1>5
  <2> QED
    BY <1>1, <2>1, PageTypes, DivLeast DEF d
<1>8. d <= Len(table[r])
  <2>1. d <= PagesFor(c) /\ PagesFor(c) \in Nat
    BY <1>1, DivLeast, PagesForBounds DEF d
  <2>2. c + b \in Nat /\ c <= c + b
    BY <1>1, <1>4
  <2>3. PagesFor(c) <= PagesFor(c + b) /\ PagesFor(c + b) \in Nat
    BY <1>1, <2>2, PagesForMonotone, PagesForBounds
  <2> QED
    BY <1>3, <1>6, <2>1, <2>3
<1> QED
  BY <1>1, <1>2, <1>6, <1>7, <1>8, PageTypes DEF Whole, c, d

\* Filing a row's committed pages is a step of the protocol.
LEMMA StashIsMem ==
  ASSUME MemInv, SchedTypes, LengthsInv, NEW r \in RowsHeld, fill[r] = committed[r], Stash(r)
  PROVE  MemNext
<1>1. PICK m \in 0 .. NumPages : CacheUnfinished(r, fill[r] \div PageSize, m)
  BY DEF Stash
<1>2. r \in Req
  BY DEF RowsHeld
<1>3. fill[r] \div PageSize \in 0 .. NumPages /\ Whole(r, fill[r] \div PageSize)
  BY RowWhole
<1> QED
  BY <1>1, <1>2, <1>3 DEF MemNext

LEMMA FinishIsMem ==
  ASSUME MemInv, SchedTypes, LengthsInv, NEW r \in RowsHeld, Finish(r)
  PROVE  MemNext
<1>1. PICK m \in 0 .. NumPages : ReleaseInsert(r, committed[r] \div PageSize, m)
  BY DEF Finish
<1>2. r \in Req
  BY DEF RowsHeld
<1>3. committed[r] \div PageSize \in 0 .. NumPages /\ Whole(r, committed[r] \div PageSize)
  BY RowWhole
<1> QED
  BY <1>1, <1>2, <1>3 DEF MemNext

LEMMA DropIsMem ==
  ASSUME NEW r \in Req, Drop(r)
  PROVE  MemNext
BY DEF Drop, MemNext

LEMMA EvictIsMem ==
  ASSUME EvictFromTreeCache
  PROVE  MemNext \/ UNCHANGED mem
BY DEF EvictFromTreeCache, Evictions, MemNext

\* Rows grow by disjoint lists of free pages.
LEMMA ExtendIsMem ==
  ASSUME MemInv, NEW S \in SUBSET Req, NEW from, NEW to, NEW ph, Extend(S, from, to, ph)
  PROVE  MemNext \/ UNCHANGED mem
<1> DEFINE need == [r \in Req |-> IF r \in S THEN NewPages(from[r], to[r]) ELSE 0]
<1>1. CASE UNCHANGED mem
  BY <1>1
<1>2. CASE \E a \in PageAssignments(free, need) :
             /\ IsAssignment(a, free) /\ \A r \in Req : Len(a[r]) = need[r]
             /\ Grow(S, a)
  <2>1. PICK a : /\ IsAssignment(a, free) /\ \A r \in Req : Len(a[r]) = need[r]
                 /\ Grow(S, a)
    BY <1>2
  <2>2. a \in [Req -> Seq(free)] /\ free \subseteq Page
    BY <2>1 DEF IsAssignment, MemInv, MemTypeOK
  <2>3. table' = [r \in Req |-> IF r \in S THEN Row(r) \o a[r] ELSE table[r]]
    BY <2>1 DEF Grow
  <2>4. ASSUME NEW r \in Req PROVE Taken[r] = a[r]
    <3>1. /\ Row(r) \in Seq(Page) /\ a[r] \in Seq(Page) /\ a[r] \in Seq(free)
          /\ table[r] \in Seq(Page)
      BY <2>2, RowFacts, RowTypes
    <3>2. Taken[r] = SubSeq(table'[r], Len(Row(r)) + 1, Len(table'[r]))
      BY DEF Taken
    <3>3. CASE r \in S
      <4>1. table'[r] = Row(r) \o a[r]
        BY <2>3, <3>3
      <4> QED
        BY <3>1, <3>2, <4>1
    <3>4. CASE r \notin S
      <4>1. table'[r] = table[r] /\ Len(a[r]) = 0
        BY <2>1, <2>3, <3>4
      <4>2. a[r] = <<>>
        BY <3>1, <4>1
      <4>3. CASE table[r] = <<>>
        <5>1. Len(Row(r)) + 1 > 0 /\ Len(table[r]) = 0 /\ Len(Row(r)) \in Nat
          BY <3>1, <4>3
        <5> QED
          BY <3>1, <3>2, <4>1, <4>2, <5>1
      <4>4. CASE table[r] # <<>>
        <5>1. Row(r) = table[r]
          BY <4>4 DEF Row
        <5> QED
          BY <3>1, <3>2, <4>1, <4>2, <5>1
      <4> QED
        BY <4>3, <4>4
    <3> QED
      BY <3>3, <3>4
  <2>5. Taken = a
    <3>1. Taken = [r \in Req |-> Taken[r]] /\ a = [r \in Req |-> a[r]]
      BY <2>2 DEF Taken
    <3> QED
      BY <2>4, <3>1
  <2> QED
    BY <2>1, <2>5 DEF MemNext, MemGrow
<1> QED
  BY <1>1, <1>2 DEF Extend

\* A match of the cached prefix is locked for a request without a row.
LEMMA LockIsMem ==
  ASSUME SchedTypes, LengthsInv, NEW r \in Req, NEW m \in 0 .. MatchLimit(r),
         table[r] = <<>>, IsMatch(r, MatchLimit(r), m), Lock(r, m)
  PROVE  MemNext /\ m \in 0 .. NumPages
<1> DEFINE n == InputLen(r) - 1
<1>1. InputLen(r) \in Nat /\ InputLen(r) >= 1 /\ InputLen(r) < NumPages * PageSize
      /\ NumPages * PageSize \in Nat
  BY InputBound
<1>2. n \in Nat /\ n <= NumPages * PageSize
  BY <1>1
<1> HIDE DEF n
<1>3. n \div PageSize <= NumPages /\ n \div PageSize \in Nat
  BY Zenon, <1>2, PageTypes, DivLeast, DivBounds
<1>4. m \in 0 .. NumPages
  BY <1>3, PageTypes DEF MatchLimit, n
<1>5. \A j \in 1 .. m : Path(r, j) \in Cached
  BY DEF IsMatch
<1> QED
  BY <1>4, <1>5 DEF MemNext

\* The pages a verified row keeps are those of its committed tokens.
LEMMA KeepPagesFor ==
  ASSUME NEW n \in Nat, NEW h \in Nat, n <= h
  PROVE  KeepPages(n, h) = PagesFor(n)
<1> DEFINE a == PagesFor(n)
           u == AlignUp(n)
           l == Least(u, h)
<1>1. a \in Nat /\ n <= a * PageSize /\ u = a * PageSize /\ u \in Nat
  BY PagesForBounds, PageTypes DEF AlignUp
<1> HIDE DEF u
<1>2. l \in Nat /\ n <= l /\ l <= a * PageSize
  BY <1>1 DEF Least
<1> HIDE DEF l
<1>3. PagesFor(l) <= a /\ a <= PagesFor(l) /\ PagesFor(l) \in Nat
  BY <1>1, <1>2, PagesForLeast, PagesForMonotone, PagesForBounds
<1> HIDE DEF a
<1>4. KeepPages(n, h) = PagesFor(l)
  BY DEF KeepPages, l, u
<1> QED
  BY <1>1, <1>3, <1>4 DEF a

\* A verify step appends at least one token and at most a block.
LEMMA AppendedFacts ==
  ASSUME SchedTypes, LengthsInv, NEW r \in Req, r \notin finished, NEW acc \in 0 .. Block - 1
  PROVE  /\ Appended(r, acc) \in 1 .. Block
         /\ out[r] + Appended(r, acc) <= FinishLen(r)
<1>1. FinishLen(r) \in Nat /\ out[r] \in Nat /\ out[r] < FinishLen(r)
  BY InputBound
<1>2. Block \in Nat /\ Block >= 1 /\ acc \in Nat /\ acc <= Block - 1
  BY ParamTypes
<1> HIDE DEF FinishLen
<1> QED
  BY <1>1, <1>2 DEF Appended, Least

\* The batch that is verified.
LEMMA VerifyRows ==
  ASSUME MemInv, BatchInv, phase = "verify", NEW r \in Set(running)
  PROVE  /\ r \in Req /\ r \notin finished /\ r \in RowsHeld
         /\ committed[r] = InputLen(r) - 1 /\ committed[r] \in Nat
         /\ prot[r] * PageSize <= committed[r]
         /\ Len(table[r]) = PagesFor(committed[r] + Block)
         /\ RowsHeld = Set(running)
<1>1. Stage = "verify"
  BY DEF Stage
<1>2. last = <<>> /\ adder = NoAdder /\ chunked = NoReq /\ Set(running) \cap finished = {}
  BY <1>1 DEF BatchInv, StageInv, HeadStages, AddStages, DecodeStages, CleanStages
<1>3. RowsHeld = ((Set(running) \cup Set(last) \cup Set(adder.list)) \ finished) \cup Chunked
  BY <1>1 DEF BatchInv, RowsInv
<1>4. Set(last) = {} /\ Set(adder.list) = {} /\ Chunked = {}
  BY <1>2 DEF Set, NoAdder, Chunked
<1>5. RowsHeld = Set(running)
  BY <1>2, <1>3, <1>4
<1>6. Set(running) \subseteq Req
  BY SetType DEF BatchInv, SchedTypes
<1>7. committed[r] \in Nat
  BY <1>6 DEF BatchInv, SchedTypes
<1>8. r # chunked /\ r \in RowsHeld \cap (Set(running) \cup Set(last))
  BY <1>2, <1>5, <1>6, ParamTypes
<1>9. committed[r] = InputLen(r) - 1
  BY <1>1, <1>8 DEF BatchInv, LengthsInv
<1>10. prot[r] * PageSize <= committed[r] /\ Len(table[r]) = PagesFor(committed[r] + Block)
  BY <1>1, <1>8 DEF BatchInv, LengthsInv
<1> QED
  BY <1>2, <1>5, <1>6, <1>7, <1>9, <1>10

\* What verify() does to the tokens and pages of a request of the batch.
LEMMA VerifyEffect ==
  ASSUME MemInv, BatchInv, Verify
  PROVE  \E app \in [Req -> Nat] :
           /\ committed' = [r \in Req |-> committed[r] + app[r]]
           /\ out' = [r \in Req |-> out[r] + app[r]]
           /\ finished' = finished \cup
                {r \in Set(running) : r \in to_finish \/ out[r] + app[r] >= FinishLen(r)}
           /\ \A r \in Req \ Set(running) : app[r] = 0
           /\ \A r \in Set(running) : app[r] \in 1 .. Block /\ out[r] + app[r] <= FinishLen(r)
           /\ Trim(Set(running), [r \in Set(running) |-> PagesFor(committed[r] + app[r])])
<1> DEFINE S == Set(running)
           hi == Plus(Block)
<1>0. phase = "verify"
  BY DEF Verify
<1>1. PICK acc \in [S -> 0 .. Block - 1] :
        LET app == [r \in Req |-> IF r \in S THEN Appended(r, acc[r]) ELSE 0]
            upto == [r \in Req |-> committed[r] + app[r]]
        IN  /\ Trim(S, [r \in S |-> KeepPages(upto[r], hi[r])])
            /\ committed' = upto
            /\ out' = [r \in Req |-> out[r] + app[r]]
            /\ finished' = finished \cup {r \in S : r \in to_finish \/ out[r] + app[r] >= FinishLen(r)}
  BY Zenon DEF Verify
<1> DEFINE app == [r \in Req |-> IF r \in S THEN Appended(r, acc[r]) ELSE 0]
<1>2. SchedTypes /\ LengthsInv /\ S \subseteq Req
  BY Zenon, SetType DEF BatchInv, SchedTypes
<1>3. ASSUME NEW r \in S
      PROVE  app[r] \in 1 .. Block /\ out[r] + app[r] <= FinishLen(r)
  <2>1. r \in Req /\ r \notin finished /\ acc[r] \in 0 .. Block - 1
    BY <1>0, VerifyRows
  <2>2. app[r] = Appended(r, acc[r])
    BY <2>1
  <2> QED
    BY <1>2, <2>1, <2>2, AppendedFacts
<1>4. \A r \in Req \ S : app[r] = 0
  OBVIOUS
<1>5. Block \in Nat
  BY ParamTypes
<1>6. app \in [Req -> Nat]
  <2>1. \A r \in Req : app[r] \in Nat
    <3>1. \A r \in S : app[r] \in Nat
      BY <1>3, <1>5
    <3> QED
      BY Zenon, <1>4, <3>1
  <2> QED
    BY <2>1
<1> HIDE DEF S
<1>7. [r \in S |-> KeepPages([q \in Req |-> committed[q] + app[q]][r], hi[r])]
        = [r \in S |-> PagesFor(committed[r] + app[r])]
  <2>1. ASSUME NEW r \in S
        PROVE  KeepPages([q \in Req |-> committed[q] + app[q]][r], hi[r])
                 = PagesFor(committed[r] + app[r])
    <3>1. r \in Req /\ committed[r] \in Nat
      BY <1>2 DEF SchedTypes
    <3>2. [q \in Req |-> committed[q] + app[q]][r] = committed[r] + app[r]
      BY <3>1
    <3>3. hi[r] = committed[r] + Block
      BY <3>1 DEF Plus
    <3> HIDE DEF app
    <3>4. committed[r] + app[r] \in Nat /\ committed[r] + Block \in Nat
          /\ committed[r] + app[r] <= committed[r] + Block
      BY <1>3, <1>5, <3>1
    <3> HIDE DEF hi
    <3> QED
      BY <3>2, <3>3, <3>4, KeepPagesFor
  <2> QED
    BY <2>1
<1>8. /\ Trim(S, [r \in S |-> PagesFor(committed[r] + app[r])])
      /\ committed' = [r \in Req |-> committed[r] + app[r]]
      /\ out' = [r \in Req |-> out[r] + app[r]]
      /\ finished' = finished \cup {r \in S : r \in to_finish \/ out[r] + app[r] >= FinishLen(r)}
  BY Zenon, <1>1, <1>7
<1> HIDE DEF app
<1> QED
  BY Zenon, <1>3, <1>4, <1>6, <1>8 DEF S

\* Rows shrink by unprotected pages only.
LEMMA VerifyIsMem ==
  ASSUME MemInv, BatchInv, Verify
  PROVE  MemNext
<1>0. phase = "verify"
  BY DEF Verify
<1>1. PICK app \in [Req -> Nat] :
        /\ \A r \in Set(running) : app[r] \in 1 .. Block
        /\ Trim(Set(running), [r \in Set(running) |-> PagesFor(committed[r] + app[r])])
  BY Zenon, VerifyEffect
<1> DEFINE S == Set(running)
           k == [r \in S |-> PagesFor(committed[r] + app[r])]
           keep == [r \in Req |-> Len(table'[r])]
<1>2. S \subseteq Req
  BY SetType DEF BatchInv, SchedTypes
<1>3. /\ table' = [r \in Req |-> IF r \in S THEN [j \in 1 .. k[r] |-> table[r][j]] ELSE table[r]]
      /\ free' = free \cup UNION {RowPages(r, k[r] + 1, Len(table[r])) : r \in S}
      /\ UNCHANGED <<cache, prot, pin>>
  BY <1>1 DEF Trim
<1>4. ASSUME NEW r \in S
      PROVE  keep[r] = k[r] /\ k[r] \in prot[r] .. Len(table[r])
  <2>1. /\ r \in Req /\ committed[r] \in Nat /\ prot[r] * PageSize <= committed[r]
        /\ Len(table[r]) = PagesFor(committed[r] + Block)
    BY <1>0, VerifyRows
  <2>2. app[r] \in Nat /\ app[r] <= Block /\ Block \in Nat
    BY <1>1, ParamTypes, <2>1
  <2>3. prot[r] \in Nat
    BY <2>1, RowTypes
  <2>4. k[r] = PagesFor(committed[r] + app[r])
    OBVIOUS
  <2>5. committed[r] + app[r] \in Nat /\ committed[r] + Block \in Nat
        /\ committed[r] + app[r] <= committed[r] + Block
    BY <2>1, <2>2
  <2>6. prot[r] * PageSize <= committed[r] + app[r] /\ prot[r] * PageSize \in Nat
    BY <2>1, <2>2, <2>3, PageTypes
  <2>7. PagesFor(prot[r] * PageSize) <= k[r] /\ k[r] <= Len(table[r]) /\ k[r] \in Nat
        /\ Len(table[r]) \in Nat
    BY Zenon, <2>1, <2>4, <2>5, <2>6, PagesForMonotone, PagesForBounds
  <2>8. prot[r] <= k[r]
    BY <2>3, <2>7, PagesForWhole
  <2> HIDE DEF k
  <2>9. table'[r] = [j \in 1 .. k[r] |-> table[r][j]]
    BY <1>3, <2>1
  <2>10. Len(table'[r]) = k[r]
    BY <2>7, <2>9
  <2> QED
    BY <2>1, <2>3, <2>7, <2>8, <2>10
<1> HIDE DEF k, S
<1>5. table' = [r \in Req |-> IF r \in S THEN [j \in 1 .. keep[r] |-> table[r][j]] ELSE table[r]]
  BY Zenon, <1>3, <1>4
<1>6. {RowPages(r, k[r] + 1, Len(table[r])) : r \in S}
        = {RowPages(r, keep[r] + 1, Len(table[r])) : r \in S}
  BY Zenon, <1>4
<1>7. Trim(S, keep)
  BY Zenon, <1>3, <1>5, <1>6 DEF Trim
<1>8. MemTrim
  BY Zenon, <1>2, <1>4, <1>7 DEF MemTrim
<1> QED
  BY <1>8 DEF MemNext

\* A chunked request between two iterations has its row.
LEMMA ChunkedRow ==
  ASSUME BatchInv, Stage \in HeadStages \cup {"plan"}, chunked # NoReq
  PROVE  chunked \in RowsHeld /\ committed[chunked] = fill[chunked]
         /\ fill[chunked] < InputLen(chunked)
<1>1. chunked \in Chunked
  BY DEF Chunked
<1>2. RowsHeld = ((Set(running) \cup Set(last) \cup Set(adder.list)) \ finished) \cup Chunked
  BY DEF BatchInv, RowsInv, HeadStages
<1> QED
  BY <1>1, <1>2 DEF BatchInv, LengthsInv

\* A prefill result is that of a request with a row.
LEMMA PrefillRow ==
  ASSUME MemInv, BatchInv, phase = "prefill_result", step <= Len(adder.list)
  PROVE  LET r == adder.list[step]
         IN  /\ step \in DOMAIN adder.list /\ r \in Set(adder.list) /\ r \in Req
             /\ r \in RowsHeld /\ r \notin finished
             /\ committed[r] = fill[r] /\ fill[r] <= InputLen(r)
             /\ r # chunked => fill[r] = InputLen(r)
<1> DEFINE r == adder.list[step]
<1>1. Stage = "prefill_result" /\ adder.list \in Seq(Req)
  BY DEF Stage, BatchInv, SchedTypes, Adders
<1>2. step \in 1 .. Len(adder.list) /\ DOMAIN adder.list = 1 .. Len(adder.list)
      /\ Len(adder.list) \in Nat /\ step \in step .. Len(adder.list) /\ step >= step
  BY <1>1 DEF BatchInv, StageInv
<1>3. r \in Req /\ r \in Set(adder.list)
  BY <1>1, <1>2 DEF Set
<1>4. r \notin finished
  BY <1>1, <1>2 DEF BatchInv, StageInv
<1>5. r \in RowsHeld
  BY <1>1, <1>3, <1>4 DEF BatchInv, RowsInv
<1>6. /\ r = chunked => committed[r] = fill[r] /\ fill[r] < InputLen(r)
      /\ r # chunked => committed[r] = fill[r] /\ fill[r] = InputLen(r)
  BY <1>1, <1>2 DEF BatchInv, LengthsInv
<1>7. InputLen(r) \in Nat /\ fill[r] \in Nat
  BY Zenon, <1>3, InputBound DEF BatchInv, SchedTypes
<1> QED
  BY <1>2, <1>3, <1>4, <1>5, <1>6, <1>7

\* So is a decode result.
LEMMA DecodeRow ==
  ASSUME MemInv, BatchInv, phase = "decode_result", step <= Len(running)
  PROVE  LET r == running[step]
         IN  /\ step \in DOMAIN running /\ r \in Set(running) /\ r \in Req /\ r \in RowsHeld
<1>1. Stage = "decode_result" /\ running \in Seq(Req)
  BY DEF Stage, BatchInv, SchedTypes
<1>2. step \in 1 .. Len(running) /\ DOMAIN running = 1 .. Len(running) /\ Len(running) \in Nat
  BY <1>1 DEF BatchInv, StageInv
<1>3. running[step] \in Req /\ running[step] \in Set(running)
  BY <1>1, <1>2 DEF Set
<1>4. step \in {j \in DOMAIN running : j >= step \/ running[j] \notin finished}
  BY <1>2
<1>5. running[step] \in RowsHeld
  BY <1>1, <1>4 DEF BatchInv, RowsInv
<1> QED
  BY <1>2, <1>3, <1>5

\* A request that is admitted has no row yet.
LEMMA AdmittedRow ==
  ASSUME BatchInv, phase = "adding", adder.idx <= Len(waiting)
  PROVE  LET r == waiting[adder.idx]
         IN  /\ adder.idx \in DOMAIN waiting /\ r \in Req /\ r \in Set(waiting)
             /\ r \notin RowsHeld /\ table[r] = <<>>
<1>1. Stage = "adding" /\ waiting \in Seq(Req) /\ adder \in Adders
  BY DEF Stage, BatchInv, SchedTypes
<1>2. adder.idx \in Nat /\ adder.idx >= 1
  BY <1>1 DEF Adders, BatchInv, AddingInv
<1>3. adder.idx \in DOMAIN waiting /\ waiting[adder.idx] \in Req /\ waiting[adder.idx] \in Set(waiting)
  BY <1>1, <1>2 DEF Set
<1>4. waiting[adder.idx] \notin RowsHeld
  BY <1>3 DEF BatchInv, RowsInv
<1> QED
  BY <1>3, <1>4 DEF RowsHeld

\* Every step of the loop is a step of the memory protocol, or leaves the
\* memory alone.
LEMMA LoopIsMem ==
  ASSUME MemInv, BatchInv, [Next]_vars
  PROVE  [MemNext]_mem
<1>0. SchedTypes /\ LengthsInv
  BY DEF BatchInv
<1>1. CASE UNCHANGED vars
  BY <1>1 DEF vars
<1>2. ASSUME NEW r \in Req, HandleGenerateRequest(r) \/ AbortRequest(r) PROVE UNCHANGED mem
  BY <1>2 DEF HandleGenerateRequest, AbortRequest
<1>3. CASE PauseInPlace \/ PauseRetract \/ ContinueGeneration
  BY <1>3, Zenon DEF PauseInPlace, PauseRetract, ContinueGeneration
<1>4. CASE StashChunked
  <2>1. phase = "recv"
    BY <1>4 DEF StashChunked
  <2>2. CASE chunked = NoReq
    BY <1>4, <2>2 DEF StashChunked
  <2>3. CASE chunked # NoReq
    <3>1. Stash(chunked)
      BY <1>4, <2>3, Zenon DEF StashChunked
    <3>2. chunked \in RowsHeld /\ committed[chunked] = fill[chunked]
      BY <2>1, <2>3, ChunkedRow DEF Stage, HeadStages
    <3> QED
      BY <1>0, <3>1, <3>2, StashIsMem
  <2> QED
    BY <2>2, <2>3
<1>5. CASE MergeLastBatch \/ PlanPrefill \/ FinishAdder \/ PrefillDone \/ PauseDone
  BY <1>5, Zenon DEF MergeLastBatch, PlanPrefill, FinishAdder, PrefillDone, PauseDone
<1>6. CASE AddOneReq
  <2>1. phase = "adding" /\ adder.idx <= Len(waiting)
    BY <1>6, Zenon DEF AddOneReq
  <2> DEFINE r == waiting[adder.idx]
  <2>2. \/ UNCHANGED mem
        \/ \E m \in 0 .. MatchLimit(r) : IsMatch(r, MatchLimit(r), m) /\ (UNCHANGED mem \/ Lock(r, m))
    BY <1>6, Zenon DEF AddOneReq
  <2>3. r \in Req /\ table[r] = <<>>
    BY <2>1, AdmittedRow
  <2> QED
    BY <1>0, <2>2, <2>3, LockIsMem
<1>7. CASE EvictFromTreeCache
  BY <1>7, EvictIsMem
<1>8. CASE PrefillForward
  <2>1. UNCHANGED mem \/ Extend(Set(adder.list), pre, fill, "prefill_result")
    BY <1>8, Zenon DEF PrefillForward
  <2>2. Set(adder.list) \subseteq Req
    BY <1>0, SetType DEF SchedTypes, Adders
  <2> QED
    BY <2>1, <2>2, ExtendIsMem
<1>9. CASE PrefillResult
  <2> DEFINE r == adder.list[step]
  <2>1. phase = "prefill_result" /\ step <= Len(adder.list)
    BY <1>9 DEF PrefillResult
  <2>2. UNCHANGED mem \/ Finish(r) \/ Stash(r)
    BY <1>9, Zenon DEF PrefillResult
  <2>3. r \in RowsHeld /\ fill[r] = committed[r]
    BY <2>1, PrefillRow
  <2> QED
    BY <1>0, <2>2, <2>3, StashIsMem, FinishIsMem
<1>10. CASE UpdateRunningBatch \/ CheckDecodeMem \/ RetractCheck \/ DraftBlock \/ DecodeDone
  BY <1>10, Zenon DEF UpdateRunningBatch, CheckDecodeMem, RetractCheck, DraftBlock, DecodeDone
<1>11. CASE Retract
  <2>1. phase = "retract" /\ Drop(running[Len(running)])
    BY <1>11 DEF Retract
  <2>2. Len(running) > 1 /\ running \in Seq(Req)
    BY <2>1 DEF Stage, BatchInv, StageInv, SchedTypes
  <2>3. running[Len(running)] \in Req
    BY <2>2
  <2> QED
    BY <2>1, <2>3, DropIsMem
<1>12. CASE AbortLast
  <2>1. phase = "abort_last" /\ Drop(running[1])
    BY <1>12 DEF AbortLast
  <2>2. Len(running) = 1 /\ running \in Seq(Req)
    BY <2>1 DEF Stage, BatchInv, StageInv, SchedTypes
  <2>3. running[1] \in Req
    BY <2>2
  <2> QED
    BY <2>1, <2>3, DropIsMem
<1>13. CASE PauseRelease
  <2>1. phase = "pause_release" /\ step <= Len(running) /\ Drop(running[step])
    BY <1>13 DEF PauseRelease
  <2>2. step >= 1 /\ step \in Nat /\ running \in Seq(Req)
    BY <2>1 DEF Stage, BatchInv, StageInv, SchedTypes
  <2>3. running[step] \in Req
    BY <2>1, <2>2
  <2> QED
    BY <2>1, <2>3, DropIsMem
<1>14. CASE PrepareForVerify
  <2>1. Extend(Set(running), committed, Plus(Block), "verify")
    BY <1>14 DEF PrepareForVerify
  <2>2. Set(running) \subseteq Req
    BY <1>0, SetType DEF SchedTypes
  <2> QED
    BY <2>1, <2>2, ExtendIsMem
<1>15. CASE Verify
  BY <1>15, VerifyIsMem
<1>16. CASE DecodeResult
  <2>1. phase = "decode_result" /\ step <= Len(running)
        /\ (UNCHANGED mem \/ Finish(running[step]))
    BY <1>16, Zenon DEF DecodeResult
  <2>2. running[step] \in RowsHeld
    BY <2>1, DecodeRow
  <2> QED
    BY <1>0, <2>1, <2>2, FinishIsMem
<1> QED
  BY <1>1, <1>2, <1>3, <1>4, <1>5, <1>6, <1>7, <1>8, <1>9, <1>10, <1>11, <1>12, <1>13,
     <1>14, <1>15, <1>16
  DEF Next, LoopStep

-----------------------------------------------------------------------------
(* The batch invariant: steps that move no request.                        *)

\* Lists, lengths and rows that a step leaves alone.
Still ==
  /\ UNCHANGED <<out, pre, fill, committed, finished, gone>>
  /\ UNCHANGED <<arrived, waiting, running, spec, last, chunked, adder>>
  /\ UNCHANGED <<table, prot>>

\* What the step may choose.
CtlTypes ==
  /\ to_finish \subseteq Req /\ full \in BOOLEAN
  /\ goal \in [need : Nat, then : Phases]
  /\ step \in Nat /\ phase \in Phases /\ paused \in BOOLEAN
  /\ phase = "evict" => goal.then \in EvictStages

LEMMA StillTypes ==
  ASSUME SchedTypes, Still, CtlTypes'
  PROVE  SchedTypes'
BY Zenon DEF SchedTypes, Still, CtlTypes

LEMMA StillPlaces ==
  ASSUME PlacesInv, Still
  PROVE  PlacesInv'
BY DEF PlacesInv, Still, Chunked

LEMMA StillRows ==
  ASSUME Still
  PROVE  RowsHeld' = RowsHeld /\ Chunked' = Chunked
BY DEF Still, RowsHeld, Chunked

\* The stage stays as well.
LEMMA StillSame ==
  ASSUME BatchInv, Still, CtlTypes', step' = step, Stage' = Stage,
         Stage = "adding" => UNCHANGED <<free, cache, pin>>
  PROVE  BatchInv'
<1>1. SchedTypes' /\ PlacesInv' /\ RowsHeld' = RowsHeld /\ Chunked' = Chunked
  BY StillTypes, StillPlaces, StillRows DEF BatchInv
<1>2. StageInv'
  BY <1>1 DEF BatchInv, StageInv, Still
<1>3. RowsInv'
  BY <1>1 DEF BatchInv, RowsInv, Still
<1>4. LengthsInv'
  BY <1>1 DEF BatchInv, LengthsInv, Still, FinishLen, InputLen
<1>5. AddingInv'
  <2>1. Resumed' = Resumed
    BY <1>1 DEF Resumed, Still
  <2>2. Stage = "adding" => RemTotal(adder, pin)' = RemTotal(adder, pin)
    BY DEF RemTotal, AvailableAndEvictable, Available, Evictable, Cached, PinnedPaths, Path, Still
  <2> QED
    BY <1>1, <2>1, <2>2 DEF BatchInv, AddingInv, Still, InputLen
<1> QED
  BY <1>1, <1>2, <1>3, <1>4, <1>5 DEF BatchInv

\* Between two stages of the decode step.
LEMMA StillClean ==
  ASSUME BatchInv, Still, CtlTypes',
         Stage \in CleanStages \ {"pause_release", "verify"},
         Stage' \in CleanStages \ {"pause_release", "verify"},
         Stage' = "retract" => Len(running) > 1,
         Stage' \in {"last_check", "abort_last"} => Len(running) = 1
  PROVE  BatchInv'
<1>1. SchedTypes' /\ PlacesInv' /\ RowsHeld' = RowsHeld /\ Chunked' = Chunked
  BY StillTypes, StillPlaces, StillRows DEF BatchInv
<1>2. StageInv'
  BY <1>1 DEF BatchInv, StageInv, Still, CleanStages, DecodeStages, HeadStages, AddStages
<1>3. RowsInv'
  BY <1>1 DEF BatchInv, RowsInv, Still, CleanStages
<1>4. LengthsInv'
  BY <1>1 DEF BatchInv, LengthsInv, Still, FinishLen, InputLen, CleanStages, HeadStages
<1>5. AddingInv'
  BY DEF AddingInv, CleanStages
<1> QED
  BY <1>1, <1>2, <1>3, <1>4, <1>5 DEF BatchInv

LEMMA BatchPause ==
  ASSUME BatchInv, PauseInPlace \/ ContinueGeneration
  PROVE  BatchInv'
<1>1. /\ UNCHANGED <<mem, kvs, reqs, sched, goal, step, phase>> /\ paused' \in BOOLEAN
  BY Zenon DEF PauseInPlace, ContinueGeneration
<1>2. Still /\ CtlTypes' /\ step' = step /\ Stage' = Stage /\ UNCHANGED <<free, cache, pin>>
  BY <1>1 DEF Still, CtlTypes, Stage, mem, reqs, sched, BatchInv, SchedTypes
<1> QED
  BY <1>2, StillSame

LEMMA BatchEvict ==
  ASSUME BatchInv, EvictFromTreeCache
  PROVE  BatchInv'
<1>1. /\ phase = "evict" /\ phase' = goal.then /\ goal' = NoGoal
      /\ UNCHANGED <<reqs, sched, step, paused>>
      /\ UNCHANGED <<table, prot>>
  BY Zenon DEF EvictFromTreeCache, Evict, mem
<1>2. goal.then \in EvictStages /\ goal.then \in Phases
  BY <1>1 DEF BatchInv, SchedTypes
<1>3. phase' # "evict" /\ phase' # "adding"
  BY <1>1, <1>2 DEF EvictStages
<1>4. Stage' = Stage /\ Stage # "adding"
  BY <1>1, <1>3 DEF Stage
<1>5. CtlTypes'
  BY <1>1, <1>2, <1>3 DEF CtlTypes, BatchInv, SchedTypes, reqs, sched, NoGoal, Phases
<1>6. Still
  BY <1>1 DEF Still, reqs, sched
<1> QED
  BY <1>1, <1>4, <1>5, <1>6, StillSame

\* The pages asked for are a number.
LEMMA EvictThenTypes ==
  ASSUME NEW n \in Nat, NEW ph \in EvictStages, EvictThen(n, ph)
  PROVE  /\ goal' \in [need : Nat, then : Phases] /\ goal'.then \in EvictStages
         /\ goal'.need = n /\ goal'.then = ph
         /\ phase' = "evict" /\ Stage' = ph
         /\ UNCHANGED <<step, paused>>
BY DEF EvictThen, Stage, EvictStages, Phases

LEMMA DecodeTokensType ==
  ASSUME NEW n \in Nat
  PROVE  DecodeTokens(n) \in Nat
<1>1. AlignUp(Block) \in Nat
  BY PagesForBounds, PageTypes, ParamTypes DEF AlignUp
<1> QED
  BY <1>1 DEF DecodeTokens

LEMMA EvictTokensType ==
  ASSUME NEW n \in Nat, NEW m \in Nat
  PROVE  EvictTokens(n, m) \in Nat
BY PageTypes DEF EvictTokens

LEMMA BatchCheckDecodeMem ==
  ASSUME BatchInv, CheckDecodeMem
  PROVE  BatchInv'
<1>0. phase \in {"mem_check", "recheck", "last_check"} /\ UNCHANGED <<mem, kvs, reqs, sched>>
  BY DEF CheckDecodeMem
<1>1. /\ Stage = phase /\ running \in Seq(Req) /\ running # <<>>
      /\ (phase = "last_check" => Len(running) = 1)
  BY <1>0 DEF Stage, BatchInv, SchedTypes, StageInv, CleanStages
<1>2. Len(running) \in Nat /\ Len(running) >= 1
  BY <1>1
<1>3. Still
  BY <1>0 DEF Still, mem, reqs, sched
<1>4. CASE Enter("draft") \/ (Enter("retract") /\ phase # "last_check" /\ Len(running) # 1)
           \/ (Enter("abort_last") /\ phase = "last_check")
  <2>1. CtlTypes'
    BY Zenon, <1>0, <1>4 DEF Enter, CtlTypes, reqs, sched, BatchInv, SchedTypes, Phases
  <2>2. \/ Stage' = "draft" \/ (Stage' = "retract" /\ Len(running) > 1)
        \/ (Stage' = "abort_last" /\ Len(running) = 1)
    <3>1. phase' \in {"draft", "retract", "abort_last"} => Stage' = phase'
      BY DEF Stage
    <3>2. \/ phase' = "draft"
          \/ phase' = "retract" /\ phase # "last_check" /\ Len(running) # 1
          \/ phase' = "abort_last" /\ phase = "last_check"
      BY <1>4 DEF Enter
    <3>3. Len(running) # 1 => Len(running) > 1
      BY <1>2
    <3> QED
      BY <1>1, <3>1, <3>2, <3>3
  <2> QED
    BY <1>0, <1>1, <1>3, <2>1, <2>2, StillClean DEF CleanStages
<1>5. CASE EvictThen(DecodeTokens(1), "last_check") /\ Len(running) = 1
  <2>1. /\ goal' \in [need : Nat, then : Phases] /\ goal'.then \in EvictStages
        /\ phase' = "evict" /\ Stage' = "last_check" /\ UNCHANGED <<step, paused>>
    BY <1>5, DecodeTokensType, EvictThenTypes DEF EvictStages
  <2>2. CtlTypes'
    BY <1>0, <2>1 DEF CtlTypes, reqs, sched, BatchInv, SchedTypes, Phases
  <2> QED
    BY <1>0, <1>1, <1>3, <1>5, <2>1, <2>2, StillClean DEF CleanStages
<1> QED
  BY <1>4, <1>5 DEF CheckDecodeMem

LEMMA BatchRetractCheck ==
  ASSUME BatchInv, RetractCheck
  PROVE  BatchInv'
<1>0. /\ phase = "retract_check" /\ UNCHANGED <<mem, kvs, reqs, sched>>
      /\ EvictThen(DecodeTokens(Len(running)), "recheck") /\ Len(running) \in Nat
  BY DEF RetractCheck, BatchInv, SchedTypes
<1>1. /\ goal' \in [need : Nat, then : Phases] /\ goal'.then \in EvictStages
      /\ phase' = "evict" /\ Stage' = "recheck" /\ UNCHANGED <<step, paused>>
  BY <1>0, DecodeTokensType, EvictThenTypes DEF EvictStages
<1>2. CtlTypes' /\ Still
  BY <1>0, <1>1 DEF CtlTypes, Still, mem, reqs, sched, BatchInv, SchedTypes, Phases
<1> QED
  BY <1>0, <1>1, <1>2, StillClean DEF CleanStages, Stage

LEMMA BatchDraftBlock ==
  ASSUME BatchInv, DraftBlock, phase' # "oom"
  PROVE  BatchInv'
<1>0. /\ phase = "draft" /\ UNCHANGED <<mem, kv, reqs, sched>>
      /\ EvictThen(EvictTokens(Len(running) * Block, Len(running)), "verify_alloc")
  BY Zenon DEF DraftBlock, Enter
<1>1. Len(running) \in Nat /\ Len(running) * Block \in Nat
  BY ParamTypes DEF BatchInv, SchedTypes
<1>2. /\ goal' \in [need : Nat, then : Phases] /\ goal'.then \in EvictStages
      /\ phase' = "evict" /\ Stage' = "verify_alloc" /\ UNCHANGED <<step, paused>>
  BY Zenon, <1>0, <1>1, EvictTokensType, EvictThenTypes DEF EvictStages
<1>3. CtlTypes' /\ Still
  BY <1>0, <1>2 DEF CtlTypes, Still, mem, reqs, sched, BatchInv, SchedTypes, Phases
<1> QED
  BY <1>0, <1>2, <1>3, StillClean DEF CleanStages, Stage

-----------------------------------------------------------------------------
(* The batch invariant: steps that move requests between lists.            *)

LEMMA ListTypes ==
  ASSUME SchedTypes
  PROVE  /\ Set(waiting) \subseteq Req /\ Set(running) \subseteq Req
         /\ Set(last) \subseteq Req /\ Set(adder.list) \subseteq Req
         /\ waiting \in Seq(Req) /\ running \in Seq(Req) /\ last \in Seq(Req)
         /\ adder.list \in Seq(Req)
<1>1. /\ waiting \in Seq(Req) /\ running \in Seq(Req) /\ last \in Seq(Req)
      /\ adder.list \in Seq(Req)
  BY DEF SchedTypes, Adders
<1> QED
  BY <1>1, SetType

\* Outside the prefill there is no adder, and rows belong to the batches.
LEMMA NoAdderFacts ==
  ASSUME BatchInv, Stage \notin AddStages
  PROVE  adder = NoAdder /\ adder.list = <<>> /\ Set(adder.list) = {}
BY EmptySet DEF BatchInv, StageInv, NoAdder

LEMMA HeadRows ==
  ASSUME BatchInv, Stage \in HeadStages
  PROVE  RowsHeld = (Set(running) \cup Set(last)) \ finished
<1>1. Set(adder.list) = {}
  BY NoAdderFacts DEF HeadStages, AddStages
<1>2. RowsHeld = ((Set(running) \cup Set(last) \cup Set(adder.list)) \ finished) \cup Chunked
  BY DEF BatchInv, RowsInv, HeadStages
<1>3. Chunked \subseteq Set(last) /\ Chunked \cap finished = {}
  BY DEF BatchInv, StageInv, PlacesInv, Chunked
<1> QED
  BY <1>1, <1>2, <1>3

LEMMA BatchHandleGenerateRequest ==
  ASSUME BatchInv, NEW r \in Req, HandleGenerateRequest(r)
  PROVE  BatchInv'
<1>0. /\ phase = "recv" /\ r \notin arrived /\ arrived' = arrived \cup {r}
      /\ waiting' = Append(waiting, r)
      /\ UNCHANGED <<mem, kvs, reqs, running, spec, last, chunked, full, adder, ctl>>
  BY DEF HandleGenerateRequest, Queued
<1>1. Stage = "recv" /\ Stage' = Stage
  BY <1>0 DEF Stage, ctl
<1>2. adder.list = <<>> /\ Set(adder.list) = {}
  BY <1>1, NoAdderFacts DEF AddStages
<1>3. waiting \in Seq(Req) /\ IsInjective(waiting)
  BY DEF BatchInv, SchedTypes, PlacesInv
<1>4. r \notin Set(waiting) \cup Set(running) \cup Set(last) \cup Chunked \cup finished \cup gone
  BY <1>0 DEF BatchInv, PlacesInv
<1>5. /\ waiting' \in Seq(Req) /\ Set(waiting') = Set(waiting) \cup {r}
      /\ IsInjective(waiting')
  BY <1>0, <1>3, <1>4, SetAppend
<1>6. SchedTypes'
  BY Zenon, <1>0, <1>5 DEF BatchInv, SchedTypes, reqs, ctl
<1>7. PlacesInv'
  <2>1. UNCHANGED <<running, last, adder, chunked, finished, gone>> /\ Chunked' = Chunked
    BY <1>0 DEF reqs, Chunked
  <2>2. r # chunked
    BY <1>4, ParamTypes DEF Chunked
  <2> QED
    BY <1>0, <1>4, <1>5, <2>1, <2>2 DEF BatchInv, PlacesInv
<1>8. StageInv'
  BY <1>0, <1>1 DEF BatchInv, StageInv, reqs, ctl, Chunked, HeadStages, AddStages, DecodeStages,
     CleanStages
<1>9. RowsHeld' = RowsHeld /\ r \notin RowsHeld
  <2>1. RowsHeld' = RowsHeld
    BY <1>0 DEF mem, RowsHeld
  <2> QED
    BY <1>1, <1>4, <2>1, HeadRows DEF HeadStages
<1>10. RowsInv'
  BY <1>0, <1>1, <1>5, <1>9 DEF BatchInv, RowsInv, reqs, ctl, Chunked
<1>11. LengthsInv'
  BY <1>0, <1>1, <1>9 DEF BatchInv, LengthsInv, reqs, ctl, mem, Chunked, FinishLen, InputLen,
     HeadStages
<1>12. AddingInv'
  BY <1>1 DEF AddingInv
<1> QED
  BY <1>6, <1>7, <1>8, <1>10, <1>11, <1>12 DEF BatchInv

LEMMA BatchAbortRequest ==
  ASSUME BatchInv, NEW r \in Req, AbortRequest(r)
  PROVE  BatchInv'
<1>0. /\ phase = "recv"
      /\ UNCHANGED <<mem, kvs, out, pre, fill, committed, finished>>
      /\ UNCHANGED <<arrived, running, spec, last, chunked, full, adder, ctl>>
  BY DEF AbortRequest
<1>1. Stage = "recv" /\ Stage' = Stage
  BY <1>0 DEF Stage, ctl
<1>2. CASE /\ r \in Set(waiting)
           /\ \E k \in KeepIndices(waiting, {r}) : waiting' = At(waiting, k)
           /\ gone' = gone \cup {r}
           /\ UNCHANGED to_finish
  <2>1. PICK k \in KeepIndices(waiting, {r}) : waiting' = At(waiting, k)
    BY <1>2
  <2>2. waiting \in Seq(Req) /\ IsInjective(waiting)
    BY DEF BatchInv, SchedTypes, PlacesInv
  <2>3. waiting' \in Seq(Req) /\ Set(waiting') = Set(waiting) \ {r} /\ IsInjective(waiting')
    BY <2>1, <2>2, FilterFacts
  <2>4. adder.list = <<>> /\ Set(adder.list) = {}
    BY <1>1, NoAdderFacts DEF AddStages
  <2>5. SchedTypes'
    BY Zenon, <1>0, <1>2, <2>3 DEF BatchInv, SchedTypes, ctl
  <2>6. PlacesInv'
    <3>1. UNCHANGED <<running, last, adder, chunked, finished, arrived>> /\ Chunked' = Chunked
      BY <1>0 DEF Chunked
    <3> QED
      BY <1>2, <2>3, <2>4, <3>1 DEF BatchInv, PlacesInv
  <2>7. StageInv'
    BY <1>0, <1>1 DEF BatchInv, StageInv, ctl, Chunked, HeadStages, AddStages, DecodeStages,
       CleanStages
  <2>8. RowsHeld' = RowsHeld
    BY <1>0 DEF mem, RowsHeld
  <2>9. RowsInv'
    BY <1>0, <1>1, <2>3, <2>8 DEF BatchInv, RowsInv, ctl, Chunked
  <2>10. LengthsInv'
    BY <1>0, <1>1, <2>8 DEF BatchInv, LengthsInv, ctl, mem, Chunked, FinishLen, InputLen,
       HeadStages
  <2>11. AddingInv'
    BY <1>1 DEF AddingInv
  <2> QED
    BY <2>5, <2>6, <2>7, <2>9, <2>10, <2>11 DEF BatchInv
<1>3. CASE to_finish' = to_finish \cup {r} /\ UNCHANGED <<waiting, gone>>
  <2>1. Still /\ UNCHANGED <<free, cache, pin>>
    BY <1>0, <1>3 DEF Still, mem
  <2>2. CtlTypes' /\ step' = step
    BY <1>0, <1>3 DEF CtlTypes, ctl, BatchInv, SchedTypes
  <2> QED
    BY <1>1, <2>1, <2>2, StillSame
<1> QED
  BY <1>2, <1>3 DEF AbortRequest

LEMMA BatchDecodeDone ==
  ASSUME BatchInv, DecodeDone
  PROVE  BatchInv'
<1>0. /\ phase = "decode_result" /\ step > Len(running) /\ step' = 1 /\ phase' = "recv"
      /\ UNCHANGED <<mem, kvs, reqs, sched, goal, paused>>
  BY DEF DecodeDone
<1>1. Stage = "decode_result" /\ Stage' = "recv"
  BY <1>0 DEF Stage
<1>2. last = <<>> /\ adder = NoAdder /\ chunked = NoReq
  BY <1>1 DEF BatchInv, StageInv, HeadStages, AddStages, DecodeStages, CleanStages
<1>3. Chunked = {} /\ Set(last) = {} /\ Set(adder.list) = {}
  BY <1>2, EmptySet DEF Chunked, NoAdder
<1>4. Still /\ CtlTypes'
  BY <1>0 DEF Still, CtlTypes, mem, reqs, sched, BatchInv, SchedTypes, Phases
<1>5. SchedTypes' /\ PlacesInv' /\ RowsHeld' = RowsHeld /\ Chunked' = Chunked
  BY <1>4, StillTypes, StillPlaces, StillRows DEF BatchInv
<1>6. StageInv'
  BY <1>1, <1>2, <1>3, <1>4, <1>5 DEF StageInv, Still, HeadStages, AddStages, DecodeStages,
     CleanStages
<1>7. RowsHeld = Set(running) \ finished
  <2>1. RowsHeld = {running[i] : i \in {j \in DOMAIN running : j >= step \/ running[j] \notin finished}}
    BY <1>1 DEF BatchInv, RowsInv
  <2>2. \A j \in DOMAIN running : ~ j >= step
    BY <1>0 DEF BatchInv, SchedTypes
  <2> QED
    BY <2>1, <2>2 DEF Set
<1>8. RowsInv'
  BY <1>1, <1>3, <1>4, <1>5, <1>7 DEF BatchInv, RowsInv, Still
<1>9. LengthsInv'
  BY <1>1, <1>3, <1>4, <1>5 DEF BatchInv, LengthsInv, Still, FinishLen, InputLen, HeadStages
<1>10. AddingInv'
  BY <1>1 DEF AddingInv
<1> QED
  BY <1>5, <1>6, <1>8, <1>9, <1>10 DEF BatchInv

LEMMA BatchPrefillDone ==
  ASSUME BatchInv, PrefillDone
  PROVE  BatchInv'
<1>0. /\ phase = "prefill_result" /\ step > Len(adder.list)
      /\ last' = adder.list /\ adder' = NoAdder /\ step' = 1 /\ phase' = "recv"
      /\ UNCHANGED <<mem, kvs, reqs, arrived, waiting, running, spec, chunked, full, goal, paused>>
  BY DEF PrefillDone
<1>1. Stage = "prefill_result" /\ Stage' = "recv"
  BY <1>0 DEF Stage
<1>2. last = <<>> /\ Set(last) = {}
  BY <1>1, EmptySet DEF BatchInv, StageInv, HeadStages
<1>3. adder'.list = <<>> /\ Set(adder'.list) = {} /\ IsInjective(adder'.list)
  BY <1>0, EmptySet DEF NoAdder
<1>4. SchedTypes'
  <2>1. NoAdder \in Adders
    <3>1. <<>> \in Seq(Req)
      OBVIOUS
    <3> QED
      BY <3>1 DEF NoAdder, Adders
  <2> QED
    BY Zenon, <1>0, <2>1, ListTypes DEF BatchInv, SchedTypes, reqs, Phases
<1>5. UNCHANGED <<out, pre, fill, committed, finished, gone, table, prot>>
      /\ RowsHeld' = RowsHeld /\ Chunked' = Chunked
  BY <1>0 DEF mem, reqs, RowsHeld, Chunked
<1>6. Chunked \subseteq Set(adder.list) /\ Set(adder.list) \cap Set(waiting) = {}
      /\ Set(adder.list) \cap (Set(running) \cup gone) = {}
  BY <1>1 DEF BatchInv, StageInv, PlacesInv
<1>7. PlacesInv'
  BY <1>0, <1>2, <1>3, <1>5, <1>6 DEF BatchInv, PlacesInv
<1>8. StageInv'
  BY <1>0, <1>1, <1>5, <1>6 DEF StageInv, HeadStages, AddStages, DecodeStages, CleanStages
<1>9. RowsHeld = ((Set(running) \cup Set(adder.list)) \ finished) \cup Chunked
  BY <1>1, <1>2 DEF BatchInv, RowsInv
<1>10. RowsInv'
  BY <1>0, <1>1, <1>3, <1>5, <1>9 DEF BatchInv, RowsInv
<1>11. ASSUME NEW r \in Set(adder.list), r \in RowsHeld, r # chunked
       PROVE  committed[r] = InputLen(r) - 1
  <2>1. PICK i \in DOMAIN adder.list : r = adder.list[i]
    BY <1>11 DEF Set
  <2>2. i < step
    <3>1. DOMAIN adder.list = 1 .. Len(adder.list) /\ Len(adder.list) \in Nat /\ step \in Nat
      BY ListTypes, SetType DEF BatchInv, SchedTypes
    <3> QED
      BY <1>0, <2>1, <3>1
  <2>3. r \notin finished
    <3>1. r \notin Set(running) /\ r \notin Chunked
      BY <1>6, <1>11 DEF Chunked
    <3> QED
      BY <1>9, <1>11, <3>1
  <2> QED
    BY <1>1, <1>11, <2>1, <2>2, <2>3 DEF BatchInv, LengthsInv
<1>12. \A r \in Chunked : committed[r] = fill[r] /\ fill[r] < InputLen(r)
  <2> SUFFICES ASSUME NEW r \in Chunked PROVE committed[r] = fill[r] /\ fill[r] < InputLen(r)
    OBVIOUS
  <2>1. PICK i \in DOMAIN adder.list : r = adder.list[i]
    BY <1>6 DEF Set
  <2> QED
    BY <1>1, <2>1 DEF BatchInv, LengthsInv, Chunked
<1>13. LengthsInv'
  BY <1>0, <1>1, <1>2, <1>5, <1>11, <1>12 DEF BatchInv, LengthsInv, FinishLen, InputLen, HeadStages
<1>14. AddingInv'
  BY <1>1 DEF AddingInv
<1> QED
  BY <1>4, <1>7, <1>8, <1>10, <1>13, <1>14 DEF BatchInv

LEMMA BatchPauseDone ==
  ASSUME BatchInv, PauseDone
  PROVE  BatchInv'
<1>0. /\ phase = "pause_release" /\ step > Len(running)
      /\ waiting' = waiting \o running /\ running' = <<>> /\ full' = FALSE
      /\ step' = 1 /\ phase' = "recv"
      /\ UNCHANGED <<mem, kvs, reqs, arrived, spec, last, chunked, adder, goal, paused>>
  BY DEF PauseDone
<1>1. Stage = "pause_release" /\ Stage' = "recv"
  BY <1>0 DEF Stage
<1>2. last = <<>> /\ adder = NoAdder /\ chunked = NoReq /\ Set(running) \cap finished = {}
  BY <1>1 DEF BatchInv, StageInv, HeadStages, AddStages, DecodeStages, CleanStages
<1>3. Chunked = {} /\ Set(last) = {} /\ Set(adder.list) = {}
  BY <1>2, EmptySet DEF Chunked, NoAdder
<1>4. UNCHANGED <<out, pre, fill, committed, finished, gone, table, prot>>
      /\ RowsHeld' = RowsHeld /\ Chunked' = Chunked
  BY <1>0 DEF mem, reqs, RowsHeld, Chunked
<1>5. /\ waiting' \in Seq(Req) /\ Set(waiting') = Set(waiting) \cup Set(running)
      /\ IsInjective(waiting')
  BY <1>0, ListTypes, SetConcat DEF BatchInv, PlacesInv
<1>6. running' \in Seq(Req) /\ Set(running') = {} /\ IsInjective(running')
  BY <1>0, EmptySet
<1>7. SchedTypes'
  BY Zenon, <1>0, <1>5, <1>6 DEF BatchInv, SchedTypes, reqs, Phases
<1>8. PlacesInv'
  BY <1>0, <1>2, <1>3, <1>4, <1>5, <1>6 DEF BatchInv, PlacesInv
<1>9. StageInv'
  BY <1>0, <1>1, <1>2, <1>3, <1>4 DEF StageInv, HeadStages, AddStages, DecodeStages, CleanStages
<1>10. RowsHeld = {}
  <2>1. RowsHeld = {running[i] : i \in step .. Len(running)}
    BY <1>1 DEF BatchInv, RowsInv
  <2>2. step .. Len(running) = {}
    BY <1>0 DEF BatchInv, SchedTypes
  <2> QED
    BY <2>1, <2>2
<1>11. RowsInv'
  BY <1>0, <1>1, <1>3, <1>4, <1>6, <1>10 DEF RowsInv
<1>12. LengthsInv'
  BY <1>0, <1>1, <1>3, <1>4, <1>10 DEF BatchInv, LengthsInv, FinishLen, InputLen
<1>13. AddingInv'
  BY <1>1 DEF AddingInv
<1> QED
  BY <1>7, <1>8, <1>9, <1>11, <1>12, <1>13 DEF BatchInv

LEMMA BatchMergeLastBatch ==
  ASSUME BatchInv, MergeLastBatch
  PROVE  BatchInv'
<1>0. /\ phase = "merge" /\ last' = <<>> /\ phase' = "plan"
      /\ UNCHANGED <<mem, kvs, reqs, arrived, waiting, chunked, adder, goal, step, paused>>
  BY DEF MergeLastBatch, Enter
<1>1. PICK k \in KeepIndices(last, finished \cup {chunked}) :
        LET more == At(last, k)
        IN  /\ running' = running \o more
            /\ spec' = IF more = <<>> THEN spec ELSE MergedSpec(more)
            /\ full' = (FullAfter(k, Len(last)) /\ (more = <<>> \/ running # <<>>))
  BY Zenon DEF MergeLastBatch
<1> DEFINE more == At(last, k)
<1>2. Stage = "merge" /\ Stage' = "plan"
  BY <1>0 DEF Stage
<1>3. adder = NoAdder /\ Set(adder.list) = {}
  BY <1>2, NoAdderFacts DEF AddStages
<1>4. /\ more \in Seq(Req) /\ Set(more) = Set(last) \ (finished \cup {chunked})
      /\ IsInjective(more)
  BY ListTypes, FilterFacts DEF BatchInv, PlacesInv
<1>5. spec' \in Seq(Req) /\ full' \in BOOLEAN
  <2>1. spec \in Seq(Req) /\ full \in BOOLEAN
    BY DEF BatchInv, SchedTypes
  <2> HIDE DEF more
  <2>2. spec' = spec \/ spec' = more \/ spec' = spec \o more
    BY <1>1 DEF MergedSpec, more
  <2>3. full' \in BOOLEAN
    BY <1>1 DEF more
  <2>4. spec \o more \in Seq(Req)
    BY <1>4, <2>1
  <2>5. spec' \in Seq(Req)
    BY <1>4, <2>1, <2>2, <2>4, Zenon
  <2> QED
    BY <2>3, <2>5
<1>6. running' = running \o more
  BY <1>1
<1> HIDE DEF more
<1>7. /\ running' \in Seq(Req) /\ IsInjective(running')
      /\ Set(running') = Set(running) \cup (Set(last) \ (finished \cup {chunked}))
  <2>1. Set(running) \cap Set(more) = {} /\ IsInjective(running)
    BY <1>4 DEF BatchInv, PlacesInv
  <2> QED
    BY <1>4, <1>6, <2>1, ListTypes, SetConcat DEF BatchInv
<1>8. SchedTypes'
  BY <1>0, <1>5, <1>7, EmptySet DEF BatchInv, SchedTypes, reqs, Phases
<1>9. UNCHANGED <<out, pre, fill, committed, finished, gone, table, prot>>
      /\ RowsHeld' = RowsHeld /\ Chunked' = Chunked /\ Set(last') = {} /\ IsInjective(last')
  BY <1>0, EmptySet DEF mem, reqs, RowsHeld, Chunked
<1>10. Chunked \subseteq Set(last) /\ Chunked \cap finished = {}
  BY <1>2 DEF BatchInv, StageInv, HeadStages, PlacesInv, Chunked
<1>11. PlacesInv'
  <2>1. PlacesInv /\ UNCHANGED <<waiting, adder, chunked, finished, gone, arrived>>
    BY <1>0, <1>9 DEF BatchInv
  <2>2. chunked \notin Set(running')
    BY <1>7, <2>1 DEF PlacesInv
  <2>3. Set(last) \subseteq Req /\ NoReq \notin Req
    BY ListTypes, ParamTypes DEF BatchInv
  <2>4. ASSUME NEW x \in Set(last), x \notin finished, x \notin Chunked PROVE x \in Set(running')
    BY <1>7, <2>3, <2>4 DEF Chunked
  <2>5. arrived = Set(waiting) \cup Set(running) \cup Set(last) \cup Chunked \cup finished \cup gone
    BY <1>3, <2>1 DEF PlacesInv
  <2>6. arrived = Set(waiting) \cup Set(running') \cup Chunked \cup finished \cup gone
    BY <1>7, <2>4, <2>5
  <2> QED
    BY <1>3, <1>7, <1>9, <2>1, <2>2, <2>6 DEF PlacesInv
<1>12. StageInv'
  BY <1>0, <1>2, <1>3 DEF StageInv, HeadStages, AddStages, DecodeStages, CleanStages
<1>13. RowsHeld = (Set(running) \cup Set(last)) \ finished
  BY <1>2, HeadRows DEF HeadStages
<1>14. chunked # NoReq => Chunked = {chunked}
  BY DEF Chunked
<1>15. Set(last) \subseteq Req /\ NoReq \notin Req
  BY ListTypes, ParamTypes DEF BatchInv
<1>16. RowsInv'
  <2>1. Set(waiting') \cap RowsHeld' = {}
    BY <1>0, <1>9 DEF BatchInv, RowsInv
  <2>2. RowsHeld = (Set(running') \ finished) \cup Chunked
    BY <1>7, <1>10, <1>13, <1>14, <1>15
  <2>3. Set(adder'.list) = {}
    BY <1>0, <1>3
  <2> QED
    BY <1>2, <1>9, <2>1, <2>2, <2>3 DEF RowsInv
<1>17. LengthsInv'
  BY <1>0, <1>2, <1>7, <1>9 DEF BatchInv, LengthsInv, FinishLen, InputLen, HeadStages
<1>18. AddingInv'
  BY <1>2 DEF AddingInv
<1> QED
  BY <1>8, <1>11, <1>12, <1>16, <1>17, <1>18 DEF BatchInv

LEMMA BatchUpdateRunningBatch ==
  ASSUME BatchInv, SpecAligned, UpdateRunningBatch
  PROVE  BatchInv'
<1>0. /\ phase = "update"
      /\ UNCHANGED <<mem, kvs, reqs, arrived, waiting, last, chunked, adder>>
  BY DEF UpdateRunningBatch
<1>1. PICK k \in KeepIndices(running, finished) :
        /\ running' = At(running, k)
        /\ full' = FullAfter(k, Len(running))
        /\ IF k = <<>>
             THEN Enter("recv") /\ UNCHANGED spec
             ELSE /\ spec' = FilteredSpec(spec, k)
                  /\ EvictThen(DecodeTokens(Len(k)), "mem_check")
  BY Zenon DEF UpdateRunningBatch
<1>2. Stage = "update"
  BY <1>0 DEF Stage
<1>3. /\ running' \in Seq(Req) /\ Set(running') = Set(running) \ finished
      /\ IsInjective(running') /\ Len(k) \in Nat
      /\ running' = <<>> <=> k = <<>>
  BY <1>1, ListTypes, FilterFacts DEF BatchInv, PlacesInv
<1>4. \/ Stage' = "recv" /\ running' = <<>>
      \/ Stage' = "mem_check" /\ running' # <<>>
  <2>1. CASE k = <<>>
    BY <1>1, <1>3, <2>1 DEF Enter, Stage
  <2>2. CASE k # <<>>
    BY <1>1, <1>3, <2>2 DEF EvictThen, Stage
  <2> QED
    BY <2>1, <2>2
<1>5. /\ goal' \in [need : Nat, then : Phases] /\ step' \in Nat /\ paused' \in BOOLEAN
      /\ phase' \in Phases /\ (phase' = "evict" => goal'.then \in EvictStages)
  <2>1. CASE k = <<>>
    BY <1>1, <2>1 DEF Enter, Phases, BatchInv, SchedTypes
  <2>2. CASE k # <<>>
    <3>1. EvictThen(DecodeTokens(Len(k)), "mem_check") /\ DecodeTokens(Len(k)) \in Nat
      BY <1>1, <1>3, <2>2, DecodeTokensType
    <3> QED
      BY <3>1, EvictThenTypes DEF EvictStages, Phases, BatchInv, SchedTypes
  <2> QED
    BY <2>1, <2>2
<1>6. last = <<>> /\ adder = NoAdder /\ chunked = NoReq
  BY <1>2 DEF BatchInv, StageInv, HeadStages, AddStages, DecodeStages, CleanStages
<1>7. Chunked = {} /\ Set(last) = {} /\ Set(adder.list) = {}
  BY <1>6, EmptySet DEF Chunked, NoAdder
<1>8. UNCHANGED <<out, pre, fill, committed, finished, gone, table, prot>>
      /\ RowsHeld' = RowsHeld /\ Chunked' = Chunked
  BY <1>0 DEF mem, reqs, RowsHeld, Chunked
<1>9. RowsHeld = Set(running) \ finished
  BY <1>2, <1>7 DEF BatchInv, RowsInv
<1>10. PlacesInv'
  BY <1>0, <1>3, <1>7, <1>8 DEF BatchInv, PlacesInv
<1>11. StageInv'
  BY <1>0, <1>3, <1>4, <1>6, <1>7, <1>8 DEF StageInv, HeadStages, AddStages, DecodeStages,
     CleanStages
<1>12. RowsInv'
  BY <1>0, <1>3, <1>4, <1>7, <1>8, <1>9 DEF BatchInv, RowsInv
<1>13. LengthsInv'
  BY <1>0, <1>2, <1>3, <1>4, <1>7, <1>8 DEF BatchInv, LengthsInv, FinishLen, InputLen, HeadStages
<1>14. AddingInv'
  BY <1>4 DEF AddingInv
<1>15. SchedTypes'
  <2>1. spec' \in Seq(Req)
    <3>1. SpecAligned'
      BY AlignedUpdateRunningBatch DEF BatchInv
    <3>2. running' # <<>> => spec' \in Seq(Req)
      BY <1>3, <3>1 DEF SpecAligned
    <3> QED
      BY <1>1, <1>3, <3>2 DEF BatchInv, SchedTypes
  <2> QED
    BY Zenon, <1>0, <1>1, <1>3, <1>5, <2>1 DEF BatchInv, SchedTypes, reqs, FullAfter
<1> QED
  BY <1>10, <1>11, <1>12, <1>13, <1>14, <1>15 DEF BatchInv

-----------------------------------------------------------------------------
(* The batch invariant: steps that change one row.                         *)

\* The row of a request that leaves.
LEMMA ForgetRows ==
  ASSUME MemInv, NEW r \in Req, Forget(r)
  PROVE  /\ RowsHeld' = RowsHeld \ {r}
         /\ \A q \in Req \ {r} : table'[q] = table[q] /\ prot'[q] = prot[q]
<1>1. table \in [Req -> Seq(Page)] /\ prot \in [Req -> Nat]
  BY DEF MemInv, MemTypeOK
<1>2. table' = [table EXCEPT ![r] = <<>>] /\ prot' = [prot EXCEPT ![r] = 0]
  BY DEF Forget
<1>3. \A q \in Req \ {r} : table'[q] = table[q] /\ prot'[q] = prot[q]
  BY <1>1, <1>2
<1>4. table'[r] = <<>>
  BY <1>1, <1>2
<1> QED
  BY <1>3, <1>4 DEF RowsHeld

LEMMA FinishRows ==
  ASSUME MemInv, NEW r \in Req, Finish(r)
  PROVE  /\ RowsHeld' = RowsHeld \ {r}
         /\ \A q \in Req \ {r} : table'[q] = table[q] /\ prot'[q] = prot[q]
<1>1. Forget(r)
  BY DEF Finish, ReleaseInsert
<1> QED
  BY <1>1, ForgetRows

LEMMA DropRows ==
  ASSUME MemInv, SchedTypes, NEW r \in Req, Drop(r)
  PROVE  /\ RowsHeld' = RowsHeld \ {r}
         /\ \A q \in Req \ {r} : table'[q] = table[q] /\ prot'[q] = prot[q]
         /\ pre' \in [Req -> Nat] /\ committed' \in [Req -> Nat]
         /\ \A q \in Req \ {r} : pre'[q] = pre[q] /\ committed'[q] = committed[q]
<1>1. Forget(r) /\ ResetForRetract(r)
  BY DEF Drop, ReleaseDrop
<1> QED
  BY Zenon, <1>1, ForgetRows DEF ResetForRetract, SchedTypes

\* A row that is filed keeps its length; its whole pages are the cache's.
LEMMA StashRows ==
  ASSUME MemInv, SchedTypes, NEW r \in Req, Stash(r), table[r] # <<>>
  PROVE  /\ RowsHeld' = RowsHeld
         /\ \A q \in Req : Len(table'[q]) = Len(table[q])
         /\ \A q \in Req \ {r} : prot'[q] = prot[q] /\ pre'[q] = pre[q]
         /\ prot'[r] = fill[r] \div PageSize /\ prot'[r] * PageSize <= fill[r]
         /\ prot'[r] \in Nat /\ pre'[r] = fill[r] /\ pre' \in [Req -> Nat]
<1>1. table \in [Req -> Seq(Page)] /\ prot \in [Req -> Nat] /\ pre \in [Req -> Nat]
      /\ fill \in [Req -> Nat]
  BY Zenon DEF MemInv, MemTypeOK, SchedTypes
<1>2. PICK m \in 0 .. NumPages : CacheUnfinished(r, fill[r] \div PageSize, m)
  BY DEF Stash
<1>3. pre' = [pre EXCEPT ![r] = fill[r]]
  BY DEF Stash
<1> DEFINE K == fill[r] \div PageSize
           row == [j \in 1 .. Len(table[r]) |->
                     IF j <= K THEN Inserted(r, K)[Path(r, j)] ELSE table[r][j]]
<1>4. table' = [table EXCEPT ![r] = row] /\ prot' = [prot EXCEPT ![r] = K]
  BY <1>2 DEF CacheUnfinished
<1>5. K \in Nat /\ K * PageSize <= fill[r]
  BY <1>1, DivBounds
<1>6. Len(table[r]) \in Nat /\ Len(table[r]) > 0
  BY <1>1
<1>7. Len(row) = Len(table[r]) /\ row # <<>>
  <2>1. DOMAIN row = 1 .. Len(table[r])
    OBVIOUS
  <2> HIDE DEF row
  <2>2. Len(row) = Len(table[r])
    <3>1. row = [j \in 1 .. Len(table[r]) |-> row[j]]
      BY <2>1 DEF row
    <3> QED
      BY <1>6, <3>1
  <2> QED
    BY <1>6, <2>1, <2>2, EmptySet
<1> HIDE DEF row, K
<1>8. \A q \in Req : Len(table'[q]) = Len(table[q]) /\ (table'[q] # <<>> <=> table[q] # <<>>)
  BY <1>1, <1>4, <1>7
<1>9. RowsHeld' = RowsHeld
  BY <1>8 DEF RowsHeld
<1> QED
  BY <1>1, <1>3, <1>4, <1>5, <1>8, <1>9 DEF K

LEMMA BatchStashChunked ==
  ASSUME MemInv, BatchInv, StashChunked
  PROVE  BatchInv'
<1>0. /\ phase = "recv" /\ phase' = "merge" /\ UNCHANGED <<goal, step, paused>>
      /\ UNCHANGED <<out, fill, committed, finished, to_finish, gone, sched>>
  BY DEF StashChunked, Enter
<1>1. Stage = "recv" /\ Stage' = "merge"
  BY <1>0 DEF Stage
<1>2. adder = NoAdder /\ Set(adder.list) = {} /\ SchedTypes
  BY <1>1, NoAdderFacts DEF AddStages, BatchInv
<1>3. \A r \in RowsHeld : r \in Req /\ prot[r] * PageSize <= committed[r]
  BY DEF BatchInv, LengthsInv, RowsHeld
<1>4. /\ RowsHeld' = RowsHeld /\ pre' \in [Req -> Nat]
      /\ \A r \in RowsHeld : Len(table'[r]) = Len(table[r]) /\ prot'[r] * PageSize <= committed[r]
      /\ \A r \in Chunked : pre'[r] = fill[r]
  <2>1. CASE chunked = NoReq
    <3>1. UNCHANGED <<mem, pre>>
      BY <1>0, <2>1 DEF StashChunked
    <3> QED
      BY <1>2, <1>3, <2>1, <3>1 DEF mem, RowsHeld, SchedTypes, Chunked
  <2>2. CASE chunked # NoReq
    <3>1. Stash(chunked)
      BY <2>2, Zenon DEF StashChunked
    <3>2. chunked \in RowsHeld /\ committed[chunked] = fill[chunked]
      BY <1>1, <2>2, ChunkedRow DEF HeadStages
    <3>3. chunked \in Req /\ table[chunked] # <<>>
      BY <3>2 DEF RowsHeld
    <3>4. /\ RowsHeld' = RowsHeld /\ pre' \in [Req -> Nat]
          /\ \A q \in Req : Len(table'[q]) = Len(table[q])
          /\ \A q \in Req \ {chunked} : prot'[q] = prot[q]
          /\ prot'[chunked] * PageSize <= fill[chunked] /\ pre'[chunked] = fill[chunked]
      BY <1>2, <3>1, <3>3, StashRows
    <3> QED
      BY <1>3, <3>2, <3>4 DEF Chunked
  <2> QED
    BY <2>1, <2>2
<1>5. SchedTypes'
  BY Zenon, <1>0, <1>4 DEF BatchInv, SchedTypes, sched, Phases
<1>6. Chunked' = Chunked
  BY <1>0 DEF Chunked, sched
<1>7. PlacesInv'
  BY <1>0, <1>6 DEF BatchInv, PlacesInv, sched
<1>8. StageInv'
  BY <1>0, <1>1, <1>2, <1>6 DEF BatchInv, StageInv, sched, HeadStages, AddStages, DecodeStages,
     CleanStages
<1>9. RowsInv'
  BY <1>0, <1>1, <1>2, <1>4, <1>6 DEF BatchInv, RowsInv, sched
<1>10. LengthsInv'
  BY <1>0, <1>1, <1>2, <1>4, <1>6 DEF BatchInv, LengthsInv, sched, FinishLen, InputLen, HeadStages
<1>11. AddingInv'
  BY <1>1 DEF AddingInv
<1> QED
  BY <1>5, <1>7, <1>8, <1>9, <1>10, <1>11 DEF BatchInv

\* In the decode step every row is that of a request in the batch.
LEMMA CleanRows ==
  ASSUME BatchInv, Stage \in CleanStages \ {"pause_release"}
  PROVE  /\ last = <<>> /\ adder = NoAdder /\ chunked = NoReq
         /\ Chunked = {} /\ Set(last) = {} /\ Set(adder.list) = {}
         /\ Set(running) \cap finished = {} /\ running # <<>>
         /\ RowsHeld = Set(running)
<1>1. /\ last = <<>> /\ adder = NoAdder /\ chunked = NoReq /\ Set(running) \cap finished = {}
      /\ running # <<>>
  BY DEF BatchInv, StageInv, HeadStages, AddStages, DecodeStages, CleanStages
<1>2. Chunked = {} /\ Set(last) = {} /\ Set(adder.list) = {}
  BY <1>1, EmptySet DEF Chunked, NoAdder
<1>3. RowsHeld = ((Set(running) \cup Set(last) \cup Set(adder.list)) \ finished) \cup Chunked
  BY DEF BatchInv, RowsInv, CleanStages
<1> QED
  BY <1>1, <1>2, <1>3

LEMMA BatchRetract ==
  ASSUME MemInv, BatchInv, SpecAligned, Retract
  PROVE  BatchInv'
<1> DEFINE r == running[Len(running)]
           n == Len(running) - 1
<1>0. /\ phase = "retract" /\ Drop(r)
      /\ running' = SubSeq(running, 1, n)
      /\ waiting' = Append(waiting, r) /\ full' = FALSE
      /\ EvictThen(n * RetractSteps, "retract_check")
      /\ UNCHANGED <<out, fill, finished, to_finish, gone, arrived, last, chunked, adder>>
  BY DEF Retract, Queued
<1>1. Stage = "retract" /\ SchedTypes
  BY <1>0 DEF Stage, BatchInv
<1>2. running \in Seq(Req) /\ Len(running) > 1 /\ IsInjective(running) /\ waiting \in Seq(Req)
      /\ IsInjective(waiting)
  BY <1>1 DEF BatchInv, StageInv, SchedTypes, PlacesInv
<1>3. /\ running' \in Seq(Req) /\ Len(running') = n /\ running' # <<>>
      /\ IsInjective(running') /\ Set(running') = Set(running) \ {r}
      /\ r \in Req /\ r \in Set(running)
  BY <1>0, <1>2, FrontFacts
<1> HIDE DEF r
<1>4. n * RetractSteps \in Nat
  BY <1>2, ParamTypes
<1> HIDE DEF n
<1>5. /\ goal' \in [need : Nat, then : Phases] /\ goal'.then \in EvictStages
      /\ phase' = "evict" /\ Stage' = "retract_check" /\ UNCHANGED <<step, paused>>
  BY <1>0, <1>4, EvictThenTypes DEF EvictStages
<1>6. /\ last = <<>> /\ adder = NoAdder /\ chunked = NoReq
      /\ Chunked = {} /\ Set(last) = {} /\ Set(adder.list) = {}
      /\ Set(running) \cap finished = {} /\ RowsHeld = Set(running)
  BY <1>1, CleanRows DEF CleanStages
<1>7. /\ RowsHeld' = RowsHeld \ {r}
      /\ \A q \in Req \ {r} : table'[q] = table[q] /\ prot'[q] = prot[q]
      /\ pre' \in [Req -> Nat] /\ committed' \in [Req -> Nat]
      /\ \A q \in Req \ {r} : pre'[q] = pre[q] /\ committed'[q] = committed[q]
  BY <1>0, <1>1, <1>3, DropRows
<1>8. r \notin Set(waiting) /\ r \notin finished /\ r \notin gone /\ r \notin Set(waiting)
  BY <1>3, <1>6 DEF BatchInv, PlacesInv
<1>9. /\ waiting' \in Seq(Req) /\ Set(waiting') = Set(waiting) \cup {r} /\ IsInjective(waiting')
  BY <1>0, <1>2, <1>3, <1>8, SetAppend
<1>10. spec' \in Seq(Req)
  <2>1. SpecAligned'
    BY <1>1, AlignedRetract
  <2> QED
    BY <1>3, <2>1 DEF SpecAligned
<1>11. SchedTypes'
  BY Zenon, <1>0, <1>3, <1>5, <1>7, <1>9, <1>10 DEF BatchInv, SchedTypes, Phases
<1>12. Chunked' = Chunked
  BY <1>0 DEF Chunked
<1>13. PlacesInv'
  BY <1>0, <1>3, <1>6, <1>8, <1>9, <1>12, ParamTypes DEF BatchInv, PlacesInv
<1>14. StageInv'
  BY <1>0, <1>3, <1>5, <1>6, <1>12 DEF StageInv, HeadStages, AddStages, DecodeStages, CleanStages
<1>15. RowsInv'
  <2>1. Set(waiting) \cap RowsHeld = {}
    BY DEF BatchInv, RowsInv
  <2>2. RowsHeld' = Set(running') /\ Set(running') \cap finished = {}
        /\ Set(waiting') \cap RowsHeld' = {}
    BY <1>3, <1>6, <1>7, <1>9, <2>1
  <2> QED
    BY <1>0, <1>5, <1>6, <1>12, <2>2 DEF RowsInv
<1>16. LengthsInv'
  <2>1. \A q \in RowsHeld' : q \in RowsHeld /\ q \in Req \ {r}
    BY <1>7 DEF RowsHeld
  <2>2. \A q \in RowsHeld' : /\ prot'[q] = prot[q] /\ table'[q] = table[q] /\ committed'[q] = committed[q]
    BY <1>7, <2>1
  <2>3. Set(running') \cup Set(last') \subseteq Set(running) \cup Set(last)
    BY <1>0, <1>3
  <2>4. LengthsInv
    BY DEF BatchInv
  <2>5. \A q \in Req : InputLen(q)' = InputLen(q) /\ FinishLen(q)' = FinishLen(q)
    BY <1>0 DEF InputLen, FinishLen
  <2>6. \A q \in RowsHeld' : prot'[q] * PageSize <= committed'[q] /\ committed'[q] <= InputLen(q)'
          /\ Len(table'[q]) = PagesFor(committed'[q] + (IF Stage' = "verify" THEN Block ELSE 0))
    BY <1>1, <1>5, <2>1, <2>2, <2>4, <2>5 DEF LengthsInv
  <2>7. \A q \in RowsHeld' \cap (Set(running') \cup Set(last')) :
          q # chunked => committed'[q] = InputLen(q)' - 1
    BY <1>1, <1>5, <2>1, <2>2, <2>3, <2>4, <2>5 DEF LengthsInv
  <2>8. \A q \in Req : out'[q] <= FinishLen(q)' /\ (q \notin finished' => out'[q] < FinishLen(q)')
    BY <1>0, <2>4, <2>5 DEF LengthsInv
  <2> QED
    BY <1>0, <1>5, <2>6, <2>7, <2>8 DEF LengthsInv, HeadStages
<1>17. AddingInv'
  BY <1>5 DEF AddingInv
<1> QED
  BY <1>11, <1>13, <1>14, <1>15, <1>16, <1>17 DEF BatchInv

LEMMA BatchAbortLast ==
  ASSUME MemInv, BatchInv, AbortLast
  PROVE  BatchInv'
<1> DEFINE r == running[1]
<1>0. /\ phase = "abort_last" /\ Drop(r)
      /\ to_finish' = to_finish \cup {r} /\ gone' = gone \cup {r}
      /\ running' = <<>> /\ full' = FALSE
      /\ phase' = "recv" /\ UNCHANGED <<goal, step, paused>>
      /\ UNCHANGED <<out, fill, finished, arrived, waiting, spec, last, chunked, adder>>
  BY DEF AbortLast, Enter
<1>1. Stage = "abort_last" /\ Stage' = "recv" /\ SchedTypes
  BY <1>0 DEF Stage, BatchInv
<1>2. running \in Seq(Req) /\ Len(running) = 1
  BY <1>1 DEF BatchInv, StageInv, SchedTypes
<1>3. Set(running) = {r} /\ r \in Req
  BY <1>2 DEF Set
<1> HIDE DEF r
<1>4. /\ last = <<>> /\ adder = NoAdder /\ chunked = NoReq
      /\ Chunked = {} /\ Set(last) = {} /\ Set(adder.list) = {}
      /\ Set(running) \cap finished = {} /\ RowsHeld = Set(running)
  BY <1>1, CleanRows DEF CleanStages
<1>5. RowsHeld' = {} /\ pre' \in [Req -> Nat] /\ committed' \in [Req -> Nat]
  BY <1>0, <1>1, <1>3, <1>4, DropRows
<1>6. running' \in Seq(Req) /\ Set(running') = {} /\ IsInjective(running')
  BY <1>0, EmptySet
<1>7. SchedTypes'
  BY Zenon, <1>0, <1>3, <1>5, <1>6 DEF BatchInv, SchedTypes, Phases
<1>8. Chunked' = Chunked
  BY <1>0 DEF Chunked
<1>9. PlacesInv'
  BY <1>0, <1>3, <1>4, <1>6, <1>8, ParamTypes DEF BatchInv, PlacesInv
<1>10. StageInv'
  BY <1>0, <1>1, <1>4, <1>8 DEF StageInv, HeadStages, AddStages, DecodeStages, CleanStages
<1>11. RowsInv'
  BY <1>0, <1>1, <1>4, <1>5, <1>6, <1>8 DEF RowsInv
<1>12. LengthsInv'
  BY <1>0, <1>1, <1>4, <1>5, <1>8 DEF BatchInv, LengthsInv, FinishLen, InputLen
<1>13. AddingInv'
  BY <1>1 DEF AddingInv
<1> QED
  BY <1>7, <1>9, <1>10, <1>11, <1>12, <1>13 DEF BatchInv

\* Rows that are given up take nothing from what is known of the others.
LEMMA LengthsFewer ==
  ASSUME LengthsInv, Stage # "verify", Stage = "pause_release" => Stage' = "pause_release",
         Stage' \notin HeadStages \cup AddStages \cup {"plan", "verify"},
         UNCHANGED <<out, finished>>, chunked' = chunked, RowsHeld' \subseteq RowsHeld,
         Set(running') \cup Set(last') \subseteq Set(running) \cup Set(last),
         \A q \in RowsHeld' : /\ prot'[q] = prot[q] /\ Len(table'[q]) = Len(table[q])
                              /\ committed'[q] = committed[q]
  PROVE  LengthsInv'
<1>1. \A q \in Req : InputLen(q)' = InputLen(q) /\ FinishLen(q)' = FinishLen(q)
  BY DEF InputLen, FinishLen
<1>2. \A q \in RowsHeld' : q \in Req
  BY DEF RowsHeld
<1>3. \A q \in RowsHeld' :
        /\ prot'[q] * PageSize <= committed'[q] /\ committed'[q] <= InputLen(q)'
        /\ Len(table'[q]) = PagesFor(committed'[q] + (IF Stage' = "verify" THEN Block ELSE 0))
  BY <1>1, <1>2 DEF LengthsInv
<1>4. Stage' # "pause_release" => \A q \in RowsHeld' \cap (Set(running') \cup Set(last')) :
        q # chunked' => committed'[q] = InputLen(q)' - 1
  BY <1>1, <1>2 DEF LengthsInv
<1>5. \A q \in Req : out'[q] <= FinishLen(q)' /\ (q \notin finished' => out'[q] < FinishLen(q)')
  BY <1>1 DEF LengthsInv
<1> QED
  BY <1>3, <1>4, <1>5 DEF LengthsInv, HeadStages, AddStages

LEMMA BatchPauseRelease ==
  ASSUME MemInv, BatchInv, PauseRelease
  PROVE  BatchInv'
<1> DEFINE r == running[step]
           n == (Len(running) - step + 1) * RetractSteps
<1>0. /\ phase = "pause_release" /\ step <= Len(running) /\ Drop(r) /\ step' = step + 1
      /\ phase' = "evict" /\ goal' = [need |-> n, then |-> "pause_release"]
      /\ UNCHANGED <<out, fill, finished, to_finish, gone, sched, paused>>
  BY DEF PauseRelease
<1>1. Stage = "pause_release" /\ Stage' = "pause_release" /\ SchedTypes
  BY <1>0 DEF Stage, BatchInv
<1>2. /\ running \in Seq(Req) /\ Len(running) \in Nat /\ step \in 1 .. Len(running)
      /\ step \in Nat /\ IsInjective(running) /\ DOMAIN running = 1 .. Len(running)
  BY <1>0, <1>1 DEF BatchInv, StageInv, SchedTypes, PlacesInv
<1>3. r \in Req
  BY <1>2
<1> HIDE DEF r
<1>4. n \in Nat
  <2>1. Len(running) - step + 1 \in Nat
    BY <1>2
  <2> QED
    BY <2>1, ParamTypes
<1> HIDE DEF n
<1>5. /\ last = <<>> /\ adder = NoAdder /\ chunked = NoReq /\ Set(running) \cap finished = {}
      /\ UNCHANGED <<running, last, adder, chunked, waiting, arrived, spec, full>>
  BY <1>0, <1>1 DEF BatchInv, StageInv, HeadStages, AddStages, DecodeStages, CleanStages, sched
<1>6. Chunked = {} /\ Chunked' = {} /\ Set(last) = {} /\ Set(adder.list) = {}
  BY <1>5, EmptySet DEF Chunked, NoAdder
<1>7. /\ RowsHeld' = RowsHeld \ {r}
      /\ \A q \in Req \ {r} : table'[q] = table[q] /\ prot'[q] = prot[q]
      /\ pre' \in [Req -> Nat] /\ committed' \in [Req -> Nat]
      /\ \A q \in Req \ {r} : pre'[q] = pre[q] /\ committed'[q] = committed[q]
  BY <1>0, <1>1, <1>3, DropRows
<1>8. RowsHeld' = {running[i] : i \in step + 1 .. Len(running)}
  <2>1. RowsHeld = {running[i] : i \in step .. Len(running)}
    BY <1>1 DEF BatchInv, RowsInv
  <2>2. \A i \in step .. Len(running) : running[i] = r <=> i = step
    BY <1>2 DEF r, IsInjective
  <2>3. \A i \in step .. Len(running) : i # step <=> i \in step + 1 .. Len(running)
    BY <1>2
  <2>4. \A i \in step + 1 .. Len(running) : i \in step .. Len(running)
    BY <1>2
  <2> QED
    BY <1>7, <2>1, <2>2, <2>3, <2>4
<1>9. SchedTypes'
  <2>1. goal' \in [need : Nat, then : Phases] /\ goal'.then \in EvictStages
    BY <1>0, <1>4 DEF Phases, EvictStages
  <2>2. step' \in Nat /\ phase' \in Phases
    BY <1>0, <1>2 DEF Phases
  <2>3. UNCHANGED <<out, fill, finished, to_finish, gone, paused>>
    BY <1>0
  <2> QED
    BY <1>1, <1>5, <1>7, <2>1, <2>2, <2>3 DEF SchedTypes
<1>10. PlacesInv'
  BY <1>0, <1>5, <1>6 DEF BatchInv, PlacesInv
<1>11. StageInv'
  <2>1. step + 1 \in 1 .. Len(running) + 1
    BY <1>2
  <2> QED
    BY <1>0, <1>1, <1>5, <1>6, <2>1 DEF StageInv, HeadStages, AddStages, DecodeStages, CleanStages
<1>12. RowsInv'
  <2>1. Set(waiting') \cap RowsHeld' = {}
    BY <1>5, <1>7 DEF BatchInv, RowsInv
  <2> QED
    BY <1>0, <1>1, <1>5, <1>8, <2>1 DEF RowsInv
<1>13. LengthsInv'
  <2>1. \A q \in RowsHeld' : q \in Req \ {r}
    BY <1>7 DEF RowsHeld
  <2> QED
    BY <1>0, <1>1, <1>5, <1>7, <2>1, LengthsFewer DEF BatchInv, HeadStages, AddStages
<1>14. AddingInv'
  BY <1>1 DEF AddingInv
<1> QED
  BY <1>9, <1>10, <1>11, <1>12, <1>13, <1>14 DEF BatchInv

LEMMA BatchDecodeResult ==
  ASSUME MemInv, BatchInv, DecodeResult
  PROVE  BatchInv'
<1> DEFINE r == running[step]
<1>0. /\ phase = "decode_result" /\ step <= Len(running) /\ step' = step + 1
      /\ IF r \in finished THEN Finish(r) ELSE UNCHANGED <<mem, kvs>>
      /\ UNCHANGED <<reqs, sched, goal, phase, paused>>
  BY DEF DecodeResult
<1>1. Stage = "decode_result" /\ Stage' = "decode_result" /\ SchedTypes
  BY <1>0 DEF Stage, BatchInv
<1>2. /\ running \in Seq(Req) /\ Len(running) \in Nat /\ step \in 1 .. Len(running)
      /\ step \in Nat /\ IsInjective(running) /\ DOMAIN running = 1 .. Len(running)
  BY <1>0, <1>1 DEF BatchInv, StageInv, SchedTypes, PlacesInv
<1>3. r \in Req /\ r \in RowsHeld
  BY <1>0, DecodeRow
<1> HIDE DEF r
<1>5. /\ last = <<>> /\ adder = NoAdder /\ chunked = NoReq
      /\ UNCHANGED <<running, last, adder, chunked, waiting, arrived, spec, full>>
      /\ UNCHANGED <<out, pre, fill, committed, finished, to_finish, gone>>
  BY <1>0, <1>1 DEF BatchInv, StageInv, HeadStages, AddStages, DecodeStages, CleanStages, sched, reqs
<1>6. Chunked = {} /\ Chunked' = {} /\ Set(last) = {} /\ Set(adder.list) = {}
  BY <1>5, EmptySet DEF Chunked, NoAdder
<1>7. /\ RowsHeld' = RowsHeld \ (IF r \in finished THEN {r} ELSE {})
      /\ \A q \in RowsHeld' : table'[q] = table[q] /\ prot'[q] = prot[q]
  <2>1. CASE r \in finished
    BY <1>0, <1>3, <2>1, FinishRows DEF RowsHeld
  <2>2. CASE r \notin finished
    BY <1>0, <2>2 DEF mem, RowsHeld
  <2> QED
    BY <2>1, <2>2
<1>8. RowsHeld' = {running[i] : i \in {j \in DOMAIN running : j >= step + 1 \/ running[j] \notin finished}}
  <2>1. RowsHeld = {running[i] : i \in {j \in DOMAIN running : j >= step \/ running[j] \notin finished}}
    BY <1>1 DEF BatchInv, RowsInv
  <2>2. \A i \in DOMAIN running : running[i] = r <=> i = step
    BY <1>2 DEF r, IsInjective
  <2>3. \A i \in DOMAIN running : i >= step <=> i = step \/ i >= step + 1
    BY <1>2
  <2>4. ~ step >= step + 1
    BY <1>2
  <2>5. ASSUME NEW i \in DOMAIN running
        PROVE  running[i] \in RowsHeld' <=> i >= step + 1 \/ running[i] \notin finished
    <3>1. running[i] \in RowsHeld <=> i >= step \/ running[i] \notin finished
      BY <1>2, <2>1 DEF IsInjective
    <3> QED
      BY <1>7, <2>2, <2>3, <2>4, <3>1
  <2> QED
    BY <1>7, <2>1, <2>5
<1>9. SchedTypes'
  <2>1. step' \in Nat /\ UNCHANGED <<goal, phase, paused>>
    BY <1>0, <1>2
  <2> QED
    BY Zenon, <1>1, <1>5, <2>1 DEF SchedTypes
<1>10. PlacesInv'
  BY <1>0, <1>5, <1>6 DEF BatchInv, PlacesInv
<1>11. StageInv'
  <2>1. step + 1 \in 1 .. Len(running) + 1
    BY <1>2
  <2> QED
    BY <1>0, <1>1, <1>5, <1>6, <2>1 DEF StageInv, HeadStages, AddStages, DecodeStages, CleanStages
<1>12. RowsInv'
  <2>1. Set(waiting') \cap RowsHeld' = {}
    BY <1>5, <1>7 DEF BatchInv, RowsInv
  <2> QED
    BY <1>0, <1>1, <1>5, <1>8, <2>1 DEF RowsInv
<1>13. LengthsInv'
  BY <1>0, <1>1, <1>5, <1>7, LengthsFewer DEF BatchInv, HeadStages, AddStages
<1>14. AddingInv'
  BY <1>1 DEF AddingInv
<1> QED
  BY <1>9, <1>10, <1>11, <1>12, <1>13, <1>14 DEF BatchInv

-----------------------------------------------------------------------------
(* The batch invariant: forwards.                                          *)

\* What alloc_extend does to the rows, when it finds the pages.
LEMMA ExtendRows ==
  ASSUME MemInv, NEW S \in SUBSET Req, NEW from, NEW to, NEW ph,
         Extend(S, from, to, ph), phase' # "oom"
  PROVE  /\ phase' = ph /\ cache' = cache /\ prot' = prot /\ pin' = pin
         /\ \A r \in S : Len(table'[r]) = Len(Row(r)) + NewPages(from[r], to[r])
         /\ \A r \in Req \ S : table'[r] = table[r]
         /\ \A r \in Req : table'[r] \in Seq(Page)
<1> DEFINE need == [r \in Req |-> IF r \in S THEN NewPages(from[r], to[r]) ELSE 0]
<1>1. /\ phase' = ph
      /\ \E a \in PageAssignments(free, need) :
           /\ IsAssignment(a, free) /\ \A r \in Req : Len(a[r]) = need[r]
           /\ Grow(S, a)
  BY DEF Extend
<1>2. PICK a : IsAssignment(a, free) /\ (\A r \in Req : Len(a[r]) = need[r]) /\ Grow(S, a)
  BY <1>1
<1>3. /\ table' = [r \in Req |-> IF r \in S THEN Row(r) \o a[r] ELSE table[r]]
      /\ UNCHANGED <<cache, prot, pin>>
  BY <1>2 DEF Grow
<1>4. ASSUME NEW r \in S PROVE Len(table'[r]) = Len(Row(r)) + NewPages(from[r], to[r])
  <2>1. Row(r) \in Seq(Page) /\ a[r] \in Seq(free) /\ Len(a[r]) = NewPages(from[r], to[r])
    BY <1>2, RowFacts DEF IsAssignment
  <2>2. a[r] \in Seq(Page)
    BY <2>1 DEF MemInv, MemTypeOK
  <2>3. table'[r] = Row(r) \o a[r]
    BY <1>3
  <2> QED
    BY <2>1, <2>2, <2>3
<1>5. \A r \in Req \ S : table'[r] = table[r]
  BY <1>3
<1>6. MemInv'
  BY <1>2, GrowInv
<1> QED
  BY Zenon, <1>1, <1>3, <1>4, <1>5, <1>6 DEF MemInv, MemTypeOK

LEMMA BatchPrepareForVerify ==
  ASSUME MemInv, BatchInv, PrepareForVerify, phase' # "oom"
  PROVE  BatchInv'
<1> DEFINE S == Set(running)
<1>0. /\ phase = "verify_alloc" /\ Extend(S, committed, Plus(Block), "verify")
      /\ UNCHANGED <<kvs, reqs, sched, goal, step, paused>>
  BY DEF PrepareForVerify
<1>1. Stage = "verify_alloc" /\ SchedTypes /\ S \subseteq Req
  BY <1>0, ListTypes DEF Stage, BatchInv
<1>2. /\ phase' = "verify" /\ prot' = prot
      /\ \A r \in S : Len(table'[r]) = Len(Row(r)) + NewPages(committed[r], Plus(Block)[r])
      /\ \A r \in Req \ S : table'[r] = table[r]
      /\ \A r \in Req : table'[r] \in Seq(Page)
  <2>1. Set(running) \in SUBSET Req /\ Extend(Set(running), committed, Plus(Block), "verify")
    BY <1>0, <1>1
  <2>2. phase' = "verify" /\ prot' = prot
    BY Zenon, <2>1, ExtendRows
  <2>3. \A r \in Req \ Set(running) : table'[r] = table[r]
    BY Zenon, <2>1, ExtendRows
  <2>4. \A r \in Set(running) :
          Len(table'[r]) = Len(Row(r)) + NewPages(committed[r], Plus(Block)[r])
    BY <2>1, ExtendRows
  <2>5. \A r \in Req : table'[r] \in Seq(Page)
    BY Zenon, <2>1, ExtendRows
  <2> QED
    BY <2>2, <2>3, <2>4, <2>5
<1>3. Stage' = "verify"
  BY <1>2 DEF Stage
<1>4. /\ last = <<>> /\ adder = NoAdder /\ chunked = NoReq
      /\ Chunked = {} /\ Set(last) = {} /\ Set(adder.list) = {}
      /\ Set(running) \cap finished = {} /\ running # <<>> /\ RowsHeld = S
  BY <1>1, CleanRows DEF CleanStages
<1>5. ASSUME NEW r \in S
      PROVE  Len(table'[r]) = PagesFor(committed[r] + Block) /\ Len(table'[r]) > 0
  <2>1. r \in Req /\ r \in RowsHeld /\ committed[r] \in Nat
    BY <1>1, <1>4 DEF SchedTypes
  <2>2. Len(table[r]) = PagesFor(committed[r]) /\ Row(r) = table[r]
    <3>1. table[r] # <<>>
      BY <2>1 DEF RowsHeld
    <3>2. Len(table[r]) = PagesFor(committed[r] + 0)
      BY <1>1, <2>1 DEF BatchInv, LengthsInv
    <3> QED
      BY <2>1, <3>1, <3>2 DEF Row
  <2>3. Plus(Block)[r] = committed[r] + Block /\ committed[r] + Block \in Nat
        /\ committed[r] + Block # 0
    BY <2>1, ParamTypes DEF Plus
  <2>4. PagesFor(committed[r]) \in Nat /\ PagesFor(committed[r] + Block) \in Nat
        /\ PagesFor(committed[r] + Block) # 0
    BY <2>1, <2>3, PagesForBounds, PagesForPositive
  <2> QED
    BY <1>2, <2>2, <2>3, <2>4 DEF NewPages
<1>6. RowsHeld' = RowsHeld
  <2>1. ASSUME NEW r \in S PROVE table'[r] # <<>>
    BY <1>5, <2>1, EmptySet
  <2>2. ASSUME NEW r \in Req \ S PROVE table'[r] = table[r]
    BY <1>2
  <2> QED
    BY <1>1, <1>4, <2>1, <2>2 DEF RowsHeld
<1> HIDE DEF S
<1>7. SchedTypes'
  BY Zenon, <1>0, <1>1, <1>2 DEF SchedTypes, reqs, sched, Phases
<1>8. Chunked' = Chunked /\ UNCHANGED <<out, pre, fill, committed, finished, to_finish, gone>>
      /\ UNCHANGED <<arrived, waiting, running, spec, last, chunked, adder>>
  BY <1>0 DEF Chunked, sched, reqs
<1>9. PlacesInv'
  BY <1>8 DEF BatchInv, PlacesInv
<1>10. StageInv'
  BY <1>3, <1>4, <1>8 DEF StageInv, HeadStages, AddStages, DecodeStages, CleanStages
<1>11. RowsInv'
  BY <1>1, <1>3, <1>6, <1>8 DEF BatchInv, RowsInv
<1>12. LengthsInv'
  <2>1. \A r \in RowsHeld : r \in S
    BY <1>4
  <2>2. LengthsInv
    BY DEF BatchInv
  <2>3. \A r \in RowsHeld' :
          /\ prot'[r] * PageSize <= committed'[r] /\ committed'[r] <= InputLen(r)'
          /\ Len(table'[r]) = PagesFor(committed'[r] + (IF Stage' = "verify" THEN Block ELSE 0))
    BY <1>2, <1>3, <1>5, <1>6, <1>8, <2>1, <2>2 DEF LengthsInv, InputLen
  <2> QED
    BY <1>1, <1>3, <1>4, <1>6, <1>8, <2>2, <2>3 DEF LengthsInv, FinishLen, InputLen, HeadStages
<1>13. AddingInv'
  BY <1>3 DEF AddingInv
<1> QED
  BY <1>7, <1>9, <1>10, <1>11, <1>12, <1>13 DEF BatchInv

LEMMA BatchVerify ==
  ASSUME MemInv, BatchInv, Verify
  PROVE  BatchInv'
<1> DEFINE S == Set(running)
<1>0. /\ phase = "verify" /\ step' = 1 /\ phase' = "decode_result"
      /\ UNCHANGED <<pre, fill, to_finish, gone, sched, goal, paused>>
  BY Zenon DEF Verify
<1>1. Stage = "verify" /\ Stage' = "decode_result" /\ SchedTypes /\ S \subseteq Req
  BY <1>0, ListTypes DEF Stage, BatchInv
<1>2. PICK app \in [Req -> Nat] :
        /\ committed' = [r \in Req |-> committed[r] + app[r]]
        /\ out' = [r \in Req |-> out[r] + app[r]]
        /\ finished' = finished \cup
             {r \in Set(running) : r \in to_finish \/ out[r] + app[r] >= FinishLen(r)}
        /\ \A r \in Req \ Set(running) : app[r] = 0
        /\ \A r \in Set(running) : app[r] \in 1 .. Block /\ out[r] + app[r] <= FinishLen(r)
        /\ Trim(Set(running), [r \in Set(running) |-> PagesFor(committed[r] + app[r])])
  BY Zenon, VerifyEffect
<1>3. /\ last = <<>> /\ adder = NoAdder /\ chunked = NoReq
      /\ Chunked = {} /\ Set(last) = {} /\ Set(adder.list) = {}
      /\ Set(running) \cap finished = {} /\ running # <<>> /\ RowsHeld = S
  BY <1>1, CleanRows DEF CleanStages
<1>4. /\ prot' = prot
      /\ \A r \in Req \ S : table'[r] = table[r]
      /\ \A r \in S : table'[r] = [j \in 1 .. PagesFor(committed[r] + app[r]) |-> table[r][j]]
  BY Zenon, <1>1, <1>2 DEF Trim
<1>5. ASSUME NEW r \in Req
      PROVE  /\ committed[r] \in Nat /\ out[r] \in Nat /\ app[r] \in Nat
             /\ committed'[r] = committed[r] + app[r] /\ out'[r] = out[r] + app[r]
             /\ committed'[r] \in Nat /\ out'[r] \in Nat
             /\ InputLen(r) \in Nat /\ InputLen(r)' = InputLen(r) + app[r]
             /\ FinishLen(r)' = FinishLen(r) /\ FinishLen(r) \in Nat
  <2>1. /\ committed[r] \in Nat /\ out[r] \in Nat /\ app[r] \in Nat
        /\ committed'[r] = committed[r] + app[r] /\ out'[r] = out[r] + app[r]
    BY <1>1, <1>2 DEF SchedTypes
  <2>2. InputLen(r) = PromptLen[r] + out[r] /\ InputLen(r)' = PromptLen[r] + out'[r]
        /\ PromptLen[r] \in Nat
    BY ParamTypes DEF InputLen
  <2>3. FinishLen(r)' = FinishLen(r) /\ FinishLen(r) \in Nat
    BY InputBound DEF FinishLen, BatchInv
  <2> QED
    BY <2>1, <2>2, <2>3
<1>6. ASSUME NEW r \in S
      PROVE  /\ r \in Req /\ r \notin finished /\ committed'[r] = InputLen(r)' - 1
             /\ prot[r] * PageSize <= committed'[r] /\ committed'[r] <= InputLen(r)'
             /\ Len(table'[r]) = PagesFor(committed'[r]) /\ table'[r] # <<>>
             /\ out'[r] <= FinishLen(r) /\ (r \notin finished' => out'[r] < FinishLen(r))
  <2>1. /\ r \in Req /\ r \notin finished /\ committed[r] = InputLen(r) - 1
        /\ prot[r] * PageSize <= committed[r]
    BY <1>0, VerifyRows
  <2>2. app[r] \in Nat /\ app[r] >= 1 /\ out[r] + app[r] <= FinishLen(r)
    BY <1>2, <1>5, <2>1, ParamTypes
  <2>3. /\ committed[r] \in Nat /\ out[r] \in Nat /\ committed'[r] = committed[r] + app[r]
        /\ out'[r] = out[r] + app[r] /\ InputLen(r) \in Nat /\ InputLen(r)' = InputLen(r) + app[r]
        /\ FinishLen(r) \in Nat /\ committed'[r] \in Nat
    BY <1>5, <2>1
  <2>4. prot[r] \in Nat /\ prot[r] * PageSize \in Nat
    BY <2>1, RowTypes, PageTypes
  <2>5. committed'[r] # 0 /\ table'[r] = [j \in 1 .. PagesFor(committed'[r]) |-> table[r][j]]
    <3>1. table'[r] = [j \in 1 .. PagesFor(committed[r] + app[r]) |-> table[r][j]]
      BY Zenon, <1>4
    <3>2. committed'[r] # 0
      BY <2>2, <2>3
    <3> QED
      BY <2>3, <3>1, <3>2, Zenon
  <2>6. PagesFor(committed'[r]) \in Nat /\ PagesFor(committed'[r]) # 0
    BY <2>3, <2>5, PagesForBounds, PagesForPositive
  <2>7. Len(table'[r]) = PagesFor(committed'[r]) /\ table'[r] # <<>>
    <3> DEFINE c == PagesFor(committed'[r])
    <3>1. table'[r] = [j \in 1 .. c |-> table[r][j]] /\ c \in Nat /\ c # 0
      BY <2>5, <2>6
    <3> HIDE DEF c
    <3>2. Len(table'[r]) = c
      BY <3>1
    <3> QED
      BY <3>1, <3>2, EmptySet DEF c
  <2>8. r \notin finished' => out[r] + app[r] < FinishLen(r)
    <3>1. r \notin finished' => ~ out[r] + app[r] >= FinishLen(r)
      BY <1>2
    <3> HIDE DEF FinishLen
    <3> QED
      BY <2>2, <2>3, <3>1
  <2>9. committed'[r] = InputLen(r)' - 1 /\ committed'[r] <= InputLen(r)'
        /\ prot[r] * PageSize <= committed'[r]
    <3> HIDE DEF InputLen
    <3> QED
      BY <2>1, <2>2, <2>3, <2>4
  <2> QED
    BY <2>1, <2>2, <2>3, <2>7, <2>8, <2>9
<1>7. RowsHeld' = RowsHeld
  BY <1>1, <1>3, <1>4, <1>6 DEF RowsHeld
<1>8. finished \subseteq finished' /\ finished' \subseteq finished \cup S
  BY <1>2
<1>9. UNCHANGED <<pre, fill, to_finish, gone, goal, paused, arrived, waiting, running, spec, last,
                   chunked, full, adder>> /\ Chunked' = Chunked
  BY <1>0 DEF sched, Chunked
<1>10. SchedTypes'
  <2>1. committed' \in [Req -> Nat] /\ out' \in [Req -> Nat]
    BY <1>2, <1>5
  <2> QED
    BY Zenon, <1>0, <1>1, <1>8, <1>9, <2>1 DEF SchedTypes, Phases
<1>11. PlacesInv'
  BY <1>1, <1>3, <1>8, <1>9, ParamTypes DEF BatchInv, PlacesInv
<1>12. StageInv'
  <2>1. Len(running) \in Nat
    BY <1>1 DEF SchedTypes
  <2>2. step' \in 1 .. Len(running') + 1
    BY <1>0, <1>9, <2>1
  <2> QED
    BY <1>1, <1>3, <1>9, <2>2 DEF StageInv, HeadStages, AddStages, DecodeStages, CleanStages
<1>13. RowsInv'
  <2>1. \A j \in DOMAIN running : j >= 1
    BY <1>1 DEF SchedTypes
  <2>2. RowsHeld' = {running[i] : i \in {j \in DOMAIN running : j >= 1 \/ running[j] \notin finished'}}
    BY <1>3, <1>7, <2>1 DEF Set
  <2> QED
    BY <1>0, <1>1, <1>7, <1>9, <2>2 DEF BatchInv, RowsInv
<1>14. LengthsInv'
  <2>1. \A r \in RowsHeld' :
          /\ prot'[r] * PageSize <= committed'[r] /\ committed'[r] <= InputLen(r)'
          /\ Len(table'[r]) = PagesFor(committed'[r] + (IF Stage' = "verify" THEN Block ELSE 0))
    <3>1. \A r \in S : committed'[r] + 0 = committed'[r]
      BY <1>1, <1>5
    <3> QED
      BY <1>1, <1>3, <1>4, <1>6, <1>7, <3>1
  <2>2. \A r \in RowsHeld' : committed'[r] = InputLen(r)' - 1
    BY <1>3, <1>6, <1>7
  <2>3. \A r \in Req : out'[r] <= FinishLen(r)' /\ (r \notin finished' => out'[r] < FinishLen(r)')
    <3>1. ASSUME NEW r \in Req, r \notin S
          PROVE  out'[r] <= FinishLen(r)' /\ (r \notin finished' => out'[r] < FinishLen(r)')
      <4>1. out'[r] = out[r] /\ out[r] <= FinishLen(r) /\ (r \notin finished => out[r] < FinishLen(r))
        BY <1>2, <1>5, <3>1 DEF BatchInv, LengthsInv
      <4> QED
        BY <1>5, <1>8, <4>1
    <3> QED
      BY <1>5, <1>6, <3>1
  <2> QED
    BY <1>1, <2>1, <2>2, <2>3 DEF LengthsInv, HeadStages
<1>15. AddingInv'
  BY <1>1 DEF AddingInv
<1> QED
  BY <1>10, <1>11, <1>12, <1>13, <1>14, <1>15 DEF BatchInv

\* The row of a request without one starts with its matched pages.
LEMMA RowLength ==
  ASSUME MemInv, NEW r \in Req
  PROVE  Len(Row(r)) = IF table[r] = <<>> THEN prot[r] ELSE Len(table[r])
<1>1. prot[r] \in Nat
  BY RowTypes
<1>2. CASE table[r] = <<>>
  <2>1. Row(r) = [j \in 1 .. prot[r] |-> cache[Path(r, j)]]
    BY <1>2 DEF Row
  <2> QED
    BY <1>1, <1>2, <2>1
<1>3. CASE table[r] # <<>>
  BY <1>3 DEF Row
<1> QED
  BY <1>2, <1>3

\* A request that was admitted has the pages of its prefix.
LEMMA ListedRow ==
  ASSUME MemInv, BatchInv, Stage \in {"adding", "prefill_alloc"}, NEW r \in Set(adder.list)
  PROVE  /\ r \in Req /\ r \notin finished /\ r \notin Set(running)
         /\ pre[r] \in Nat /\ fill[r] \in Nat /\ InputLen(r) \in Nat
         /\ prot[r] \in Nat /\ prot[r] * PageSize <= pre[r]
         /\ pre[r] < fill[r] /\ fill[r] <= InputLen(r)
         /\ Len(Row(r)) = PagesFor(pre[r])
<1>1. r \in Req /\ SchedTypes
  BY ListTypes DEF BatchInv
<1>2. /\ prot[r] * PageSize <= pre[r] /\ pre[r] < fill[r] /\ fill[r] <= InputLen(r)
      /\ IF r \in RowsHeld THEN committed[r] = pre[r] ELSE pre[r] = prot[r] * PageSize
  BY DEF BatchInv, LengthsInv
<1>3. pre[r] \in Nat /\ fill[r] \in Nat /\ InputLen(r) \in Nat /\ prot[r] \in Nat
  BY Zenon, <1>1, RowTypes, InputBound DEF SchedTypes, BatchInv
<1>4. r \notin finished /\ r \notin Set(running)
  BY DEF BatchInv, StageInv, PlacesInv
<1>5. Len(Row(r)) = PagesFor(pre[r])
  <2>1. CASE r \in RowsHeld
    <3>1. Len(table[r]) = PagesFor(committed[r] + 0) /\ committed[r] = pre[r]
      BY <1>2, <2>1 DEF BatchInv, LengthsInv
    <3>2. Len(Row(r)) = Len(table[r])
      BY <1>1, <2>1, RowLength DEF RowsHeld
    <3> QED
      BY <1>3, <3>1, <3>2
  <2>2. CASE r \notin RowsHeld
    <3>1. Len(Row(r)) = prot[r]
      BY <1>1, <2>2, RowLength DEF RowsHeld
    <3> QED
      BY <1>2, <1>3, <2>2, <3>1, PagesForWhole
  <2> QED
    BY <2>1, <2>2
<1> QED
  BY <1>1, <1>2, <1>3, <1>4, <1>5

LEMMA BatchPrefillForward ==
  ASSUME MemInv, BatchInv, PrefillForward, phase' # "oom"
  PROVE  BatchInv'
<1> DEFINE S == Set(adder.list)
<1>0. /\ phase = "prefill_alloc" /\ step' = 1
      /\ Extend(Set(adder.list), pre, fill, "prefill_result")
      /\ committed' = [r \in Req |-> IF r \in S THEN fill[r] ELSE committed[r]]
      /\ UNCHANGED <<out, pre, fill, finished, to_finish, gone, sched, goal, paused>>
  BY DEF PrefillForward
<1>1. Stage = "prefill_alloc" /\ SchedTypes /\ S \subseteq Req
  BY <1>0, ListTypes DEF Stage, BatchInv
<1>2. Set(adder.list) \in SUBSET Req
  BY <1>1
<1>3. phase' = "prefill_result" /\ prot' = prot
  BY Zenon, <1>0, <1>2, ExtendRows
<1>4. \A r \in Set(adder.list) : Len(table'[r]) = Len(Row(r)) + NewPages(pre[r], fill[r])
  <2>1. Extend(Set(adder.list), pre, fill, "prefill_result")
    BY <1>0
  <2> HIDE DEF S
  <2> QED
    BY <1>2, <2>1, ExtendRows
<1>5. \A r \in Req \ Set(adder.list) : table'[r] = table[r]
  BY Zenon, <1>0, <1>2, ExtendRows
<1>6. Stage' = "prefill_result"
  BY <1>3 DEF Stage
<1>7. UNCHANGED <<out, pre, fill, finished, to_finish, gone, arrived, waiting, running, spec, last,
                  chunked, full, adder>> /\ Chunked' = Chunked
  BY <1>0 DEF sched, Chunked
<1>8. last = <<>> /\ Set(last) = {} /\ Chunked \subseteq S /\ S \cap Set(waiting) = {}
      /\ S \cap finished = {}
  BY <1>1, EmptySet DEF BatchInv, StageInv, HeadStages
<1>9. ASSUME NEW r \in S
      PROVE  /\ committed'[r] = fill[r] /\ table'[r] # <<>>
             /\ Len(table'[r]) = PagesFor(committed'[r])
             /\ prot'[r] * PageSize <= committed'[r] /\ committed'[r] <= InputLen(r)
             /\ r \notin Set(running) /\ r \notin finished
  <2>1. /\ r \in Req /\ r \notin finished /\ r \notin Set(running)
        /\ pre[r] \in Nat /\ fill[r] \in Nat /\ InputLen(r) \in Nat
        /\ prot[r] \in Nat /\ prot[r] * PageSize <= pre[r]
        /\ pre[r] < fill[r] /\ fill[r] <= InputLen(r)
        /\ Len(Row(r)) = PagesFor(pre[r])
    BY <1>1, ListedRow
  <2>2. committed'[r] = fill[r]
    BY <1>0, <2>1
  <2>3. PagesFor(pre[r]) \in Nat /\ PagesFor(fill[r]) \in Nat /\ PagesFor(fill[r]) # 0
    BY <2>1, PagesForBounds, PagesForPositive
  <2>4. Len(table'[r]) = PagesFor(fill[r])
    BY <1>4, <2>1, <2>3 DEF NewPages
  <2>5. table'[r] # <<>>
    BY <2>3, <2>4, EmptySet
  <2>6. prot[r] * PageSize \in Nat
    BY <2>1, PageTypes
  <2> QED
    BY <1>3, <2>1, <2>2, <2>4, <2>5, <2>6
<1>10. RowsHeld' = RowsHeld \cup S
  BY <1>1, <1>5, <1>9 DEF RowsHeld
<1>11. RowsHeld' = (Set(running) \ finished) \cup S
  <2>1. RowsHeld \ S = Set(running) \ finished
    BY <1>1 DEF BatchInv, RowsInv
  <2> QED
    BY <1>10, <2>1
<1> HIDE DEF S
<1>12. SchedTypes'
  <2>1. committed' \in [Req -> Nat]
    BY <1>0, <1>1 DEF SchedTypes
  <2> QED
    BY Zenon, <1>0, <1>1, <1>3, <1>7, <2>1 DEF SchedTypes, Phases
<1>13. PlacesInv'
  BY <1>7 DEF BatchInv, PlacesInv
<1>14. adder.list \in Seq(Req) /\ Len(adder.list) \in Nat /\ DOMAIN adder.list = 1 .. Len(adder.list)
       /\ \A i \in 1 .. Len(adder.list) : adder.list[i] \in S
  <2>1. adder.list \in Seq(Req)
    BY <1>1, ListTypes
  <2> QED
    BY <2>1 DEF S, Set
<1>15. StageInv'
  <2>1. step' \in 1 .. Len(adder.list) + 1
    BY <1>0, <1>14
  <2>2. \A i \in step' .. Len(adder.list) : adder.list[i] \notin finished
    BY <1>0, <1>8, <1>14
  <2> QED
    BY <1>6, <1>7, <1>8, <2>1, <2>2 DEF StageInv, HeadStages, AddStages, DecodeStages, CleanStages, S
<1>16. RowsInv'
  <2>1. Set(waiting) \cap RowsHeld' = {}
    BY <1>8, <1>10 DEF BatchInv, RowsInv
  <2>2. RowsHeld' = ((Set(running) \cup Set(last) \cup Set(adder.list)) \ finished) \cup Chunked
    BY <1>8, <1>11 DEF S
  <2> QED
    BY <1>6, <1>7, <2>1, <2>2 DEF RowsInv
<1>17. LengthsInv'
  <2>1. LengthsInv
    BY DEF BatchInv
  <2>2. \A r \in Req : InputLen(r)' = InputLen(r) /\ FinishLen(r)' = FinishLen(r)
    BY <1>7 DEF InputLen, FinishLen
  <2>3. ASSUME NEW r \in RowsHeld'
        PROVE  /\ prot'[r] * PageSize <= committed'[r] /\ committed'[r] <= InputLen(r)
               /\ Len(table'[r]) = PagesFor(committed'[r] + 0)
               /\ r \in Req
    <3>1. r \in Req
      BY <2>3 DEF RowsHeld
    <3>2. CASE r \in S
      <4>1. committed'[r] + 0 = committed'[r]
        BY <1>12, <3>1 DEF SchedTypes
      <4> QED
        BY <1>9, <3>1, <3>2, <4>1
    <3>3. CASE r \notin S
      <4>1. r \in RowsHeld /\ table'[r] = table[r] /\ committed'[r] = committed[r]
        BY <1>0, <1>5, <1>10, <2>3, <3>1, <3>3 DEF S
      <4> QED
        BY <1>1, <1>3, <2>1, <3>1, <4>1 DEF LengthsInv
    <3> QED
      BY <3>2, <3>3
  <2>4. ASSUME NEW r \in RowsHeld', r \in Set(running) \cup Set(last), r # chunked
        PROVE  committed'[r] = InputLen(r) - 1
    <3>1. r \in Set(running) /\ r \notin S /\ r \in RowsHeld /\ r \in Req
      BY <1>8, <1>9, <1>10, <2>3, <2>4
    <3>2. committed'[r] = committed[r]
      BY <1>0, <3>1
    <3> QED
      BY <1>1, <2>1, <2>4, <3>1, <3>2 DEF LengthsInv
  <2>5. ASSUME NEW i \in DOMAIN adder.list
        PROVE  LET r == adder.list[i]
               IN  /\ r = chunked => committed'[r] = fill[r] /\ fill[r] < InputLen(r)
                   /\ r # chunked => committed'[r] = fill[r] /\ fill[r] = InputLen(r)
                   /\ ~ i < step' /\ r \in Req
    <3> DEFINE r == adder.list[i]
    <3>1. r \in S /\ i \in Nat /\ i >= 1 /\ r \in Req
      BY <1>1, <1>14
    <3>2. fill[r] < InputLen(r) <=> r = chunked
      BY <1>1, <2>1, <3>1 DEF LengthsInv, S
    <3>3. fill[r] <= InputLen(r) /\ fill[r] \in Nat /\ InputLen(r) \in Nat
      BY <1>1, <3>1, ListedRow DEF S
    <3> QED
      BY <1>0, <1>9, <3>1, <3>2, <3>3
  <2>6. \A r \in Req : out'[r] <= FinishLen(r)' /\ (r \notin finished' => out'[r] < FinishLen(r)')
    BY <1>7, <2>1, <2>2 DEF LengthsInv
  <2>7. /\ \A r \in RowsHeld' :
             /\ prot'[r] * PageSize <= committed'[r] /\ committed'[r] <= InputLen(r)'
             /\ Len(table'[r]) = PagesFor(committed'[r] + (IF Stage' = "verify" THEN Block ELSE 0))
        /\ \A r \in RowsHeld' \cap (Set(running') \cup Set(last')) :
             r # chunked' => committed'[r] = InputLen(r)' - 1
    BY <1>6, <1>7, <2>2, <2>3, <2>4
  <2>8. ASSUME NEW i \in DOMAIN adder.list
        PROVE  (LET r == adder.list[i]
                IN  /\ r = chunked => committed[r] = fill[r] /\ fill[r] < InputLen(r)
                    /\ r # chunked /\ i >= step => committed[r] = fill[r] /\ fill[r] = InputLen(r)
                    /\ r # chunked /\ r \notin finished /\ i < step =>
                         committed[r] = InputLen(r) - 1)'
    <3> DEFINE r == adder.list[i]
    <3>1. /\ r = chunked => committed'[r] = fill[r] /\ fill[r] < InputLen(r)
          /\ r # chunked => committed'[r] = fill[r] /\ fill[r] = InputLen(r)
          /\ ~ i < step' /\ r \in Req
      BY <2>5
    <3>2. adder' = adder /\ fill' = fill /\ chunked' = chunked /\ out' = out /\ finished' = finished
      BY <1>7
    <3> QED
      BY <3>1, <3>2 DEF InputLen
  <2>9. DOMAIN adder'.list = DOMAIN adder.list
    BY <1>7
  <2> QED
    BY <1>6, <2>6, <2>7, <2>8, <2>9 DEF LengthsInv, HeadStages
<1>18. AddingInv'
  BY <1>6 DEF AddingInv
<1> QED
  BY <1>12, <1>13, <1>15, <1>16, <1>17, <1>18 DEF BatchInv

\* What the result of one prefill changes: nothing for the chunked request; a
\* request that is done is released, another one is filed.
LEMMA PrefillEffect ==
  ASSUME MemInv, BatchInv, PrefillResult
  PROVE  LET r == adder.list[step]
         IN  /\ r \in Req /\ r \in RowsHeld /\ r \in Set(adder.list) /\ r \notin finished
             /\ step \in DOMAIN adder.list
             /\ committed[r] = fill[r] /\ (r # chunked => fill[r] = InputLen(r))
             /\ finished' = finished \/ (r # chunked /\ finished' = finished \cup {r})
             /\ RowsHeld' = RowsHeld \ (finished' \ finished)
             /\ \A q \in RowsHeld' : Len(table'[q]) = Len(table[q])
                                     /\ prot'[q] * PageSize <= committed[q]
             /\ pre' \in [Req -> Nat] /\ out' \in [Req -> Nat]
             /\ \A q \in Req \ {r} : out'[q] = out[q]
             /\ out'[r] = IF r = chunked THEN out[r] ELSE out[r] + 1
             /\ out'[r] <= FinishLen(r) /\ (r \notin finished' => out'[r] < FinishLen(r))
<1> DEFINE r == adder.list[step]
<1>0. /\ phase = "prefill_result" /\ step <= Len(adder.list)
      /\ IF r = chunked
           THEN UNCHANGED <<mem, kvs, out, pre, finished>>
           ELSE /\ out' = [out EXCEPT ![r] = @ + 1]
                /\ IF r \in to_finish \/ out[r] + 1 >= FinishLen(r)
                     THEN Finish(r) /\ finished' = finished \cup {r} /\ UNCHANGED pre
                     ELSE Stash(r) /\ UNCHANGED finished
  BY Zenon DEF PrefillResult
<1>1. /\ step \in DOMAIN adder.list /\ r \in Set(adder.list) /\ r \in Req
      /\ r \in RowsHeld /\ r \notin finished /\ committed[r] = fill[r]
      /\ r # chunked => fill[r] = InputLen(r)
  BY <1>0, PrefillRow
<1> HIDE DEF r
<1>2. SchedTypes /\ LengthsInv
  BY DEF BatchInv
<1>3. /\ out \in [Req -> Nat] /\ pre \in [Req -> Nat] /\ FinishLen(r) \in Nat
      /\ out[r] \in Nat /\ out[r] < FinishLen(r)
  BY Zenon, <1>1, <1>2, InputBound DEF SchedTypes
<1>4. \A q \in RowsHeld : q \in Req /\ prot[q] * PageSize <= committed[q]
  BY <1>2 DEF LengthsInv, RowsHeld
<1> HIDE DEF FinishLen
<1>5. CASE r = chunked
  <2>1. UNCHANGED <<mem, out, pre, finished>>
    BY <1>0, <1>5
  <2>2. RowsHeld' = RowsHeld /\ table' = table /\ prot' = prot
    BY <2>1 DEF mem, RowsHeld
  <2>3. RowsHeld' = RowsHeld \ (finished' \ finished)
    BY <2>1, <2>2
  <2>4. \A q \in RowsHeld' : Len(table'[q]) = Len(table[q]) /\ prot'[q] * PageSize <= committed[q]
    BY <1>4, <2>2
  <2>5. out'[r] = out[r] /\ out'[r] <= FinishLen(r) /\ out'[r] < FinishLen(r)
    BY <1>3, <2>1
  <2> QED
    BY <1>1, <1>3, <1>5, <2>1, <2>3, <2>4, <2>5 DEF r
<1>6. CASE r # chunked /\ (r \in to_finish \/ out[r] + 1 >= FinishLen(r))
  <2>1. out' = [out EXCEPT ![r] = @ + 1] /\ Finish(r) /\ finished' = finished \cup {r} /\ pre' = pre
    BY <1>0, <1>6
  <2>2. /\ RowsHeld' = RowsHeld \ {r}
        /\ \A q \in Req \ {r} : table'[q] = table[q] /\ prot'[q] = prot[q]
    BY <1>1, <2>1, FinishRows
  <2>3. \A q \in RowsHeld' : Len(table'[q]) = Len(table[q]) /\ prot'[q] * PageSize <= committed[q]
    BY <1>4, <2>2
  <2>4. RowsHeld' = RowsHeld \ (finished' \ finished)
    BY <1>1, <2>1, <2>2
  <2>5. /\ out' \in [Req -> Nat] /\ out'[r] = out[r] + 1
        /\ \A q \in Req \ {r} : out'[q] = out[q]
    BY <1>1, <1>3, <2>1
  <2>6. out'[r] <= FinishLen(r) /\ r \in finished'
    BY <1>3, <2>1, <2>5
  <2> QED
    BY <1>1, <1>3, <1>6, <2>1, <2>3, <2>4, <2>5, <2>6 DEF r
<1>7. CASE r # chunked /\ ~ (r \in to_finish \/ out[r] + 1 >= FinishLen(r))
  <2>1. out' = [out EXCEPT ![r] = @ + 1] /\ Stash(r) /\ finished' = finished
    BY <1>0, <1>7
  <2>2. /\ RowsHeld' = RowsHeld
        /\ \A q \in Req : Len(table'[q]) = Len(table[q])
        /\ \A q \in Req \ {r} : prot'[q] = prot[q]
        /\ prot'[r] * PageSize <= fill[r] /\ pre' \in [Req -> Nat]
    BY <1>1, <1>2, <2>1, StashRows DEF RowsHeld
  <2>3. \A q \in RowsHeld' : Len(table'[q]) = Len(table[q]) /\ prot'[q] * PageSize <= committed[q]
    BY <1>1, <1>4, <2>2
  <2>4. RowsHeld' = RowsHeld \ (finished' \ finished)
    BY <2>1, <2>2
  <2>5. /\ out' \in [Req -> Nat] /\ out'[r] = out[r] + 1
        /\ \A q \in Req \ {r} : out'[q] = out[q]
    BY <1>1, <1>3, <2>1
  <2>6. out'[r] < FinishLen(r) /\ out'[r] <= FinishLen(r)
    BY <1>3, <1>7, <2>5
  <2> QED
    BY <1>1, <1>7, <2>1, <2>2, <2>3, <2>4, <2>5, <2>6 DEF r
<1> QED
  BY <1>5, <1>6, <1>7

LEMMA BatchPrefillResult ==
  ASSUME MemInv, BatchInv, PrefillResult
  PROVE  BatchInv'
<1>0. /\ phase = "prefill_result" /\ step <= Len(adder.list) /\ step' = step + 1
      /\ UNCHANGED <<fill, committed, to_finish, gone, sched, goal, phase, paused>>
  BY Zenon DEF PrefillResult
<1>1. PICK r \in Req :
      /\ r = adder.list[step] /\ r \in RowsHeld /\ r \in Set(adder.list) /\ r \notin finished
      /\ step \in DOMAIN adder.list
      /\ committed[r] = fill[r] /\ (r # chunked => fill[r] = InputLen(r))
      /\ finished' = finished \/ (r # chunked /\ finished' = finished \cup {r})
      /\ RowsHeld' = RowsHeld \ (finished' \ finished)
      /\ \A q \in RowsHeld' : Len(table'[q]) = Len(table[q])
                              /\ prot'[q] * PageSize <= committed[q]
      /\ pre' \in [Req -> Nat] /\ out' \in [Req -> Nat]
      /\ \A q \in Req \ {r} : out'[q] = out[q]
      /\ out'[r] = IF r = chunked THEN out[r] ELSE out[r] + 1
      /\ out'[r] <= FinishLen(r) /\ (r \notin finished' => out'[r] < FinishLen(r))
  BY PrefillEffect
<1>2. Stage = "prefill_result" /\ Stage' = "prefill_result" /\ SchedTypes /\ LengthsInv
  BY <1>0 DEF Stage, BatchInv
<1>3. UNCHANGED <<fill, committed, to_finish, gone, arrived, waiting, running, spec, last, chunked,
                  full, adder, goal, phase, paused>> /\ Chunked' = Chunked
  BY <1>0 DEF sched, Chunked
<1>4. last = <<>> /\ Set(last) = {} /\ Chunked \subseteq Set(adder.list)
      /\ Set(adder.list) \cap Set(waiting) = {} /\ Set(adder.list) \cap Set(running) = {}
      /\ Set(adder.list) \cap gone = {} /\ IsInjective(adder.list)
  BY <1>2, EmptySet DEF BatchInv, StageInv, HeadStages, PlacesInv
<1>5. /\ step \in Nat /\ Len(adder.list) \in Nat /\ DOMAIN adder.list = 1 .. Len(adder.list)
      /\ step \in 1 .. Len(adder.list)
  BY Zenon, <1>1, <1>2, ListTypes, SetType DEF SchedTypes
<1>6. \A i \in DOMAIN adder.list : adder.list[i] = r <=> i = step
  BY <1>1, <1>4 DEF IsInjective
<1>7. RowsHeld = ((Set(running) \cup Set(last) \cup Set(adder.list)) \ finished) \cup Chunked
  BY <1>2 DEF BatchInv, RowsInv
<1>8. finished \subseteq finished' /\ finished' \subseteq finished \cup {r}
      /\ Chunked \cap finished' = {} /\ chunked \notin finished'
  <2>1. chunked \notin finished
    BY DEF BatchInv, PlacesInv
  <2> QED
    BY <1>1, <2>1 DEF Chunked
<1>9. SchedTypes'
  <2>1. step' \in Nat
    BY <1>0, <1>5
  <2>2. finished' \subseteq Req
    BY <1>2, <1>8 DEF SchedTypes
  <2> QED
    BY Zenon, <1>1, <1>2, <1>3, <2>1, <2>2 DEF SchedTypes
<1>10. PlacesInv'
  <2>1. /\ r \notin Set(waiting) /\ r \notin gone /\ r \in Set(adder.list) /\ PlacesInv
    BY <1>1, <1>4 DEF BatchInv
  <2> QED
    BY <1>3, <1>8, <2>1 DEF PlacesInv
<1>11. StageInv'
  <2>1. step' \in 1 .. Len(adder.list) + 1
    BY <1>0, <1>5
  <2>2. ASSUME NEW i \in step' .. Len(adder.list) PROVE adder.list[i] \notin finished'
    <3>1. i \in step .. Len(adder.list) /\ i \in DOMAIN adder.list /\ i # step
      BY <1>0, <1>5, <2>2
    <3>2. adder.list[i] \notin finished
      BY <1>2, <3>1 DEF BatchInv, StageInv
    <3> QED
      BY <1>6, <1>8, <3>1, <3>2
  <2> QED
    BY <1>2, <1>3, <1>4, <2>1, <2>2 DEF StageInv, HeadStages, AddStages, DecodeStages, CleanStages
<1>12. RowsInv'
  <2>1. Set(waiting) \cap RowsHeld' = {}
    BY <1>1 DEF BatchInv, RowsInv
  <2>2. RowsHeld \cap finished = {}
    BY <1>7, <1>8
  <2>3. RowsHeld' = ((Set(running) \cup Set(last) \cup Set(adder.list)) \ finished') \cup Chunked
    BY <1>1, <1>7, <1>8, <2>2
  <2> QED
    BY <1>2, <1>3, <2>1, <2>3 DEF RowsInv
<1>13. LengthsInv'
  <2>1. \A q \in Req : q # r => InputLen(q)' = InputLen(q)
    BY <1>1 DEF InputLen
  <2>2. \A q \in Req : FinishLen(q)' = FinishLen(q)
    BY DEF FinishLen
  <2>3. /\ InputLen(r)' = IF r = chunked THEN InputLen(r) ELSE InputLen(r) + 1
        /\ InputLen(r) \in Nat
        /\ r # chunked => committed[r] = InputLen(r)' - 1
    <3>1. PromptLen[r] \in Nat /\ out[r] \in Nat /\ InputLen(r) = PromptLen[r] + out[r]
      BY Zenon, <1>1, <1>2, ParamTypes DEF InputLen, SchedTypes
    <3>2. InputLen(r)' = PromptLen[r] + out'[r]
      BY DEF InputLen
    <3>3. r # chunked => fill[r] = InputLen(r) /\ committed[r] = fill[r] /\ out'[r] = out[r] + 1
      BY <1>1
    <3>4. r = chunked => out'[r] = out[r]
      BY <1>1
    <3> QED
      BY <3>1, <3>2, <3>3, <3>4
  <2>4. ASSUME NEW q \in RowsHeld'
        PROVE  /\ prot'[q] * PageSize <= committed'[q] /\ committed'[q] <= InputLen(q)'
               /\ Len(table'[q]) = PagesFor(committed'[q] + 0)
    <3>1. q \in Req /\ q \in RowsHeld
      BY <1>1, <2>4 DEF RowsHeld
    <3>2. committed[q] \in Nat /\ committed[q] <= InputLen(q) /\ Len(table[q]) = PagesFor(committed[q] + 0)
          /\ InputLen(q) \in Nat
      BY Zenon, <1>2, <3>1, InputBound DEF LengthsInv, SchedTypes
    <3>3. InputLen(q) <= InputLen(q)' /\ InputLen(q)' \in Nat
      BY <2>1, <2>3, <3>1, <3>2
    <3> QED
      BY <1>1, <1>3, <2>4, <3>2, <3>3
  <2>5. ASSUME NEW q \in RowsHeld', q \in Set(running') \cup Set(last'), q # chunked'
        PROVE  committed'[q] = InputLen(q)' - 1
    <3>1. q \in Req /\ q \in RowsHeld /\ q \in Set(running) \cup Set(last) /\ q # r /\ q # chunked
      BY <1>1, <1>3, <1>4, <2>5 DEF RowsHeld
    <3> QED
      BY <1>2, <1>3, <2>1, <3>1 DEF LengthsInv
  <2>6. ASSUME NEW q \in Req
        PROVE  out'[q] <= FinishLen(q)' /\ (q \notin finished' => out'[q] < FinishLen(q)')
    BY <1>1, <1>2, <1>8, <2>2 DEF LengthsInv
  <2>7. ASSUME NEW i \in DOMAIN adder.list
        PROVE  (LET q == adder.list[i]
                IN  /\ q = chunked => committed[q] = fill[q] /\ fill[q] < InputLen(q)
                    /\ q # chunked /\ i >= step => committed[q] = fill[q] /\ fill[q] = InputLen(q)
                    /\ q # chunked /\ q \notin finished /\ i < step =>
                         committed[q] = InputLen(q) - 1)'
    <3> DEFINE q == adder.list[i]
    <3>1. PICK p \in Req : p = q
      BY <1>2, <1>5, ListTypes
    <3>2. /\ p = chunked => committed[p] = fill[p] /\ fill[p] < InputLen(p)
          /\ p # chunked /\ i >= step => committed[p] = fill[p] /\ fill[p] = InputLen(p)
          /\ p # chunked /\ p \notin finished /\ i < step => committed[p] = InputLen(p) - 1
      BY <1>2, <3>1 DEF LengthsInv
    <3>3. i \in Nat /\ (i >= step' => i >= step /\ i # step) /\ (i < step' => i = step \/ i < step)
      BY <1>0, <1>5
    <3>4. p = r <=> i = step
      BY <1>6, <3>1
    <3>5. (p = q)' /\ fill' = fill /\ committed' = committed /\ chunked' = chunked
      BY <1>3, <3>1
    <3>6. p # r => InputLen(p)' = InputLen(p)
      BY <2>1
    <3>7. p = chunked => InputLen(p)' = InputLen(p)
      BY <2>1, <2>3
    <3> HIDE DEF q
    <3>8. /\ p = chunked' => committed'[p] = fill'[p] /\ fill'[p] < InputLen(p)'
          /\ p # chunked' /\ i >= step' => committed'[p] = fill'[p] /\ fill'[p] = InputLen(p)'
          /\ p # chunked' /\ p \notin finished' /\ i < step' => committed'[p] = InputLen(p)' - 1
      BY <1>8, <2>3, <3>2, <3>3, <3>4, <3>5, <3>6, <3>7
    <3> QED
      BY <3>5, <3>8 DEF q, InputLen
  <2>8. DOMAIN adder'.list = DOMAIN adder.list /\ Stage' = "prefill_result"
    BY <1>2, <1>3
  <2> QED
    BY <2>4, <2>5, <2>6, <2>7, <2>8 DEF LengthsInv, HeadStages
<1>14. AddingInv'
  BY <1>2 DEF AddingInv
<1> QED
  BY <1>9, <1>10, <1>11, <1>12, <1>13, <1>14 DEF BatchInv

-----------------------------------------------------------------------------
(* The batch invariant: pausing and admission.                             *)

\* What pause_generation(mode="retract") leaves of the batches.
LEMMA PauseRetractEffect ==
  ASSUME BatchInv, SpecAligned, PauseRetract
  PROVE  /\ running' \in Seq(Req) /\ IsInjective(running')
         /\ Set(running') = (Set(running) \cup Set(last)) \ finished
         /\ (phase' = "recv" /\ running' = <<>>) \/ (phase' = "pause_release" /\ running' # <<>>)
         /\ full' \in BOOLEAN /\ spec' \in Seq(Req)
         /\ phase = "recv" /\ last' = <<>> /\ paused' = TRUE /\ step' = 1 /\ chunked' = NoReq
         /\ UNCHANGED <<mem, kvs, reqs, arrived, waiting, adder, goal>>
<1>1. PICK k \in KeepIndices(last, finished) :
        LET more == At(last, k)
            merged == running \o more
            mergedSpec == IF more = <<>> THEN spec ELSE MergedSpec(more)
        IN  /\ phase = "recv"
            /\ \E kept \in KeepIndices(merged, finished) :
                 /\ running' = At(merged, kept)
                 /\ spec' = IF kept = <<>> THEN mergedSpec ELSE FilteredSpec(mergedSpec, kept)
                 /\ phase' = IF kept = <<>> THEN "recv" ELSE "pause_release"
            /\ full' = (full /\ merged = <<>>)
            /\ chunked' = ChunkedAfter(merged)
            /\ paused' = TRUE /\ last' = <<>> /\ step' = 1
            /\ UNCHANGED <<mem, kvs, reqs, arrived, waiting, adder, goal>>
  BY Zenon DEF PauseRetract
<1> DEFINE more == At(last, k)
           merged == running \o more
           mergedSpec == IF more = <<>> THEN spec ELSE MergedSpec(more)
<1>2. phase = "recv" /\ Stage = "recv" /\ SchedTypes /\ IsInjective(running) /\ IsInjective(last)
      /\ Set(running) \cap Set(last) = {}
  BY <1>1 DEF Stage, BatchInv, PlacesInv
<1>3. running \in Seq(Req) /\ last \in Seq(Req) /\ spec \in Seq(Req)
  BY <1>2 DEF SchedTypes
<1>4. /\ more \in Seq(Req) /\ Set(more) = Set(last) \ finished /\ IsInjective(more)
  BY <1>2, <1>3, FilterFacts
<1>5. mergedSpec \in Seq(Req)
  <2> HIDE DEF more
  <2>1. spec \o more \in Seq(Req)
    BY <1>3, <1>4
  <2> QED
    BY <1>3, <1>4, <2>1 DEF MergedSpec
<1>6. PICK kept \in KeepIndices(merged, finished) :
        /\ running' = At(merged, kept)
        /\ spec' = IF kept = <<>> THEN mergedSpec ELSE FilteredSpec(mergedSpec, kept)
        /\ phase' = IF kept = <<>> THEN "recv" ELSE "pause_release"
  BY <1>1
<1>7. /\ full' = (full /\ merged = <<>>)
      /\ chunked' = ChunkedAfter(merged)
      /\ paused' = TRUE /\ last' = <<>> /\ step' = 1
      /\ UNCHANGED <<mem, kvs, reqs, arrived, waiting, adder, goal>>
  BY <1>1
<1> HIDE DEF more, mergedSpec
<1>8. /\ merged \in Seq(Req) /\ Set(merged) = Set(running) \cup (Set(last) \ finished)
      /\ IsInjective(merged)
  BY <1>2, <1>3, <1>4, SetConcat
<1>9. merged = <<>> => Set(last) \ finished = {}
  BY <1>8, EmptySet
<1> HIDE DEF merged
<1>10. /\ running' \in Seq(Req) /\ Set(running') = Set(merged) \ finished /\ IsInjective(running')
       /\ running' = <<>> <=> kept = <<>>
  BY <1>6, <1>8, FilterFacts
<1>11. Set(running') = (Set(running) \cup Set(last)) \ finished
  BY <1>8, <1>10
<1>12. spec' \in Seq(Req)
  <2>1. SpecAligned'
    BY <1>2, AlignedPauseRetract
  <2>2. running' # <<>> => spec' = running'
    BY <2>1 DEF SpecAligned
  <2> QED
    BY <1>5, <1>6, <1>10, <2>2
<1>13. chunked' = NoReq
  <2>1. CASE merged = <<>>
    <3>1. Chunked \subseteq Set(last) /\ chunked \notin finished
      BY <1>2 DEF BatchInv, StageInv, PlacesInv, HeadStages
    <3>2. chunked = NoReq
      BY <1>9, <2>1, <3>1 DEF Chunked
    <3> QED
      BY <1>7, <2>1, <3>2 DEF ChunkedAfter
  <2>2. CASE merged # <<>>
    BY <1>7, <2>2 DEF ChunkedAfter
  <2> QED
    BY <2>1, <2>2
<1>14. full' \in BOOLEAN
  BY <1>7
<1> QED
  BY <1>2, <1>6, <1>7, <1>10, <1>11, <1>12, <1>13, <1>14

LEMMA BatchPauseRetract ==
  ASSUME BatchInv, SpecAligned, PauseRetract
  PROVE  BatchInv'
<1>1. /\ running' \in Seq(Req) /\ IsInjective(running')
      /\ Set(running') = (Set(running) \cup Set(last)) \ finished
      /\ (phase' = "recv" /\ running' = <<>>) \/ (phase' = "pause_release" /\ running' # <<>>)
      /\ full' \in BOOLEAN /\ spec' \in Seq(Req)
      /\ phase = "recv" /\ last' = <<>> /\ paused' = TRUE /\ step' = 1 /\ chunked' = NoReq
      /\ UNCHANGED <<mem, kvs, reqs, arrived, waiting, adder, goal>>
  BY PauseRetractEffect
<1>2. Stage = "recv" /\ SchedTypes /\ LengthsInv /\ Stage' = phase'
  BY <1>1 DEF Stage, BatchInv
<1>3. adder = NoAdder /\ Set(adder.list) = {}
  BY <1>2, NoAdderFacts DEF AddStages
<1>4. UNCHANGED <<out, pre, fill, committed, finished, to_finish, gone, table, prot>>
      /\ RowsHeld' = RowsHeld /\ Chunked' = {} /\ Set(last') = {} /\ IsInjective(last')
  BY <1>1, EmptySet DEF mem, reqs, RowsHeld, Chunked
<1>5. RowsHeld = Set(running')
  BY <1>1, <1>2, HeadRows DEF HeadStages
<1>6. Chunked \subseteq Set(last)
  BY <1>2 DEF BatchInv, StageInv, HeadStages
<1>7. SchedTypes'
  <2>1. phase' \in Phases /\ phase' # "evict"
    BY <1>1 DEF Phases
  <2>2. last' \in Seq(Req) /\ chunked' \in Req \cup {NoReq} /\ step' \in Nat /\ paused' \in BOOLEAN
    BY <1>1
  <2>3. running' \in Seq(Req) /\ spec' \in Seq(Req) /\ full' \in BOOLEAN
        /\ UNCHANGED <<arrived, waiting, adder, goal>>
    BY <1>1
  <2> QED
    BY Zenon, <1>2, <1>4, <2>1, <2>2, <2>3 DEF SchedTypes
<1>8. PlacesInv'
  <2>1. PlacesInv
    BY DEF BatchInv
  <2>2. NoReq \notin Set(running') /\ NoReq \notin finished /\ NoReq \notin gone /\ NoReq \notin Set(waiting)
    BY <1>1, <1>2, ListTypes, ParamTypes, SetType DEF SchedTypes
  <2> QED
    BY <1>1, <1>3, <1>4, <1>6, <2>1, <2>2 DEF PlacesInv
<1>9. StageInv'
  <2>1. step' \in 1 .. Len(running') + 1
    <3>1. Len(running') \in Nat
      BY <1>1
    <3> QED
      BY <1>1, <3>1
  <2>2. Set(running') \cap finished' = {}
    BY <1>1, <1>4
  <2> QED
    BY <1>1, <1>2, <1>3, <1>4, <2>1, <2>2 DEF StageInv, HeadStages, AddStages, DecodeStages, CleanStages
<1>10. RowsInv'
  <2>1. Set(waiting') \cap RowsHeld' = {}
    BY <1>1, <1>4 DEF BatchInv, RowsInv
  <2>2. {running'[i] : i \in 1 .. Len(running')} = Set(running')
    BY <1>1 DEF Set
  <2> QED
    BY <1>1, <1>2, <1>3, <1>4, <1>5, <2>1, <2>2 DEF RowsInv
<1>11. LengthsInv'
  <2>1. phase' = "recv" => RowsHeld' = {}
    BY <1>1, <1>4, <1>5, EmptySet
  <2> QED
    BY <1>1, <1>2, <1>4, <2>1 DEF LengthsInv, FinishLen, InputLen
<1>12. AddingInv'
  BY <1>1, <1>2 DEF AddingInv
<1> QED
  BY <1>7, <1>8, <1>9, <1>10, <1>11, <1>12 DEF BatchInv

\* The tokens of a prefill batch are a number.
LEMMA PrefillTokensType ==
  ASSUME MemInv, BatchInv, Stage \in {"adding", "prefill_alloc"}
  PROVE  /\ Total([r \in Req |-> fill[r] - pre[r]], Set(adder.list)) \in Nat
         /\ Len(adder.list) \in Nat /\ IsFiniteSet(Set(adder.list))
<1> DEFINE f == [r \in Req |-> fill[r] - pre[r]]
<1>1. adder.list \in Seq(Req)
  BY ListTypes DEF BatchInv
<1>2. \A r \in Set(adder.list) : f[r] \in Nat
  BY ListedRow
<1>3. IsFiniteSet(Set(adder.list)) /\ Len(adder.list) \in Nat
  BY <1>1, SetType
<1> HIDE DEF f
<1>4. Total(f, Set(adder.list)) \in Nat
  BY <1>2, <1>3, SumNat
<1> QED
  BY <1>3, <1>4 DEF f

LEMMA BatchFinishAdder ==
  ASSUME MemInv, BatchInv, FinishAdder
  PROVE  BatchInv'
<1>0. /\ phase = "adding"
      /\ UNCHANGED <<mem, kvs, reqs, arrived, running, spec, last, full>>
  BY Zenon DEF FinishAdder
<1>1. Stage = "adding" /\ SchedTypes
  BY <1>0 DEF Stage, BatchInv
<1>2. UNCHANGED <<out, pre, fill, committed, finished, to_finish, gone, table, prot>>
      /\ RowsHeld' = RowsHeld
  BY <1>0 DEF mem, reqs, RowsHeld
<1>3. last = <<>> /\ Set(last) = {} /\ Set(adder.list) \cap finished = {}
  BY <1>1, EmptySet DEF BatchInv, StageInv, HeadStages
<1>4. CASE adder.list = <<>>
  <2>1. /\ adder' = NoAdder /\ phase' = "update" /\ UNCHANGED <<goal, step, paused, waiting, chunked>>
    BY <1>4, Zenon DEF FinishAdder, Enter
  <2>2. Stage' = "update"
    BY <2>1 DEF Stage
  <2>3. chunked = NoReq /\ Chunked = {} /\ Chunked' = {}
    <3>1. chunked # NoReq => adder.list = <<chunked>>
      BY <1>1 DEF BatchInv, AddingInv
    <3> QED
      BY <1>4, <2>1, <3>1 DEF Chunked
  <2>4. Set(adder.list) = {} /\ Set(adder'.list) = {} /\ IsInjective(adder'.list)
    BY <1>4, <2>1, EmptySet DEF NoAdder
  <2>5. SchedTypes'
    <3>1. NoAdder \in Adders
      <4>1. <<>> \in Seq(Req)
        OBVIOUS
      <4> QED
        BY <4>1 DEF NoAdder, Adders
    <3> QED
      BY <1>0, <1>1, <1>2, <2>1, <3>1 DEF SchedTypes, Phases
  <2>6. PlacesInv'
    BY <1>0, <1>2, <2>1, <2>3, <2>4 DEF BatchInv, PlacesInv
  <2>7. StageInv'
    BY <1>0, <1>3, <2>1, <2>2, <2>3 DEF StageInv, HeadStages, AddStages, DecodeStages, CleanStages
  <2>8. RowsInv'
    <3>1. RowsHeld \ Set(adder.list) = Set(running) \ finished /\ Set(waiting) \cap RowsHeld = {}
      BY <1>1 DEF BatchInv, RowsInv
    <3> QED
      BY <1>0, <1>2, <1>3, <2>1, <2>2, <2>3, <2>4, <3>1 DEF RowsInv
  <2>9. LengthsInv'
    BY <1>0, <1>1, <1>2, <2>1, <2>2 DEF BatchInv, LengthsInv, FinishLen, InputLen, HeadStages
  <2>10. AddingInv'
    BY <2>2 DEF AddingInv
  <2> QED
    BY <2>5, <2>6, <2>7, <2>8, <2>9, <2>10 DEF BatchInv
<1>5. CASE adder.list # <<>>
  <2> DEFINE n == EvictTokens(Total([r \in Req |-> fill[r] - pre[r]], Set(adder.list)),
                              Len(adder.list))
  <2>1. /\ \E k \in KeepIndices(waiting, Set(adder.list)) : waiting' = At(waiting, k)
        /\ chunked' = IF adder.new = NoReq THEN chunked ELSE adder.new
        /\ EvictThen(n, "prefill_alloc") /\ UNCHANGED adder
    BY <1>5 DEF FinishAdder, Unadmitted
  <2>2. n \in Nat
    BY Zenon, <1>1, PrefillTokensType, EvictTokensType
  <2> HIDE DEF n
  <2>3. /\ goal' \in [need : Nat, then : Phases] /\ goal'.then \in EvictStages
        /\ phase' = "evict" /\ Stage' = "prefill_alloc" /\ UNCHANGED <<step, paused>>
    BY <2>1, <2>2, EvictThenTypes DEF EvictStages
  <2>4. /\ waiting' \in Seq(Req) /\ Set(waiting') = Set(waiting) \ Set(adder.list)
        /\ IsInjective(waiting')
    <3>1. waiting \in Seq(Req) /\ IsInjective(waiting)
      BY <1>1 DEF SchedTypes, BatchInv, PlacesInv
    <3> QED
      BY <2>1, <3>1, FilterFacts
  <2>5. /\ chunked # NoReq => adder.list = <<chunked>> /\ adder.new = NoReq
        /\ adder.new # NoReq => adder.new \in Set(adder.list)
        /\ \A r \in Set(adder.list) : fill[r] < InputLen(r) <=> r \in {chunked, adder.new}
    BY <1>1 DEF BatchInv, AddingInv
  <2>6. chunked # NoReq => chunked \in Set(adder.list)
    <3>1. chunked # NoReq => adder.list[1] = chunked /\ 1 \in DOMAIN adder.list
      BY <2>5
    <3> QED
      BY <3>1 DEF Set
  <2>7. chunked' \in Set(adder.list) \cup {NoReq} /\ Chunked' \subseteq Set(adder.list)
        /\ Chunked \subseteq Set(adder.list)
    BY <2>1, <2>5, <2>6 DEF Chunked
  <2>8. \A r \in Set(adder.list) : r \in Req /\ r # NoReq
    BY <1>1, ListTypes, ParamTypes
  <2>9. \A r \in Set(adder.list) : fill[r] < InputLen(r) <=> r = chunked'
    BY <2>1, <2>5, <2>8
  <2>10. SchedTypes'
    BY Zenon, <1>0, <1>1, <1>2, <2>1, <2>3, <2>4, <2>7, <2>8 DEF SchedTypes, Phases
  <2>11. PlacesInv'
    <3>1. PlacesInv
      BY DEF BatchInv
    <3>2. chunked' \notin finished /\ chunked' \notin gone /\ chunked' \notin Set(running)
          /\ chunked' \notin Set(waiting')
      <4>1. CASE chunked' = NoReq
        BY Zenon, <1>1, <2>4, <4>1, ListTypes, ParamTypes DEF SchedTypes
      <4>2. CASE chunked' \in Set(adder.list)
        BY <1>3, <2>4, <3>1, <4>2 DEF PlacesInv
      <4> QED
        BY <2>7, <4>1, <4>2
    <3>3. arrived' = Set(waiting') \cup Set(running') \cup Set(last') \cup Set(adder'.list)
                       \cup Chunked' \cup finished' \cup gone'
      BY <1>0, <1>2, <2>1, <2>4, <2>7, <3>1 DEF PlacesInv
    <3> QED
      BY <1>0, <1>2, <2>1, <2>4, <3>1, <3>2, <3>3 DEF PlacesInv
  <2>12. StageInv'
    <3>1. Set(adder.list) \cap Set(waiting') = {}
      BY <2>4
    <3> QED
      BY <1>0, <1>2, <1>3, <2>1, <2>3, <2>7, <3>1 DEF StageInv, HeadStages, AddStages, DecodeStages,
         CleanStages
  <2>13. RowsInv'
    <3>1. /\ RowsHeld \ Set(adder.list) = Set(running) \ finished
          /\ \A i \in 2 .. Len(adder.list) : adder.list[i] \notin RowsHeld
          /\ Set(waiting') \cap RowsHeld = {}
      BY <1>1, <2>4 DEF BatchInv, RowsInv
    <3> QED
      BY <1>0, <1>2, <2>1, <2>3, <3>1 DEF RowsInv
  <2>14. LengthsInv'
    <3>1. LengthsInv
      BY DEF BatchInv
    <3>2. \A r \in Req : InputLen(r)' = InputLen(r) /\ FinishLen(r)' = FinishLen(r)
      BY <1>2 DEF InputLen, FinishLen
    <3>3. \A r \in Set(adder'.list) :
            /\ prot'[r] * PageSize <= pre'[r] /\ pre'[r] < fill'[r] /\ fill'[r] <= InputLen(r)'
            /\ IF r \in RowsHeld' THEN committed'[r] = pre'[r] ELSE pre'[r] = prot'[r] * PageSize
      BY <1>1, <1>2, <2>1, <2>8, <3>1, <3>2 DEF LengthsInv
    <3>4. \A r \in Set(adder'.list) : fill'[r] < InputLen(r)' <=> r = chunked'
      BY <1>2, <2>1, <2>8, <2>9, <3>2
    <3>5. \A r \in RowsHeld' \cap (Set(running') \cup Set(last')) : committed'[r] = InputLen(r)' - 1
      <4> SUFFICES ASSUME NEW r \in RowsHeld, r \in Set(running)
                   PROVE  committed[r] = InputLen(r) - 1
        BY <1>0, <1>2, <1>3, <3>2 DEF RowsHeld
      <4>1. r # chunked
        BY DEF BatchInv, PlacesInv
      <4> QED
        BY <1>1, <3>1, <4>1 DEF LengthsInv
    <3>6. /\ \A r \in Req : out'[r] <= FinishLen(r)' /\ (r \notin finished' => out'[r] < FinishLen(r)')
          /\ \A r \in RowsHeld' :
               /\ prot'[r] * PageSize <= committed'[r] /\ committed'[r] <= InputLen(r)'
               /\ Len(table'[r]) = PagesFor(committed'[r] + (IF Stage' = "verify" THEN Block ELSE 0))
      BY <1>1, <1>2, <2>3, <3>1, <3>2 DEF LengthsInv, RowsHeld
    <3> QED
      BY <2>3, <3>3, <3>4, <3>5, <3>6 DEF LengthsInv, HeadStages
  <2>15. AddingInv'
    BY <2>3 DEF AddingInv
  <2> QED
    BY <2>10, <2>11, <2>12, <2>13, <2>14, <2>15 DEF BatchInv
<1> QED
  BY <1>4, <1>5

-----------------------------------------------------------------------------
(* The adder's budget.                                                     *)

\* Free pages and cached paths can be counted: every cached path has a page of
\* its own.
LEMMA PagesFinite ==
  ASSUME MemInv
  PROVE  /\ IsFiniteSet(free) /\ Cardinality(free) \in Nat
         /\ IsFiniteSet(Cached) /\ Cardinality(Cached) \in Nat
         /\ Cardinality(free) + Cardinality(Cached) <= NumPages
<1>1. IsFiniteSet(Page) /\ Cardinality(Page) = NumPages
  BY PageTypes, CardUpto DEF Page
<1>2. free \subseteq Page
  BY DEF MemInv, MemTypeOK
<1> DEFINE T == {cache[p] : p \in Cached}
           f == [p \in Cached |-> cache[p]]
<1>3. T \subseteq Page /\ T \cap free = {}
  BY DEF MemInv, MemTypeOK, NoSharing
<1>4. f \in Injection(Cached, T)
  <2>1. \A p, q \in Cached : cache[p] = cache[q] => p = q
    BY DEF MemInv, NoSharing
  <2>2. f \in [Cached -> T]
    OBVIOUS
  <2>3. \A p, q \in Cached : f[p] = f[q] => p = q
    BY <2>1
  <2> HIDE DEF f
  <2> QED
    BY <2>2, <2>3 DEF Injection, IsInjective
<1>5. IsFiniteSet(free) /\ IsFiniteSet(T) /\ IsFiniteSet(free \cup T)
  BY <1>1, <1>2, <1>3, FS_Subset, FS_Union
<1>6. IsFiniteSet(Cached) /\ Cardinality(Cached) <= Cardinality(T)
  BY <1>4, <1>5, FS_Injection
<1>7. Cardinality(free \cup T) <= NumPages
  BY <1>1, <1>2, <1>3, FS_Subset
<1>8. Cardinality(free \cup T) = Cardinality(free) + Cardinality(T) - Cardinality(free \cap T)
  BY <1>5, FS_Union
<1>9. Cardinality(free \cap T) = 0
  BY <1>3, FS_EmptySet
<1>10. Cardinality(free) \in Nat /\ Cardinality(T) \in Nat /\ Cardinality(Cached) \in Nat
  BY <1>5, <1>6, FS_CardinalityType
<1> QED
  BY <1>5, <1>6, <1>7, <1>8, <1>9, <1>10, PageTypes

LEMMA ReserveTypes ==
  ASSUME MemInv, NEW pn
  PROVE  /\ IsFiniteSet(Evictable(pn)) /\ Cardinality(Evictable(pn)) \in Nat
         /\ Reserve(pn) \in Nat /\ Available \in Nat
         /\ AvailableAndEvictable(pn) = Reserve(pn) * PageSize
         /\ AvailableAndEvictable(pn) \in Nat
<1>1. IsFiniteSet(Evictable(pn)) /\ Cardinality(Evictable(pn)) \in Nat
  <2>1. Evictable(pn) \subseteq Cached
    BY DEF Evictable
  <2> QED
    BY <2>1, PagesFinite, FS_Subset, FS_CardinalityType
<1> DEFINE a == Cardinality(free)
           b == Cardinality(Evictable(pn))
<1>2. a \in Nat /\ b \in Nat
  BY <1>1, PagesFinite
<1>3. Available = a * PageSize /\ AvailableAndEvictable(pn) = a * PageSize + b * PageSize
      /\ Reserve(pn) = a + b
  BY DEF Available, AvailableAndEvictable, Reserve
<1> HIDE DEF a, b
<1>4. (a + b) * PageSize = a * PageSize + b * PageSize
      /\ a * PageSize \in Nat /\ b * PageSize \in Nat /\ a + b \in Nat
  BY <1>2, PageTypes
<1> QED
  BY <1>1, <1>3, <1>4 DEF b

\* What the sums over the running batch and the next chunk are.
LEMMA ExpectedTypes ==
  ASSUME MemInv, SchedTypes, LengthsInv
  PROVE  Total([r \in Req |-> Expected(r)], Set(running)) \in Nat
<1>1. IsFiniteSet(Set(running)) /\ Set(running) \subseteq Req
  BY SetType DEF SchedTypes
<1> DEFINE f == [r \in Req |-> Expected(r)]
<1>2. ASSUME NEW r \in Set(running) PROVE f[r] \in Nat
  <2>1. /\ r \in Req /\ out[r] \in Nat /\ out[r] <= FinishLen(r) /\ FinishLen(r) <= MaxNew[r]
        /\ FinishLen(r) \in Nat /\ MaxNew[r] \in Nat /\ ClipMaxNew \in Nat
    BY <1>1, InputBound, ParamTypes
  <2>2. f[r] = Least(MaxNew[r] - out[r], ClipMaxNew)
    BY <2>1 DEF Expected
  <2> HIDE DEF FinishLen
  <2>3. Least(MaxNew[r] - out[r], ClipMaxNew) \in Nat
    BY <2>1 DEF Least
  <2> QED
    BY <2>2, <2>3
<1> HIDE DEF f
<1>3. Total(f, Set(running)) \in Nat
  BY <1>1, <1>2, SumNat
<1> QED
  BY <1>3 DEF f

\* A chunk has at least a token, and what is cut is a whole chunk or all that
\* the pool had room for.
LEMMA ChunkedLenFacts ==
  ASSUME NEW r \in Req, NEW rem \in Int, InputLen(r) \in Nat, pre[r] \in Nat, pre[r] < InputLen(r)
  PROVE  LET n == ChunkedLen(r, rem)
         IN  /\ n \in Nat /\ n >= 1 /\ n <= InputLen(r) - pre[r] /\ n <= ChunkSize
             /\ n < InputLen(r) - pre[r] => n = ChunkSize \/ n = rem
             /\ rem > 0 => n <= rem
<1>1. ChunkSize \in Nat /\ ChunkSize > 0
  BY ParamTypes
<1> QED
  BY <1>1 DEF ChunkedLen, Least

\* Rounding up to whole pages.
LEMMA AlignUpFacts ==
  ASSUME NEW n \in Nat
  PROVE  /\ AlignUp(n) \in Nat /\ n <= AlignUp(n) /\ AlignUp(n) < n + PageSize
         /\ \A k \in Nat : n <= k * PageSize => AlignUp(n) <= k * PageSize
<1>1. PagesFor(n) \in Nat
  BY PagesForBounds
<1>2. \A k \in Nat : n <= k * PageSize => AlignUp(n) <= k * PageSize
  BY <1>1, PagesForLeast, ScaleMonotone DEF AlignUp
<1> QED
  BY <1>1, <1>2, PagesForBounds, PageTypes DEF AlignUp

\* A chunk is whole pages.
LEMMA ChunkWhole ==
  AlignUp(ChunkSize) = ChunkSize
<1>1. ChunkSize \in Nat /\ ChunkSize % PageSize = 0
  BY ParamTypes
<1>2. PICK d \in Nat : ChunkSize = PageSize * d + (ChunkSize % PageSize)
  BY <1>1, PageTypes, DivMod
<1>3. ChunkSize = d * PageSize
  BY <1>1, <1>2, PageTypes
<1> QED
  BY <1>2, <1>3, PagesForWhole DEF AlignUp

\* The adder that a round of admission starts with.
Starting(est) == [NoAdder EXCEPT !.off = est, !.inp = MaxPrefillTokens, !.chunk = ChunkSize]

LEMMA StartingFacts ==
  ASSUME NEW est \in Nat
  PROVE  LET a == Starting(est)
         IN  /\ a \in Adders /\ a.list = <<>> /\ a.idx = 1 /\ a.new = NoReq
             /\ a.off = est /\ a.chunk = ChunkSize
<1>1. NoAdder \in Adders
  <2>1. <<>> \in Seq(Req)
    OBVIOUS
  <2> QED
    BY <2>1 DEF NoAdder, Adders
<1>2. MaxPrefillTokens \in Nat /\ ChunkSize \in Nat
  BY ParamTypes
<1>3. Starting(est) \in Adders
  <2> DEFINE a == NoAdder
             m == MaxPrefillTokens
             k == ChunkSize
  <2>1. a \in Adders /\ m \in Int /\ k \in Int
    BY <1>1, <1>2
  <2> HIDE DEF a, m, k
  <2>2. [a EXCEPT !.off = est, !.inp = m, !.chunk = k] \in Adders
    BY Zenon, <2>1 DEF Adders
  <2> QED
    BY <2>2 DEF Starting, a, m, k
<1>4. NoAdder.list = <<>> /\ NoAdder.idx = 1 /\ NoAdder.new = NoReq
  BY DEF NoAdder
<1> QED
  BY <1>1, <1>3, <1>4 DEF Starting, Adders

\* The adder after one addition.
LEMMA ChargedFacts ==
  ASSUME NEW a \in Adders, NEW r \in Req, NEW len \in Nat, NEW new \in Nat
  PROVE  LET b == Charged(a, r, len, new)
         IN  /\ b \in Adders /\ b.list = Append(a.list, r) /\ b.idx = a.idx /\ b.new = a.new
             /\ b.off = a.off + AlignUp(len) + new + PageSize
             /\ b.chunk = a.chunk - AlignUp(len)
<1>1. AlignUp(len) \in Nat /\ PageSize \in Nat
  BY AlignUpFacts, PageTypes
<1>2. Append(a.list, r) \in Seq(Req)
  BY DEF Adders
<1>3. /\ a.list \in Seq(Req) /\ a.off \in Nat /\ a.cur \in Nat /\ a.inp \in Int /\ a.chunk \in Int
  BY DEF Adders
<1> DEFINE b == Charged(a, r, len, new)
<1>4. /\ b.list = Append(a.list, r) /\ b.idx = a.idx /\ b.new = a.new
      /\ b.off = a.off + AlignUp(len) + new + PageSize
      /\ b.chunk = a.chunk - AlignUp(len)
  BY <1>1, <1>3 DEF Charged, Adders
<1>5. b \in Adders
  <2> DEFINE l == Append(a.list, r)
             e == AlignUp(len)
             x == a.off + e + new + PageSize
             y == a.cur + e + PageSize
             z == a.inp - e
             k == a.chunk - e
  <2>1. l \in Seq(Req) /\ x \in Nat /\ y \in Nat /\ z \in Int /\ k \in Int
    <3>1. /\ e \in Nat /\ PageSize \in Nat /\ a.off \in Nat /\ a.cur \in Nat /\ new \in Nat
          /\ a.inp \in Int /\ a.chunk \in Int
      BY <1>1, <1>3
    <3> HIDE DEF e
    <3>2. x \in Nat
      BY <3>1
    <3>4. y \in Nat
      BY <3>1
    <3>3. z \in Int
      BY <3>1
    <3>5. k \in Int
      BY <3>1
    <3> QED
      BY <1>2, <3>2, <3>3, <3>4, <3>5
  <2>2. b = [a EXCEPT !.list = l, !.off = x, !.cur = y, !.inp = z, !.chunk = k]
    BY Zenon DEF Charged
  <2> HIDE DEF l, x, y, z, k, b
  <2>3. [a EXCEPT !.list = l, !.off = x, !.cur = y, !.inp = z, !.chunk = k] \in Adders
    BY Zenon, <2>1 DEF Adders
  <2> QED
    BY <2>2, <2>3
<1> QED
  BY <1>4, <1>5

\* The plan for a prefill: nothing, the queue, or first of all the next chunk.
LEMMA PlanEffect ==
  ASSUME MemInv, BatchInv, PlanPrefill
  PROVE  \/ /\ phase' = "update" /\ chunked = NoReq
            /\ UNCHANGED <<fill, chunked, adder>> /\ full' \in BOOLEAN
         \/ /\ phase' = "adding" /\ chunked = NoReq
            /\ UNCHANGED <<fill, chunked, full>>
            /\ \E est \in Nat : adder' = Starting(est)
         \/ /\ phase' = "adding" /\ chunked # NoReq /\ UNCHANGED full
            /\ \E est \in Nat, up \in {0, 1} :
                 LET n == ChunkedLen(chunked, RemTotal(Starting(est), pin) - up)
                     cut == n < InputLen(chunked) - pre[chunked]
                 IN  /\ fill' = [fill EXCEPT ![chunked] = pre[chunked] + n]
                     /\ adder' = Charged(Starting(est), chunked, n,
                                  IF cut THEN 0 ELSE Least(MaxNew[chunked], ClipMaxNew))
                     /\ chunked' = IF cut THEN chunked ELSE NoReq
<1>0. SchedTypes /\ LengthsInv
  BY DEF BatchInv
<1> DEFINE most == Total([r \in Req |-> Expected(r)], Set(running))
<1>1. most \in Nat
  BY <1>0, ExpectedTypes

<1>3. CASE phase' = "update"
  BY Zenon, <1>0, <1>3 DEF PlanPrefill, Enter, SchedTypes
<1>4. CASE phase' # "update"
  <2>1. phase' = "adding" /\ UNCHANGED full
    BY <1>4, Zenon DEF PlanPrefill, Enter
  <2>2. PICK est \in 0 .. most, up \in {0, 1} :
          LET a0 == [NoAdder EXCEPT !.off = est, !.inp = MaxPrefillTokens, !.chunk = ChunkSize]
              n == ChunkedLen(chunked, RemTotal(a0, pin) - up)
              cut == n < InputLen(chunked) - pre[chunked]
          IN  IF chunked = NoReq
                THEN up = 0 /\ adder' = a0 /\ UNCHANGED <<fill, chunked>>
                ELSE /\ fill' = [fill EXCEPT ![chunked] = pre[chunked] + n]
                     /\ adder' = Charged(a0, chunked, n,
                          IF cut THEN 0 ELSE Least(MaxNew[chunked], ClipMaxNew))
                     /\ chunked' = IF cut THEN chunked ELSE NoReq
    BY <1>4, Zenon DEF PlanPrefill, Enter
  <2>3. est \in Nat
    BY <1>1
  <2> QED
    BY <2>1, <2>2, <2>3, Zenon DEF Starting
<1> QED
  BY <1>3, <1>4

LEMMA BatchPlanPrefill ==
  ASSUME MemInv, BatchInv, PlanPrefill
  PROVE  BatchInv'
<1>0. /\ phase = "plan" /\ UNCHANGED <<goal, step, paused>>
      /\ UNCHANGED <<mem, kvs, out, pre, committed, finished, to_finish, gone>>
      /\ UNCHANGED <<arrived, waiting, running, spec, last>>
  BY Zenon DEF PlanPrefill, Enter
<1>1. Stage = "plan" /\ SchedTypes
  BY <1>0 DEF Stage, BatchInv
<1>2. UNCHANGED <<table, prot>> /\ RowsHeld' = RowsHeld
  BY <1>0 DEF mem, RowsHeld
<1>3. /\ last = <<>> /\ Set(last) = {} /\ adder = NoAdder /\ Set(adder.list) = {}
      /\ adder.list = <<>>
  BY <1>1, EmptySet, NoAdderFacts DEF BatchInv, StageInv, HeadStages, AddStages
<1>4. RowsHeld = (Set(running) \ finished) \cup Chunked
  BY <1>1, <1>3 DEF BatchInv, RowsInv
<1>5. Set(waiting) \cap RowsHeld = {}
  BY DEF BatchInv, RowsInv
<1>6. \A r \in Req : FinishLen(r)' = FinishLen(r) /\ InputLen(r)' = InputLen(r)
  BY <1>0 DEF FinishLen, InputLen
<1>7. ASSUME Stage' \in {"update", "adding"}
      PROVE  /\ \A r \in Req : out'[r] <= FinishLen(r)' /\ (r \notin finished' => out'[r] < FinishLen(r)')
             /\ \A r \in RowsHeld' :
                  /\ prot'[r] * PageSize <= committed'[r] /\ committed'[r] <= InputLen(r)'
                  /\ Len(table'[r]) = PagesFor(committed'[r] + (IF Stage' = "verify" THEN Block ELSE 0))
             /\ \A r \in RowsHeld' \cap (Set(running') \cup Set(last')) :
                  committed'[r] = InputLen(r)' - 1
  <2>1. LengthsInv /\ chunked \notin Set(running)
    BY DEF BatchInv, PlacesInv
  <2>2. \A r \in RowsHeld' \cap (Set(running') \cup Set(last')) : committed'[r] = InputLen(r)' - 1
    <3> SUFFICES ASSUME NEW r \in RowsHeld, r \in Set(running)
                 PROVE  committed[r] = InputLen(r) - 1
      BY <1>0, <1>2, <1>3, <1>6 DEF RowsHeld
    <3> QED
      BY <1>1, <2>1 DEF LengthsInv
  <2>3. \A r \in RowsHeld : r \in Req
    BY DEF RowsHeld
  <2> QED
    BY <1>0, <1>1, <1>2, <1>6, <1>7, <2>1, <2>2, <2>3 DEF LengthsInv
<1>8. CASE phase' = "update" /\ chunked = NoReq
           /\ UNCHANGED <<fill, chunked, adder>> /\ full' \in BOOLEAN
  <2>1. Stage' = "update" /\ Chunked' = {} /\ Chunked = {}
    BY <1>8 DEF Stage, Chunked
  <2>2. SchedTypes'
    BY Zenon, <1>0, <1>1, <1>8 DEF SchedTypes, Phases
  <2>3. PlacesInv'
    BY <1>0, <1>8, <2>1 DEF BatchInv, PlacesInv
  <2>4. StageInv'
    BY <1>0, <1>3, <1>8, <2>1 DEF StageInv, HeadStages, AddStages, DecodeStages, CleanStages
  <2>5. RowsInv'
    BY <1>0, <1>2, <1>3, <1>4, <1>5, <1>8, <2>1 DEF RowsInv
  <2>6. LengthsInv'
    BY <1>7, <2>1 DEF LengthsInv, HeadStages
  <2>7. AddingInv'
    BY <2>1 DEF AddingInv
  <2> QED
    BY <2>2, <2>3, <2>4, <2>5, <2>6, <2>7 DEF BatchInv
<1>9. CASE phase' = "adding" /\ chunked = NoReq /\ UNCHANGED <<fill, chunked, full>>
           /\ \E est \in Nat : adder' = Starting(est)
  <2>1. Stage' = "adding" /\ Chunked' = {} /\ Chunked = {}
    BY <1>9 DEF Stage, Chunked
  <2>a. adder' \in Adders /\ adder'.list = <<>> /\ adder'.idx = 1 /\ adder'.new = NoReq
    BY <1>9, StartingFacts
  <2>b. Set(adder'.list) = {} /\ IsInjective(adder'.list) /\ Len(adder'.list) = 0
    BY <2>a, EmptySet
  <2>2. SchedTypes'
    BY <1>0, <1>1, <1>9, <2>a DEF SchedTypes, Phases
  <2>3. PlacesInv'
    BY <1>0, <1>3, <1>9, <2>1, <2>b DEF BatchInv, PlacesInv
  <2>4. StageInv'
    BY <1>0, <1>3, <1>9, <2>1, <2>b DEF StageInv, HeadStages, AddStages, DecodeStages, CleanStages
  <2>5. RowsInv'
    BY <1>0, <1>2, <1>3, <1>4, <1>5, <1>9, <2>1, <2>b DEF RowsInv
  <2>6. LengthsInv'
    BY <1>7, <2>1, <2>b DEF LengthsInv, HeadStages
  <2>7. AddingInv'
    <3>1. Resumed' = 0
      BY <2>a DEF Resumed
    <3>2. waiting' \in Seq(Req) /\ Len(waiting') \in Nat
      BY <1>0, <1>1 DEF SchedTypes
    <3> QED
      BY <1>9, <2>1, <2>a, <2>b, <3>1, <3>2 DEF AddingInv
  <2> QED
    BY <2>2, <2>3, <2>4, <2>5, <2>6, <2>7 DEF BatchInv
<1>10. CASE /\ phase' = "adding" /\ chunked # NoReq /\ UNCHANGED full
            /\ \E est \in Nat, up \in {0, 1} :
                 LET n == ChunkedLen(chunked, RemTotal(Starting(est), pin) - up)
                     cut == n < InputLen(chunked) - pre[chunked]
                 IN  /\ fill' = [fill EXCEPT ![chunked] = pre[chunked] + n]
                     /\ adder' = Charged(Starting(est), chunked, n,
                                  IF cut THEN 0 ELSE Least(MaxNew[chunked], ClipMaxNew))
                     /\ chunked' = IF cut THEN chunked ELSE NoReq
  <2>c. PICK c \in Req : c = chunked
    BY <1>1, <1>10 DEF SchedTypes
  <2>0. /\ c \in RowsHeld /\ c \in Req /\ committed[c] = fill[c] /\ fill[c] < InputLen(c)
        /\ pre[c] = fill[c] /\ c \notin Set(running) /\ c \notin finished
        /\ prot[c] * PageSize <= committed[c] /\ c \notin gone /\ c \notin Set(waiting)
        /\ Chunked = {c} /\ c # NoReq
    <3> USE <2>c
    <3>1. c \in RowsHeld /\ committed[c] = fill[c] /\ fill[c] < InputLen(c)
      BY <1>1, <1>10, ChunkedRow
    <3>2. c \in Chunked /\ Chunked = {c} /\ c \in Req
      BY <1>10, <3>1 DEF Chunked, RowsHeld
    <3>3. pre[c] = fill[c] /\ prot[c] * PageSize <= committed[c]
      BY <1>1, <3>1, <3>2 DEF BatchInv, LengthsInv
    <3> QED
      BY <1>10, <3>1, <3>2, <3>3 DEF BatchInv, PlacesInv
  <2>1. PICK est \in Nat, up \in {0, 1} :
          LET n == ChunkedLen(c, RemTotal(Starting(est), pin) - up)
              cut == n < InputLen(c) - pre[c]
          IN  /\ fill' = [fill EXCEPT ![c] = pre[c] + n]
              /\ adder' = Charged(Starting(est), c, n,
                           IF cut THEN 0 ELSE Least(MaxNew[c], ClipMaxNew))
              /\ chunked' = IF cut THEN c ELSE NoReq
    BY Zenon, <1>10, <2>c
  <2> DEFINE rem == RemTotal(Starting(est), pin) - up
             n == ChunkedLen(c, rem)
             cut == n < InputLen(c) - pre[c]
             new == IF cut THEN 0 ELSE Least(MaxNew[c], ClipMaxNew)
             e == AlignUp(n)
             ae == AvailableAndEvictable(pin)
  <2>2. /\ ae \in Nat /\ rem = ae - est - up /\ rem \in Int
    <3>1. ae \in Nat
      BY ReserveTypes
    <3>2. RemTotal(Starting(est), pin) = ae - est
      BY StartingFacts DEF RemTotal
    <3> HIDE DEF ae
    <3> QED
      BY <3>1, <3>2
  <2>3. InputLen(c) \in Nat /\ pre[c] \in Nat /\ pre[c] < InputLen(c)
    BY Zenon, <1>1, <2>0, InputBound DEF BatchInv, SchedTypes
  <2>4. /\ n \in Nat /\ n >= 1 /\ n <= InputLen(c) - pre[c]
        /\ cut => n = ChunkSize \/ n = rem
    <3> HIDE DEF rem
    <3> QED
      BY <2>0, <2>2, <2>3, ChunkedLenFacts DEF rem
  <2>5. e \in Nat /\ n <= e
    BY <2>4, AlignUpFacts
  <2>6. new \in Nat
    <3>1. MaxNew[c] \in Nat /\ ClipMaxNew \in Nat
      BY <2>0, ParamTypes
    <3> HIDE DEF cut
    <3> QED
      BY <3>1 DEF Least
  <2>7. /\ adder' \in Adders /\ adder'.list = <<c>> /\ adder'.idx = 1 /\ adder'.new = NoReq
        /\ adder'.off = est + e + new + PageSize /\ adder'.chunk = ChunkSize - e
    <3>1. adder' = Charged(Starting(est), c, n, new)
      BY <2>1
    <3> HIDE DEF n, new
    <3> DEFINE a == Starting(est)
    <3>2. /\ a \in Adders /\ a.list = <<>> /\ a.idx = 1 /\ a.new = NoReq
          /\ a.off = est /\ a.chunk = ChunkSize
      BY StartingFacts
    <3>3. Append(<<>>, c) = <<c>>
      OBVIOUS
    <3> HIDE DEF a
    <3>4. LET b == Charged(a, c, n, new)
          IN  /\ b \in Adders /\ b.list = Append(a.list, c) /\ b.idx = a.idx /\ b.new = a.new
              /\ b.off = a.off + AlignUp(n) + new + PageSize
              /\ b.chunk = a.chunk - AlignUp(n)
      BY Zenon, <2>4, <2>6, <3>2, ChargedFacts
    <3>5. adder' = Charged(a, c, n, new)
      BY <3>1 DEF a
    <3> QED
      BY <3>2, <3>3, <3>4, <3>5
  <2>8. fill' = [fill EXCEPT ![c] = pre[c] + n] /\ chunked' = IF cut THEN c ELSE NoReq
    BY <2>1
  <2>9. /\ fill' \in [Req -> Nat] /\ fill'[c] = pre[c] + n
        /\ fill'[c] < InputLen(c) <=> cut
    <3>1. fill \in [Req -> Nat] /\ cut \in BOOLEAN
      BY <1>1 DEF SchedTypes
    <3> DEFINE m == pre[c] + n
    <3>2. m \in Nat /\ (m < InputLen(c) <=> cut)
      <4>1. n \in Nat /\ (cut <=> n < InputLen(c) - pre[c])
        BY <2>4
      <4> HIDE DEF n, cut
      <4> QED
        BY <2>3, <4>1
    <3> HIDE DEF m
    <3>3. fill' = [fill EXCEPT ![c] = m]
      BY <2>8 DEF m
    <3>4. fill' \in [Req -> Nat] /\ fill'[c] = m
      BY <3>1, <3>2, <3>3
    <3> QED
      BY <3>2, <3>4 DEF m
  <2>10. cut => adder'.chunk < PageSize \/ RemTotal(adder', pin) <= 0
    <3>0. PageSize \in Nat /\ PageSize >= 1 /\ ChunkSize \in Nat
      BY PageTypes, ParamTypes
    <3>1. CASE n = ChunkSize
      <4>1. e = ChunkSize
        BY <3>1, ChunkWhole
      <4> QED
        BY <2>7, <3>0, <4>1
    <3>2. CASE cut /\ n = rem
      <4>1. RemTotal(adder', pin) = ae - (est + e + new + PageSize)
        BY <2>7 DEF RemTotal
      <4> HIDE DEF ae, e, n, rem, new
      <4>2. ae - (est + e + new + PageSize) <= 0
        BY <2>2, <2>5, <2>6, <2>4, <3>0, <3>2
      <4> QED
        BY <4>1, <4>2
    <3> QED
      BY <2>4, <3>1, <3>2
  <2> HIDE DEF n, rem, cut, new, e, ae
  <2>11. /\ Stage' = "adding" /\ Set(adder'.list) = {c} /\ IsInjective(adder'.list)
         /\ Len(adder'.list) = 1 /\ adder'.list[1] = c
    <3>1. Len(<<c>>) = 1 /\ <<c>>[1] = c /\ DOMAIN <<c>> = {1}
      OBVIOUS
    <3>2. Set(<<c>>) = {c} /\ IsInjective(<<c>>)
      BY <3>1 DEF Set, IsInjective
    <3> QED
      BY <1>10, <2>7, <3>1, <3>2 DEF Stage
  <2>12. SchedTypes'
    BY Zenon, <1>0, <1>1, <1>10, <2>0, <2>7, <2>8, <2>9 DEF SchedTypes, Phases
  <2>13. Chunked' \subseteq {c} /\ chunked' \in {c, NoReq}
    BY <2>8 DEF Chunked
  <2>14. PlacesInv'
    <3>1. chunked' \notin finished \cup gone \cup Set(running) \cup Set(waiting)
      BY Zenon, <1>1, <2>0, <2>13, ListTypes, ParamTypes DEF SchedTypes
    <3>2. PlacesInv
      BY DEF BatchInv
    <3>3. arrived' = Set(waiting') \cup Set(running') \cup Set(last') \cup Set(adder'.list)
                       \cup Chunked' \cup finished' \cup gone'
      BY <1>0, <1>3, <2>0, <2>11, <2>13, <3>2 DEF PlacesInv
    <3> QED
      BY <1>0, <2>0, <2>11, <3>1, <3>2, <3>3 DEF PlacesInv
  <2>15. StageInv'
    BY <1>0, <1>3, <2>0, <2>11 DEF StageInv, HeadStages, AddStages, DecodeStages, CleanStages
  <2>16. RowsInv'
    BY <1>0, <1>2, <1>4, <1>5, <2>0, <2>11 DEF RowsInv
  <2>17. LengthsInv'
    <3>1. /\ prot'[c] * PageSize <= pre'[c] /\ pre'[c] < fill'[c] /\ fill'[c] <= InputLen(c)'
          /\ c \in RowsHeld' /\ committed'[c] = pre'[c]
      <4>1. pre[c] < pre[c] + n /\ pre[c] + n <= InputLen(c)
        BY <2>3, <2>4
      <4> QED
        BY <1>0, <1>2, <1>6, <2>0, <2>9, <4>1
    <3>2. \A r \in Set(adder'.list) :
            /\ prot'[r] * PageSize <= pre'[r] /\ pre'[r] < fill'[r] /\ fill'[r] <= InputLen(r)'
            /\ IF r \in RowsHeld' THEN committed'[r] = pre'[r] ELSE pre'[r] = prot'[r] * PageSize
      BY <2>11, <3>1
    <3> QED
      BY <1>7, <2>11, <3>2 DEF LengthsInv, HeadStages
  <2>18. AddingInv'
    <3>1. Resumed' = 1
      BY <1>2, <2>0, <2>7, <2>11 DEF Resumed
    <3>2. waiting' \in Seq(Req) /\ Len(waiting') \in Nat
      BY <1>0, <1>1 DEF SchedTypes
    <3>3. RemTotal(adder, pin)' = RemTotal(adder', pin)
      BY <1>0 DEF RemTotal, AvailableAndEvictable, Available, Evictable, Cached, PinnedPaths, Path, mem
    <3>4. chunked' # NoReq => cut /\ chunked' = c
      BY <2>8
    <3>5. \A r \in Set(adder'.list) : fill'[r] < InputLen(r)' <=> r \in {chunked', adder'.new}
      BY <1>6, <2>0, <2>7, <2>8, <2>9, <2>11
    <3>6. chunked' # NoReq =>
         /\ adder'.list = <<chunked'>> /\ adder'.new = NoReq /\ chunked' \in RowsHeld'
         /\ adder'.chunk < PageSize \/ RemTotal(adder, pin)' <= 0
      BY <1>2, <2>0, <2>7, <2>10, <3>3, <3>4
    <3> QED
      BY <2>7, <2>11, <3>1, <3>2, <3>5, <3>6 DEF AddingInv
  <2> QED
    BY <2>12, <2>14, <2>15, <2>16, <2>17, <2>18 DEF BatchInv
<1> QED
  BY <1>8, <1>9, <1>10, PlanEffect, Zenon

\* Rounding down to whole pages.
LEMMA AlignDownFacts ==
  ASSUME NEW n \in Int, AlignDown(n) > 0
  PROVE  /\ AlignDown(n) \in Nat /\ AlignDown(n) >= PageSize
         /\ AlignDown(n) <= n /\ n < AlignDown(n) + PageSize
         /\ AlignUp(AlignDown(n)) = AlignDown(n)
         /\ \E k \in Nat : AlignDown(n) = k * PageSize
<1> DEFINE k == n \div PageSize
<1>1. k \in Int /\ PageSize * k <= n /\ n < PageSize * k + PageSize
  BY PageTypes, IntDivFacts
<1> HIDE DEF k
<1>2. AlignDown(n) = k * PageSize /\ k * PageSize = PageSize * k
  BY <1>1, PageTypes DEF AlignDown, k
<1>3. k > 0
  <2>1. ASSUME k <= 0 PROVE FALSE
    <3>1. PICK j \in Nat : k = -j
      <4>1. -k \in Nat /\ k = -(-k)
        BY <1>1, <2>1
      <4> QED
        BY <4>1
    <3>2. k * PageSize = -(j * PageSize) /\ j * PageSize \in Nat
      BY <3>1, PageTypes
    <3> QED
      BY <1>2, <3>2
  <2> QED
    BY <1>1, <2>1
<1>4. k \in Nat /\ 1 <= k
  BY <1>1, <1>3
<1>5. 1 * PageSize <= k * PageSize /\ 1 * PageSize = PageSize
  BY <1>4, ScaleMonotone, PageTypes
<1>6. PagesFor(k * PageSize) = k
  BY <1>4, PagesForWhole
<1> DEFINE t == k * PageSize
<1>7. t \in Nat
  BY <1>4, PageTypes
<1>8. AlignUp(t) = t
  BY <1>6 DEF AlignUp
<1> HIDE DEF t
<1>9. t <= n /\ n < t + PageSize /\ t >= PageSize /\ AlignDown(n) = t
  <2>1. PageSize * k = t
    BY <1>2 DEF t
  <2> QED
    BY <1>1, <1>2, <1>5, <2>1 DEF t
<1> QED
  BY <1>4, <1>7, <1>8, <1>9 DEF t

\* What is left to compute after the longest match.
LEMMA MatchLeft ==
  ASSUME SchedTypes, LengthsInv, NEW r \in Req, NEW m \in 0 .. MatchLimit(r)
  PROVE  /\ m \in Nat /\ m * PageSize \in Nat /\ InputLen(r) \in Nat
         /\ InputLen(r) - m * PageSize \in Nat /\ InputLen(r) - m * PageSize >= 1
<1> DEFINE n == InputLen(r) - 1
           k == n \div PageSize
<1>1. InputLen(r) \in Nat /\ n \in Nat /\ n < InputLen(r)
  BY InputBound
<1> HIDE DEF n
<1>2. k \in Nat /\ k * PageSize <= n /\ k * PageSize \in Nat
  BY <1>1, DivBounds, PageTypes
<1>3. m \in 0 .. k
  BY DEF MatchLimit, n
<1> HIDE DEF k
<1>4. m \in Nat /\ m * PageSize <= k * PageSize /\ m * PageSize \in Nat
  BY <1>2, <1>3, ScaleMonotone
<1> QED
  BY <1>1, <1>2, <1>4

\* A request is added only when all of it fits behind what was promised before,
\* also after its prefix is locked, and when the chunk budget has a page left;
\* it is cut only when that uses the budget up.
LEMMA AddResultFacts ==
  ASSUME MemInv, SchedTypes, LengthsInv, NEW r \in Req, NEW m \in 0 .. MatchLimit(r),
         AddResult(r, m).run # 0
  PROVE  LET run == AddResult(r, m).run
             ext == InputLen(r) - m * PageSize
         IN  /\ run \in Nat /\ run >= 1 /\ run <= ext
             /\ adder.chunk >= PageSize
             /\ run < ext => adder.chunk - AlignUp(run) < PageSize
             /\ RemTotal(adder, pin) > 0
             /\ RemTotal(adder, [pin EXCEPT ![r] = m]) > AlignUp(ext)
<1> DEFINE ext == InputLen(r) - m * PageSize
           left == MaxNew[r] - out[r]
           exp == Least(IF left < 0 THEN 0 ELSE left, ClipMaxNew)
           total == ext + exp + PageSize
           locked == [pin EXCEPT ![r] = m]
           trunc == AlignDown(adder.chunk)
           R == AddResult(r, m)
<1>1. ext \in Nat /\ ext >= 1
  BY MatchLeft
<1>2. exp \in Nat
  <2>1. MaxNew[r] \in Nat /\ out[r] \in Nat /\ ClipMaxNew \in Nat
    BY Zenon, ParamTypes DEF SchedTypes
  <2> QED
    BY <2>1 DEF Least
<1>3. adder.off \in Nat /\ adder.chunk \in Int
  BY DEF SchedTypes, Adders
<1>4. RemTotal(adder, pin) \in Int /\ RemTotal(adder, locked) \in Int
  <2>1. AvailableAndEvictable(pin) \in Nat /\ AvailableAndEvictable(locked) \in Nat
    BY ReserveTypes
  <2> QED
    BY <1>3, <2>1 DEF RemTotal
<1>5. /\ ~(total >= RemTotal(adder, pin)) /\ ~(total >= RemTotal(adder, locked))
      /\ \/ AlignUp(ext) <= adder.chunk /\ R.run = ext
         \/ ~(AlignUp(ext) <= adder.chunk) /\ ~(trunc <= 0) /\ R.run = trunc
  <2> HIDE DEF ext, exp, total, locked, trunc
  <2>1. AddResult(r, m) =
          IF total >= RemTotal(adder, pin) THEN [res |-> "NO_TOKEN", run |-> 0]
          ELSE IF AlignUp(ext) >= adder.inp /\ adder.list # <<>>
            THEN [res |-> "OTHER", run |-> 0]
          ELSE IF total >= RemTotal(adder, locked) THEN [res |-> "NO_TOKEN", run |-> 0]
          ELSE IF AlignUp(ext) <= adder.chunk THEN [res |-> "ADDED", run |-> ext]
          ELSE IF trunc <= 0 THEN [res |-> "OTHER", run |-> 0]
          ELSE [res |-> "ADDED", run |-> trunc]
    BY Zenon DEF AddResult, ext, exp, total, locked, trunc
  <2> QED
    BY <2>1
<1>6. AlignUp(ext) \in Nat /\ AlignUp(ext) < ext + PageSize /\ ext <= AlignUp(ext)
      /\ \A k \in Nat : ext <= k * PageSize => AlignUp(ext) <= k * PageSize
  BY <1>1, AlignUpFacts
<1>7. PageSize \in Nat /\ PageSize >= 1
  BY PageTypes
<1>8. AlignUp(ext) >= PageSize
  <2>1. PagesFor(ext) \in Nat /\ PagesFor(ext) # 0
    BY <1>1, PagesForBounds, PagesForPositive
  <2>2. 1 * PageSize <= PagesFor(ext) * PageSize
    BY <2>1, ScaleMonotone
  <2> QED
    BY <1>7, <2>2 DEF AlignUp
<1> HIDE DEF ext, exp, locked
<1>9. RemTotal(adder, pin) > 0 /\ RemTotal(adder, locked) > AlignUp(ext)
  BY <1>1, <1>2, <1>4, <1>5, <1>6, <1>7
<1>10. CASE AlignUp(ext) <= adder.chunk /\ R.run = ext
  BY <1>1, <1>3, <1>6, <1>7, <1>8, <1>9, <1>10 DEF ext, locked
<1>11. CASE ~(AlignUp(ext) <= adder.chunk) /\ ~(trunc <= 0) /\ R.run = trunc
  <2>1. trunc > 0
    <3>1. trunc \in Int
      <4>1. adder.chunk \div PageSize \in Int
        BY <1>3, PageTypes, IntDivFacts
      <4> QED
        BY <4>1, PageTypes DEF AlignDown
    <3> QED
      BY <1>11, <3>1
  <2>2. /\ trunc \in Nat /\ trunc >= PageSize /\ trunc <= adder.chunk
        /\ adder.chunk < trunc + PageSize /\ AlignUp(trunc) = trunc
        /\ \E k \in Nat : trunc = k * PageSize
    BY <1>3, <2>1, AlignDownFacts
  <2> HIDE DEF trunc
  <2>3. trunc < ext
    <3>1. ASSUME ext <= trunc PROVE FALSE
      <4>1. AlignUp(ext) <= trunc
        BY <1>6, <2>2, <3>1
      <4> QED
        BY <1>3, <1>6, <1>11, <2>2, <4>1
    <3> QED
      BY <1>1, <2>2, <3>1
  <2>4. /\ trunc >= 1 /\ trunc <= ext /\ adder.chunk >= PageSize
        /\ adder.chunk - AlignUp(trunc) < PageSize
    BY <1>1, <1>3, <1>7, <2>2, <2>3
  <2> QED
    BY <1>9, <1>11, <2>2, <2>4 DEF ext, locked
<1> QED
  BY <1>5, <1>10, <1>11

\* Only received requests have rows, and every row has a page: they can be
\* counted.
LEMMA RowsFinite ==
  ASSUME BatchInv
  PROVE  IsFiniteSet(RowsHeld) /\ Cardinality(RowsHeld) \in Nat
<1> DEFINE T == Set(running) \cup Set(last) \cup Set(adder.list) \cup Chunked
<1>1. IsFiniteSet(Set(running)) /\ IsFiniteSet(Set(last)) /\ IsFiniteSet(Set(adder.list))
  <2>1. running \in Seq(Req) /\ last \in Seq(Req) /\ adder.list \in Seq(Req)
    BY DEF BatchInv, SchedTypes, Adders
  <2> QED
    BY <2>1, SetType
<1>2. IsFiniteSet(Chunked)
  BY Zenon, FS_Singleton, FS_Subset DEF Chunked
<1>3. IsFiniteSet(T)
  BY Zenon, <1>1, <1>2, FS_Union
<1>4. RowsHeld \subseteq T
  <2>1. CASE Stage = "decode_result"
    BY <2>1 DEF BatchInv, RowsInv, Set
  <2>2. CASE Stage = "pause_release"
    <3>1. RowsHeld = {running[i] : i \in step .. Len(running)}
      BY <2>2 DEF BatchInv, RowsInv
    <3>2. step \in 1 .. Len(running) + 1 /\ running \in Seq(Req)
      BY <2>2 DEF BatchInv, StageInv, SchedTypes
    <3>3. \A i \in step .. Len(running) : i \in DOMAIN running
      BY <3>2
    <3> QED
      BY <3>1, <3>3 DEF Set
  <2>3. CASE Stage \in {"adding", "prefill_alloc"}
    BY <2>3 DEF BatchInv, RowsInv
  <2>4. CASE Stage \notin {"decode_result", "pause_release", "adding", "prefill_alloc"}
    BY <2>4 DEF BatchInv, RowsInv
  <2> QED
    BY <2>1, <2>2, <2>3, <2>4
<1> QED
  BY <1>3, <1>4, FS_Subset, FS_CardinalityType

\* r has been admitted with m pages matched and run tokens to compute.
Added(r, m, run) ==
  LET whole == m * PageSize + run = InputLen(r)
  IN  /\ r = waiting[adder.idx] /\ m \in 0 .. MatchLimit(r)
      /\ run \in Nat /\ run >= 1 /\ run <= InputLen(r) - m * PageSize
      /\ Lock(r, m)
      /\ pre' = [pre EXCEPT ![r] = m * PageSize]
      /\ fill' = [fill EXCEPT ![r] = m * PageSize + run]
      /\ adder' \in Adders /\ adder'.list = Append(adder.list, r)
      /\ adder'.idx \in {adder.idx + 1, Break}
      /\ adder'.new = IF whole THEN adder.new ELSE r
      /\ adder'.off >= adder.off + AlignUp(run) + PageSize
      /\ Len(adder.list) < Allocatable
      /\ adder.chunk >= PageSize
      /\ adder'.chunk = adder.chunk - AlignUp(run)
      /\ ~whole => adder'.chunk < PageSize
      /\ RemTotal(adder, pin) > 0
      /\ RemTotal(adder, [pin EXCEPT ![r] = m]) > AlignUp(InputLen(r) - m * PageSize)

LEMMA AddEffect ==
  ASSUME MemInv, BatchInv, AddOneReq
  PROVE  /\ full' \in BOOLEAN
         /\ \/ UNCHANGED <<mem, pre, fill>> /\ adder' = [adder EXCEPT !.idx = Break]
            \/ \E r \in Req, m \in Nat, run \in Nat :
                 Added(r, m, run) /\ IsMatch(r, MatchLimit(r), m)
<1>0. SchedTypes /\ LengthsInv /\ phase = "adding" /\ adder.idx <= Len(waiting)
  BY Zenon DEF BatchInv, AddOneReq
<1>r. PICK r \in Req : r = waiting[adder.idx]
  BY <1>0, AdmittedRow
<1>1. CASE full \/ Len(adder.list) >= Allocatable
  <2>1. full' = TRUE /\ UNCHANGED <<mem, pre, fill>> /\ adder' = [adder EXCEPT !.idx = Break]
    BY <1>1, Zenon DEF AddOneReq
  <2> QED
    BY <2>1
<1>2. CASE ~(full \/ Len(adder.list) >= Allocatable)
  <2>1. PICK m \in 0 .. MatchLimit(r) :
          LET add == AddResult(r, m)
              whole == m * PageSize + add.run = InputLen(r)
              locked == [pin EXCEPT ![r] = m]
              charged == Charged(adder, r, add.run,
                           IF whole THEN Least(MaxNew[r], ClipMaxNew) ELSE 0)
              state == BudgetState(charged, locked)
          IN  /\ IsMatch(r, MatchLimit(r), m)
              /\ IF add.run = 0
                   THEN /\ adder' = [adder EXCEPT !.idx = Break]
                        /\ full' = (add.res = "NO_TOKEN")
                        /\ UNCHANGED <<mem, pre, fill>>
                   ELSE /\ adder' = [charged EXCEPT
                             !.new = IF whole THEN @ ELSE r,
                             !.idx = IF state = "CONTINUE" THEN @ + 1 ELSE Break]
                        /\ full' = (state = "NO_TOKEN")
                        /\ Lock(r, m)
                        /\ pre' = [pre EXCEPT ![r] = m * PageSize]
                        /\ fill' = [fill EXCEPT ![r] = m * PageSize + add.run]
    BY <1>r, <1>2, Zenon DEF AddOneReq
  <2> DEFINE add == AddResult(r, m)
             whole == m * PageSize + add.run = InputLen(r)
             locked == [pin EXCEPT ![r] = m]
             new == IF whole THEN Least(MaxNew[r], ClipMaxNew) ELSE 0
             charged == Charged(adder, r, add.run, new)
             state == BudgetState(charged, locked)
  <2>2. full' \in BOOLEAN
    BY Zenon, <2>1
  <2>3. CASE add.run = 0
    BY <2>1, <2>3
  <2>4. CASE add.run # 0
    <3>0. /\ m \in Nat /\ m * PageSize \in Nat /\ InputLen(r) \in Nat
          /\ InputLen(r) - m * PageSize \in Nat
      BY <1>0, MatchLeft
    <3>1. PICK run \in Nat : run = add.run
      BY Zenon, <1>0, <2>4, AddResultFacts
    <3>2. /\ run >= 1 /\ run <= InputLen(r) - m * PageSize
          /\ adder.chunk >= PageSize
          /\ run < InputLen(r) - m * PageSize => adder.chunk - AlignUp(run) < PageSize
          /\ RemTotal(adder, pin) > 0
          /\ RemTotal(adder, locked) > AlignUp(InputLen(r) - m * PageSize)
      <4> HIDE DEF locked
      <4> QED
        BY <1>0, <2>4, <3>1, AddResultFacts DEF locked
    <3>3. new \in Nat
      <4>1. MaxNew[r] \in Nat /\ ClipMaxNew \in Nat
        BY ParamTypes
      <4> HIDE DEF whole
      <4> QED
        BY <4>1 DEF Least
    <3>4. /\ adder' = [charged EXCEPT !.new = IF whole THEN @ ELSE r,
                                      !.idx = IF state = "CONTINUE" THEN @ + 1 ELSE Break]
          /\ Lock(r, m) /\ pre' = [pre EXCEPT ![r] = m * PageSize]
          /\ fill' = [fill EXCEPT ![r] = m * PageSize + add.run]
      BY <2>1, <2>4
    <3>5. charged = Charged(adder, r, run, new) /\ (whole <=> m * PageSize + run = InputLen(r))
      BY <3>1
    <3> HIDE DEF add, state, new, charged
    <3>6. adder \in Adders /\ adder.idx \in Nat /\ Break \in Nat
      <4>1. Len(waiting) \in Nat
        BY <1>0 DEF SchedTypes
      <4> QED
        BY <1>0, <4>1 DEF SchedTypes, Adders, Break
    <3>7. /\ charged \in Adders /\ charged.list = Append(adder.list, r) /\ charged.idx = adder.idx
          /\ charged.new = adder.new
          /\ charged.off = adder.off + AlignUp(run) + new + PageSize
          /\ charged.chunk = adder.chunk - AlignUp(run)
      <4>0. PICK a \in Adders : a = adder
        BY <3>6
      <4>1. LET b == Charged(a, r, run, new)
            IN  /\ b \in Adders /\ b.list = Append(a.list, r) /\ b.idx = a.idx
                /\ b.new = a.new
                /\ b.off = a.off + AlignUp(run) + new + PageSize
                /\ b.chunk = a.chunk - AlignUp(run)
        BY <3>3, ChargedFacts
      <4>2. charged = Charged(a, r, run, new)
        BY <3>5, <4>0
      <4> QED
        BY <4>0, <4>1, <4>2
    <3> DEFINE x == IF whole THEN charged.new ELSE r
               y == IF state = "CONTINUE" THEN charged.idx + 1 ELSE Break
    <3>8. x \in Req \cup {NoReq} /\ y \in Nat /\ y \in {adder.idx + 1, Break}
      BY <3>6, <3>7 DEF Adders
    <3>9. adder' = [charged EXCEPT !.new = x, !.idx = y]
      BY <3>4
    <3>10. x = IF whole THEN adder.new ELSE r
      BY <3>7
    <3> HIDE DEF x, y, whole
    <3>11. /\ adder' \in Adders /\ adder'.list = charged.list /\ adder'.idx = y /\ adder'.new = x
           /\ adder'.off = charged.off /\ adder'.chunk = charged.chunk
      BY Zenon, <3>7, <3>8, <3>9 DEF Adders
    <3>12. adder'.off >= adder.off + AlignUp(run) + PageSize
      <4>1. /\ adder.off \in Nat /\ AlignUp(run) \in Nat /\ PageSize \in Nat
            /\ adder'.off = adder.off + AlignUp(run) + new + PageSize
        BY <3>6, <3>7, <3>11, AlignUpFacts, PageTypes DEF Adders
      <4> QED
        BY <3>3, <4>1
    <3>13. Len(adder.list) < Allocatable
      <4>1. Len(adder.list) \in Nat /\ Allocatable \in Int
        <5>1. IsFiniteSet(RowsHeld) => Cardinality(RowsHeld) \in Nat
          BY FS_CardinalityType
        <5> QED
          BY <5>1, <1>0, RowsFinite, ListTypes, ParamTypes DEF Allocatable, Least
      <4> QED
        BY <1>2, <4>1
    <3>14. ~whole => adder'.chunk < PageSize
      BY <3>0, <3>1, <3>2, <3>5, <3>7, <3>11
    <3>15. /\ pre' = [pre EXCEPT ![r] = m * PageSize]
           /\ fill' = [fill EXCEPT ![r] = m * PageSize + run]
      BY <3>1, <3>4 DEF add
    <3>16. Added(r, m, run)
      BY Zenon, <1>r, <3>0, <3>2, <3>4, <3>5, <3>7, <3>8, <3>10, <3>11, <3>12, <3>13, <3>14, <3>15
      DEF Added, locked
    <3> QED
      BY <2>1, <2>2, <3>0, <3>16
  <2> QED
    BY <2>2, <2>3, <2>4
<1> QED
  BY <1>1, <1>2

LEMMA BatchAddOneReq ==
  ASSUME MemInv, BatchInv, AddOneReq
  PROVE  BatchInv'
<1>0. /\ phase = "adding" /\ adder.idx <= Len(waiting)
      /\ UNCHANGED <<kvs, out, committed, finished, to_finish, gone>>
      /\ UNCHANGED <<arrived, waiting, running, spec, last, chunked, ctl>>
  BY Zenon DEF AddOneReq
<1>1. Stage = "adding" /\ Stage' = "adding" /\ SchedTypes /\ LengthsInv
      /\ UNCHANGED <<goal, step, phase, paused>>
  BY <1>0 DEF Stage, BatchInv, ctl
<1>2. last = <<>> /\ Set(last) = {} /\ Set(adder.list) \cap finished = {}
  BY <1>1, EmptySet DEF BatchInv, StageInv, HeadStages
<1>3. full' \in BOOLEAN
  BY AddEffect
<1>4. Chunked' = Chunked
  BY <1>0 DEF Chunked
<1>5. adder \in Adders /\ waiting \in Seq(Req) /\ Len(waiting) \in Nat /\ adder.idx \in Nat
      /\ adder.list \in Seq(Req) /\ Len(adder.list) \in Nat
  <2>1. adder \in Adders /\ waiting \in Seq(Req)
    BY <1>1 DEF SchedTypes
  <2>2. adder.idx \in Nat /\ adder.list \in Seq(Req)
    BY <2>1 DEF Adders
  <2> QED
    BY <2>1, <2>2
<1>6. \A r \in Req : FinishLen(r)' = FinishLen(r) /\ InputLen(r)' = InputLen(r)
  BY <1>0 DEF FinishLen, InputLen
<1>7. CASE UNCHANGED <<mem, pre, fill>> /\ adder' = [adder EXCEPT !.idx = Break]
  <2>1. UNCHANGED <<table, prot, free, cache, pin>> /\ RowsHeld' = RowsHeld
    BY <1>7 DEF mem, RowsHeld
  <2>2. /\ adder' \in Adders /\ adder'.list = adder.list /\ adder'.idx = Len(waiting) + 1
        /\ adder'.new = adder.new /\ adder'.off = adder.off /\ adder'.chunk = adder.chunk
    <3>1. PICK x \in Nat : x = Len(waiting) + 1
      BY <1>5
    <3>2. adder' = [adder EXCEPT !.idx = x]
      BY <1>7, <3>1 DEF Break
    <3> QED
      BY Zenon, <1>5, <3>1, <3>2 DEF Adders
  <2>3. SchedTypes'
    BY Zenon, <1>0, <1>1, <1>3, <1>7, <2>2 DEF SchedTypes
  <2>4. PlacesInv'
    BY <1>0, <1>4, <2>2 DEF BatchInv, PlacesInv
  <2>5. StageInv'
    BY <1>0, <1>1, <1>2, <1>4, <2>2 DEF StageInv, HeadStages, AddStages, DecodeStages, CleanStages
  <2>6. RowsInv'
    BY <1>0, <1>1, <2>1, <2>2 DEF BatchInv, RowsInv
  <2>7. LengthsInv'
    <3>1. \A q \in RowsHeld : q \in Req
      BY DEF RowsHeld
    <3>2. /\ \A q \in Req : out'[q] <= FinishLen(q)' /\ (q \notin finished' => out'[q] < FinishLen(q)')
          /\ \A q \in RowsHeld' :
               /\ prot'[q] * PageSize <= committed'[q] /\ committed'[q] <= InputLen(q)'
               /\ Len(table'[q]) = PagesFor(committed'[q] + (IF Stage' = "verify" THEN Block ELSE 0))
      BY <1>0, <1>1, <1>6, <2>1, <3>1 DEF LengthsInv
    <3>3. \A q \in RowsHeld' \cap (Set(running') \cup Set(last')) :
            q # chunked' => committed'[q] = InputLen(q)' - 1
      BY <1>0, <1>1, <1>6, <2>1, <3>1 DEF LengthsInv
    <3>4. \A q \in Set(adder'.list) :
            /\ prot'[q] * PageSize <= pre'[q] /\ pre'[q] < fill'[q] /\ fill'[q] <= InputLen(q)'
            /\ IF q \in RowsHeld' THEN committed'[q] = pre'[q] ELSE pre'[q] = prot'[q] * PageSize
      BY <1>0, <1>1, <1>6, <1>7, <2>1, <2>2, ListTypes DEF LengthsInv
    <3> QED
      BY <1>1, <3>2, <3>3, <3>4 DEF LengthsInv, HeadStages
  <2>8. AddingInv'
    <3>1. Resumed' = Resumed
      BY <2>1, <2>2 DEF Resumed
    <3>2. RemTotal(adder, pin)' = RemTotal(adder, pin)
      BY <2>1, <2>2
      DEF RemTotal, AvailableAndEvictable, Available, Evictable, Cached, PinnedPaths, Path
    <3>3. \A q \in Set(adder'.list) : fill'[q] < InputLen(q)' <=> q \in {chunked', adder'.new}
      BY <1>0, <1>1, <1>6, <1>7, <2>2, ListTypes DEF BatchInv, AddingInv
    <3>4. chunked' # NoReq =>
            /\ adder'.list = <<chunked'>> /\ adder'.new = NoReq /\ chunked' \in RowsHeld'
            /\ adder'.chunk < PageSize \/ RemTotal(adder, pin)' <= 0
      BY <1>0, <1>1, <2>1, <2>2, <3>2 DEF BatchInv, AddingInv
    <3>5. adder'.new # NoReq => adder'.new \in Set(adder'.list) /\ adder'.chunk < PageSize
      BY <1>1, <2>2 DEF BatchInv, AddingInv
    <3>6. /\ Len(adder.list) - Resumed <= Len(waiting)
          /\ \A i \in 1 .. Len(adder.list) - Resumed : adder.list[Resumed + i] = waiting[i]
      BY <1>1 DEF BatchInv, AddingInv
    <3>7. adder'.idx >= 1 /\ adder'.idx = Len(waiting) + 1
      BY <1>5, <2>2
    <3> QED
      BY <1>0, <2>2, <3>1, <3>3, <3>4, <3>5, <3>6, <3>7 DEF AddingInv
  <2> QED
    BY <2>3, <2>4, <2>5, <2>6, <2>7, <2>8 DEF BatchInv
<1>8. ASSUME NEW r \in Req, NEW m \in Nat, NEW run \in Nat, Added(r, m, run)
      PROVE  BatchInv'
  <2> DEFINE whole == m * PageSize + run = InputLen(r)
             l == adder.list
             R == Resumed
  <2>1. /\ r = waiting[adder.idx] /\ m \in 0 .. MatchLimit(r)
        /\ run >= 1 /\ run <= InputLen(r) - m * PageSize
        /\ Lock(r, m)
        /\ pre' = [pre EXCEPT ![r] = m * PageSize]
        /\ fill' = [fill EXCEPT ![r] = m * PageSize + run]
        /\ adder' \in Adders /\ adder'.list = Append(l, r)
        /\ adder'.idx \in {adder.idx + 1, Break}
        /\ adder'.new = (IF whole THEN adder.new ELSE r)
        /\ adder.chunk >= PageSize
        /\ ~whole => adder'.chunk < PageSize
        /\ RemTotal(adder, pin) > 0
    BY <1>8 DEF Added
  <2>2. /\ m * PageSize \in Nat /\ InputLen(r) \in Nat /\ InputLen(r) - m * PageSize \in Nat
    BY <1>1, <2>1, MatchLeft
  <2>3. /\ adder.idx \in 1 .. Len(waiting) /\ r \in Set(waiting) /\ r \notin RowsHeld
        /\ table[r] = <<>>
    <3>1. adder.idx \in DOMAIN waiting /\ r \in Set(waiting) /\ r \notin RowsHeld /\ table[r] = <<>>
      BY <1>0, <2>1, AdmittedRow
    <3> QED
      BY <1>5, <3>1
  <2>4. /\ table' = table /\ RowsHeld' = RowsHeld /\ prot' = [prot EXCEPT ![r] = m]
        /\ prot \in [Req -> Nat] /\ prot'[r] = m
        /\ \A q \in Req \ {r} : prot'[q] = prot[q] /\ pre'[q] = pre[q] /\ fill'[q] = fill[q]
        /\ pre'[r] = m * PageSize /\ fill'[r] = m * PageSize + run
        /\ pre' \in [Req -> Nat] /\ fill' \in [Req -> Nat]
    <3>1. prot \in [Req -> Nat] /\ pre \in [Req -> Nat] /\ fill \in [Req -> Nat]
      BY Zenon, <1>1 DEF MemInv, MemTypeOK, SchedTypes
    <3>2. table' = table /\ prot' = [prot EXCEPT ![r] = m]
      BY <2>1 DEF Lock
    <3>3. RowsHeld' = RowsHeld
      BY <3>2 DEF RowsHeld
    <3> DEFINE a == m * PageSize
               b == m * PageSize + run
    <3>4. a \in Nat /\ b \in Nat /\ pre' = [pre EXCEPT ![r] = a] /\ fill' = [fill EXCEPT ![r] = b]
      BY <2>1, <2>2
    <3> HIDE DEF a, b
    <3>5. /\ prot'[r] = m /\ pre'[r] = a /\ fill'[r] = b
          /\ pre' \in [Req -> Nat] /\ fill' \in [Req -> Nat]
          /\ \A q \in Req \ {r} : prot'[q] = prot[q] /\ pre'[q] = pre[q] /\ fill'[q] = fill[q]
      BY <3>1, <3>2, <3>4
    <3> QED
      BY Zenon, <3>1, <3>2, <3>3, <3>5 DEF a, b
  \* Nothing was cut before.
  <2>5. chunked = NoReq /\ adder.new = NoReq
    <3>1. /\ chunked # NoReq => adder.chunk < PageSize \/ RemTotal(adder, pin) <= 0
          /\ adder.new # NoReq => adder.chunk < PageSize
      BY <1>1 DEF BatchInv, AddingInv
    <3>2. adder.chunk \in Int /\ RemTotal(adder, pin) \in Int /\ PageSize \in Nat
      <4>1. adder.off \in Nat /\ AvailableAndEvictable(pin) \in Nat
        BY <1>5, ReserveTypes DEF Adders
      <4> QED
        BY <1>5, <4>1, PageTypes DEF Adders, RemTotal
    <3> QED
      BY <2>1, <3>1, <3>2
  <2>6. /\ R \in {0, 1} /\ R <= Len(l) /\ adder.idx = Len(l) - R + 1
        /\ Len(l) - R <= Len(waiting)
        /\ \A i \in 1 .. Len(l) - R : l[R + i] = waiting[i]
    <3>1. R \in {0, 1} /\ R <= Len(l)
      <4>1. l # <<>> => Len(l) >= 1
        BY <1>5
      <4> QED
        BY <1>5, <4>1 DEF Resumed
    <3>2. adder.idx = Len(l) - R + 1
      BY <1>1, <1>5, <2>3 DEF BatchInv, AddingInv
    <3> QED
      BY <1>1, <3>1, <3>2 DEF BatchInv, AddingInv
  <2>7. r \notin Set(l)
    <3>1. SUFFICES ASSUME NEW j \in 1 .. Len(l), l[j] = r PROVE FALSE
      BY <1>5 DEF Set
    <3>2. CASE j = 1 /\ R = 1
      BY <2>3, <3>1, <3>2 DEF Resumed
    <3>3. CASE j - R >= 1
      <4>1. j - R \in 1 .. Len(l) - R /\ R + (j - R) = j /\ j - R < adder.idx
        BY <1>5, <2>6, <3>3
      <4>2. waiting[j - R] = waiting[adder.idx] /\ j - R \in DOMAIN waiting /\ adder.idx \in DOMAIN waiting
        <5>1. l[R + (j - R)] = waiting[j - R]
          BY Zenon, <2>6, <4>1
        <5> HIDE DEF R, l
        <5> QED
          BY <1>5, <2>1, <2>3, <2>6, <3>1, <4>1, <5>1
      <4>3. IsInjective(waiting)
        BY DEF BatchInv, PlacesInv
      <4>4. j - R = adder.idx
        BY <4>2, <4>3 DEF IsInjective
      <4> QED
        BY <1>5, <4>1, <4>4
    <3> QED
      BY <1>5, <2>6, <3>1, <3>2, <3>3
  <2>8. /\ r \notin finished /\ r \notin gone /\ r \notin Set(running)
    BY <2>3 DEF BatchInv, PlacesInv
  <2>9. /\ Set(adder'.list) = Set(l) \cup {r} /\ IsInjective(adder'.list)
        /\ Len(adder'.list) = Len(l) + 1 /\ adder'.list[Len(l) + 1] = r
        /\ \A i \in 1 .. Len(l) : adder'.list[i] = l[i]
    <3>1. IsInjective(l)
      BY DEF BatchInv, PlacesInv
    <3> HIDE DEF l
    <3>2. l \in Seq(Req)
      BY <1>5 DEF l
    <3>3. IsInjective(Append(l, r)) /\ Set(Append(l, r)) = Set(l) \cup {r}
      BY <2>7, <3>1, <3>2, SetAppend
    <3> QED
      BY <2>1, <3>2, <3>3
  <2> HIDE DEF l, R
  <2>10. SchedTypes'
    BY Zenon, <1>0, <1>1, <1>3, <2>1, <2>4 DEF SchedTypes
  <2>11. PlacesInv'
    <3>1. PlacesInv
      BY DEF BatchInv
    <3>2. arrived' = Set(waiting') \cup Set(running') \cup Set(last') \cup Set(adder'.list)
                       \cup Chunked' \cup finished' \cup gone'
      BY <1>0, <1>4, <2>3, <2>9, <3>1 DEF PlacesInv, l
    <3> QED
      BY <1>0, <1>4, <2>8, <2>9, <3>1, <3>2 DEF PlacesInv, l
  <2>12. StageInv'
    BY <1>0, <1>1, <1>2, <2>8, <2>9 DEF StageInv, HeadStages, AddStages, DecodeStages, CleanStages, l
  <2>13. RowsInv'
    <3>1. /\ Set(waiting) \cap RowsHeld = {} /\ RowsHeld \ Set(l) = Set(running) \ finished
          /\ \A i \in 2 .. Len(l) : l[i] \notin RowsHeld
      BY <1>1 DEF BatchInv, RowsInv, l
    <3>2. RowsHeld \ Set(adder'.list) = Set(running) \ finished
      BY <2>3, <2>9, <3>1
    <3>3. \A i \in 2 .. Len(adder'.list) : adder'.list[i] \notin RowsHeld
      <4>1. Len(l) \in Nat
        BY <1>5 DEF l
      <4>2. ASSUME NEW i \in 2 .. Len(adder'.list) PROVE adder'.list[i] \notin RowsHeld
        <5>1. CASE i = Len(l) + 1
          BY <2>3, <2>9, <5>1
        <5>2. CASE i <= Len(l)
          BY <2>9, <3>1, <4>1, <5>2
        <5> QED
          BY <2>9, <4>1, <5>1, <5>2
      <4> QED
        BY <4>2
    <3> QED
      BY <1>0, <1>1, <2>4, <3>1, <3>2, <3>3 DEF RowsInv
  <2>14. LengthsInv'
    <3>1. \A q \in RowsHeld : q \in Req \ {r}
      BY <2>3 DEF RowsHeld
    <3>2. /\ \A q \in Req : out'[q] <= FinishLen(q)' /\ (q \notin finished' => out'[q] < FinishLen(q)')
          /\ \A q \in RowsHeld' :
               /\ prot'[q] * PageSize <= committed'[q] /\ committed'[q] <= InputLen(q)'
               /\ Len(table'[q]) = PagesFor(committed'[q] + (IF Stage' = "verify" THEN Block ELSE 0))
      BY <1>0, <1>1, <1>6, <2>4, <3>1 DEF LengthsInv
    <3>3. \A q \in RowsHeld' \cap (Set(running') \cup Set(last')) :
            q # chunked' => committed'[q] = InputLen(q)' - 1
      BY <1>0, <1>1, <1>6, <2>4, <3>1 DEF LengthsInv
    <3>4. \A q \in Set(adder'.list) :
            /\ prot'[q] * PageSize <= pre'[q] /\ pre'[q] < fill'[q] /\ fill'[q] <= InputLen(q)'
            /\ IF q \in RowsHeld' THEN committed'[q] = pre'[q] ELSE pre'[q] = prot'[q] * PageSize
      <4>1. ASSUME NEW q \in Set(l)
            PROVE  /\ prot'[q] * PageSize <= pre'[q] /\ pre'[q] < fill'[q] /\ fill'[q] <= InputLen(q)'
                   /\ IF q \in RowsHeld' THEN committed'[q] = pre'[q] ELSE pre'[q] = prot'[q] * PageSize
        <5>1. q \in Req \ {r} /\ q \in Set(adder.list)
          BY <1>1, <2>7, ListTypes DEF l
        <5>2. /\ prot[q] * PageSize <= pre[q] /\ pre[q] < fill[q] /\ fill[q] <= InputLen(q)
              /\ IF q \in RowsHeld THEN committed[q] = pre[q] ELSE pre[q] = prot[q] * PageSize
          BY <1>1, <5>1 DEF LengthsInv
        <5>3. prot'[q] = prot[q] /\ pre'[q] = pre[q] /\ fill'[q] = fill[q]
              /\ InputLen(q)' = InputLen(q) /\ RowsHeld' = RowsHeld /\ committed'[q] = committed[q]
          BY <1>0, <1>6, <2>4, <5>1
        <5> QED
          BY <5>2, <5>3
      <4>2. /\ prot'[r] * PageSize <= pre'[r] /\ pre'[r] < fill'[r] /\ fill'[r] <= InputLen(r)'
            /\ r \notin RowsHeld' /\ pre'[r] = prot'[r] * PageSize
        <5> DEFINE t == m * PageSize
        <5>1. t \in Nat /\ InputLen(r) \in Nat /\ run >= 1 /\ run <= InputLen(r) - t
              /\ prot'[r] * PageSize = t /\ pre'[r] = t /\ fill'[r] = t + run
          BY <2>1, <2>2, <2>4
        <5> HIDE DEF t
        <5>2. t <= t /\ t < t + run /\ t + run <= InputLen(r)
          BY <5>1
        <5> QED
          BY Zenon, <1>6, <2>3, <2>4, <5>1, <5>2
      <4> QED
        BY <2>9, <4>1, <4>2
    <3> QED
      BY <1>1, <3>2, <3>3, <3>4 DEF LengthsInv, HeadStages
  <2>15. AddingInv'
    <3>1. Resumed' = R
      <4>1. CASE l = <<>>
        <5>1. Len(l) = 0 /\ R = 0
          BY <4>1 DEF R, Resumed, l
        <5>2. adder'.list[1] = r
          BY <2>9, <5>1
        <5> QED
          BY <2>3, <2>4, <5>1, <5>2 DEF Resumed
      <4>2. CASE l # <<>>
        <5>1. 1 \in 1 .. Len(l) /\ Len(l) \in Nat
          BY <1>5, <4>2 DEF l
        <5>2. adder'.list[1] = l[1] /\ adder'.list # <<>>
          BY <2>9, <5>1, EmptySet
        <5> QED
          BY <2>4, <4>2, <5>2 DEF Resumed, R, l
      <4> QED
        BY <4>1, <4>2
    <3>2. Len(l) \in Nat /\ adder'.idx \in Nat /\ Break = Len(waiting) + 1
      BY <1>5, <2>1 DEF l, Break, Adders
    <3>3. /\ adder'.idx >= 1 /\ Len(adder'.list) - R <= Len(waiting)
          /\ adder'.idx = Len(adder'.list) - R + 1 \/ adder'.idx = Len(waiting) + 1
      BY <1>5, <2>1, <2>3, <2>6, <2>9, <3>2
    <3>4. \A i \in 1 .. Len(adder'.list) - R : adder'.list[R + i] = waiting[i]
      <4>1. ASSUME NEW i \in 1 .. Len(adder'.list) - R PROVE adder'.list[R + i] = waiting[i]
        <5>1. CASE i = adder.idx
          <6>1. R + i = Len(l) + 1
            BY <2>6, <3>2, <5>1
          <6> QED
            BY <2>1, <2>9, <5>1, <6>1
        <5>2. CASE i # adder.idx
          <6>1. i \in 1 .. Len(l) - R /\ R + i \in 1 .. Len(l)
            BY <2>6, <2>9, <3>2, <5>2
          <6> QED
            BY <2>6, <2>9, <6>1
        <5> QED
          BY <5>1, <5>2
      <4> QED
        BY <4>1
    <3>5. chunked' = NoReq /\ (adder'.new # NoReq => ~whole /\ adder'.new = r)
      BY <1>0, <2>1, <2>5
    <3>6. \A q \in Set(adder'.list) : fill'[q] < InputLen(q)' <=> q \in {chunked', adder'.new}
      <4>1. ASSUME NEW q \in Set(l)
            PROVE  fill'[q] < InputLen(q)' <=> q \in {chunked', adder'.new}
        <5>1. q \in Req \ {r} /\ q \in Set(adder.list) /\ q # NoReq
          BY <1>1, <2>7, ListTypes, ParamTypes DEF l
        <5>2. fill[q] < InputLen(q) <=> q \in {chunked, adder.new}
          BY <1>1, <5>1 DEF BatchInv, AddingInv
        <5>3. q \notin {chunked', adder'.new}
          BY <3>5, <5>1
        <5> QED
          BY <1>6, <2>4, <2>5, <5>1, <5>2, <5>3
      <4>2. fill'[r] < InputLen(r)' <=> r \in {chunked', adder'.new}
        <5>1. r # NoReq
          BY ParamTypes
        <5>2. fill'[r] < InputLen(r) <=> ~whole
          <6> DEFINE t == m * PageSize
          <6>1. t \in Nat /\ InputLen(r) \in Nat /\ run <= InputLen(r) - t /\ fill'[r] = t + run
                /\ (whole <=> t + run = InputLen(r))
            BY <2>1, <2>2, <2>4
          <6> HIDE DEF t, whole
          <6> QED
            BY <6>1
        <5>3. r \in {chunked', adder'.new} <=> ~whole
          BY <2>1, <2>5, <3>5, <5>1
        <5> QED
          BY <1>6, <5>2, <5>3
      <4> QED
        BY <2>9, <4>1, <4>2
    <3> QED
      BY Zenon, <1>0, <2>1, <2>9, <3>1, <3>3, <3>4, <3>5, <3>6 DEF AddingInv
  <2> QED
    BY <2>10, <2>11, <2>12, <2>13, <2>14, <2>15 DEF BatchInv
<1> QED
  BY <1>7, <1>8, AddEffect

\* Every step that does not run out of pages keeps the invariant of the batches.
LEMMA BatchStep ==
  ASSUME MemInv, BatchInv, SpecAligned, [Next]_vars, phase' # "oom"
  PROVE  BatchInv'
<1>1. CASE UNCHANGED vars
  <2>1. UNCHANGED <<mem, kvs, reqs, sched, goal, step, phase, paused>>
    BY <1>1 DEF vars, ctl
  <2>2. Still /\ CtlTypes' /\ step' = step /\ Stage' = Stage /\ UNCHANGED <<free, cache, pin>>
    BY <2>1 DEF Still, CtlTypes, Stage, mem, reqs, sched, BatchInv, SchedTypes
  <2> QED
    BY <2>2, StillSame
<1>2. CASE Next
  <2>1. CASE PauseInPlace \/ ContinueGeneration \/ PauseRetract
    BY <2>1, BatchPause, BatchPauseRetract
  <2>2. ASSUME NEW r \in Req, HandleGenerateRequest(r) \/ AbortRequest(r) PROVE BatchInv'
    BY <2>2, BatchHandleGenerateRequest, BatchAbortRequest
  <2>3. CASE StashChunked \/ MergeLastBatch \/ PlanPrefill \/ AddOneReq \/ FinishAdder
    BY <2>3, BatchStashChunked, BatchMergeLastBatch, BatchPlanPrefill, BatchAddOneReq,
       BatchFinishAdder
  <2>4. CASE EvictFromTreeCache \/ PrefillForward \/ PrefillResult \/ PrefillDone
    BY <2>4, BatchEvict, BatchPrefillForward, BatchPrefillResult, BatchPrefillDone
  <2>5. CASE UpdateRunningBatch \/ CheckDecodeMem \/ Retract \/ RetractCheck \/ AbortLast
    BY <2>5, BatchUpdateRunningBatch, BatchCheckDecodeMem, BatchRetract, BatchRetractCheck,
       BatchAbortLast
  <2>6. CASE DraftBlock \/ PrepareForVerify \/ Verify \/ DecodeResult \/ DecodeDone
    BY <2>6, BatchDraftBlock, BatchPrepareForVerify, BatchVerify, BatchDecodeResult,
       BatchDecodeDone
  <2>7. CASE PauseRelease \/ PauseDone
    BY <2>7, BatchPauseRelease, BatchPauseDone
  <2> QED
    BY <1>2, <2>1, <2>2, <2>3, <2>4, <2>5, <2>6, <2>7 DEF Next, LoopStep
<1> QED
  BY <1>1, <1>2

-----------------------------------------------------------------------------
(* Free and evictable pages.                                               *)

\* Also after a step.
LEMMA ReserveTyped ==
  MemInv => /\ IsFiniteSet(Evictable(pin)) /\ Cardinality(Evictable(pin)) \in Nat
            /\ Reserve(pin) \in Nat
BY ReserveTypes

LEMMA NextReserveTypes ==
  ASSUME MemInv'
  PROVE  /\ IsFiniteSet(Evictable(pin)') /\ Cardinality(Evictable(pin)') \in Nat
         /\ Reserve(pin)' \in Nat
<1>1. (MemInv => /\ IsFiniteSet(Evictable(pin)) /\ Cardinality(Evictable(pin)) \in Nat
                 /\ Reserve(pin) \in Nat)'
  BY ReserveTyped, PTL
<1> QED
  BY <1>1

\* A step that frees pages, keeps the cache and takes no lock leaves the reserve.
LEMMA MoreReserve ==
  ASSUME MemInv, MemInv', free \subseteq free', Cached \subseteq Cached',
         \A q \in Req : pin'[q] <= pin[q]
  PROVE  Reserve(pin)' >= Reserve(pin) /\ Cardinality(free') >= Cardinality(free)
<1>1. /\ IsFiniteSet(free) /\ IsFiniteSet(free')
      /\ Cardinality(free) \in Nat /\ Cardinality(free') \in Nat
  <2>1. IsFiniteSet(Page)
    BY PageTypes, CardUpto DEF Page
  <2>2. free \subseteq Page /\ free' \subseteq Page
    BY DEF MemInv, MemTypeOK, Page
  <2> QED
    BY <2>1, <2>2, FS_Subset, FS_CardinalityType
<1>2. IsFiniteSet(Evictable(pin)) /\ Cardinality(Evictable(pin)) \in Nat
  BY ReserveTypes
<1>3. IsFiniteSet(Evictable(pin)') /\ Cardinality(Evictable(pin)') \in Nat
  BY NextReserveTypes
<1>4. Evictable(pin) \subseteq Evictable(pin)'
  <2>1. pin \in [Req -> Nat] /\ pin' \in [Req -> Nat]
    BY DEF MemInv, MemTypeOK
  <2>2. \A q \in Req : 1 .. pin'[q] \subseteq 1 .. pin[q]
    BY <2>1
  <2> QED
    BY <2>2 DEF Evictable, PinnedPaths, Path
<1>5. Cardinality(free) <= Cardinality(free')
      /\ Cardinality(Evictable(pin)) <= Cardinality(Evictable(pin)')
  BY <1>1, <1>3, <1>4, FS_Subset
<1>6. Reserve(pin) = Cardinality(free) + Cardinality(Evictable(pin))
      /\ Reserve(pin)' = Cardinality(free') + Cardinality(Evictable(pin)')
  BY DEF Reserve
<1> QED
  BY <1>1, <1>2, <1>3, <1>5, <1>6

\* Eviction moves pages within the reserve.
LEMMA EvictReserve ==
  ASSUME MemInv, NEW E \in SUBSET Evictable(pin), Evict(E)
  PROVE  /\ Reserve(pin)' = Reserve(pin)
         /\ Cardinality(free') = Cardinality(free) + Cardinality(E)
         /\ Cardinality(E) \in Nat
         /\ E = Evictable(pin) => Cardinality(free') = Reserve(pin)
<1>1. /\ cache' = [p \in Cached \ E |-> cache[p]]
      /\ free' = free \cup {cache[p] : p \in E} /\ pin' = pin
  BY DEF Evict
<1>2. E \subseteq Cached /\ IsFiniteSet(E) /\ IsFiniteSet(Evictable(pin))
      /\ IsFiniteSet(free)
  <2>1. E \subseteq Cached
    BY DEF Evictable
  <2> QED
    BY <2>1, PagesFinite, ReserveTypes, FS_Subset
<1> DEFINE T == {cache[p] : p \in E}
<1>3. IsFiniteSet(T) /\ Cardinality(T) = Cardinality(E) /\ Cardinality(E) \in Nat
  <2>1. \A p, q \in E : cache[p] = cache[q] => p = q
    BY <1>2 DEF MemInv, NoSharing
  <2> QED
    BY <1>2, <2>1, ImageCard
<1>4. T \cap free = {}
  BY <1>2 DEF MemInv, NoSharing
<1>5. Cardinality(free') = Cardinality(free) + Cardinality(E) /\ Cardinality(free) \in Nat
  BY Zenon, <1>1, <1>2, <1>3, <1>4, DisjointCard
<1>6. Evictable(pin)' = Evictable(pin) \ E
  BY <1>1, <1>2 DEF Evictable, Cached, PinnedPaths, Path
<1>7. Cardinality(Evictable(pin)) = Cardinality(Evictable(pin) \ E) + Cardinality(E)
      /\ Cardinality(Evictable(pin) \ E) \in Nat
  <2>1. IsFiniteSet(Evictable(pin) \ E) /\ (Evictable(pin) \ E) \cap E = {}
        /\ (Evictable(pin) \ E) \cup E = Evictable(pin)
    BY <1>2, FS_Subset
  <2> QED
    BY Zenon, <1>2, <2>1, DisjointCard
<1>8. /\ Reserve(pin) = Cardinality(free) + Cardinality(Evictable(pin))
      /\ Reserve(pin)' = Cardinality(free') + Cardinality(Evictable(pin) \ E)
  BY <1>6 DEF Reserve
<1> QED
  BY <1>3, <1>5, <1>7, <1>8

\* The duplicates that are freed pay for the cached pages that are locked.
LEMMA StashReserve ==
  ASSUME MemInv, MemInv', NEW r \in Req, NEW K \in 0 .. NumPages, NEW m \in 0 .. NumPages,
         Whole(r, K), CacheUnfinished(r, K, m)
  PROVE  Reserve(pin)' >= Reserve(pin)
<1> DEFINE I == prot[r] + 1 .. m
           D == RowPages(r, prot[r] + 1, m)
           P == {Path(r, j) : j \in I}
<1>1. /\ IsMatch(r, K, m) /\ cache' = Inserted(r, K) /\ free' = free \cup D
      /\ pin' = [pin EXCEPT ![r] = K]
  BY DEF CacheUnfinished
<1>2. /\ prot[r] <= m /\ m <= K /\ K <= Len(table[r])
      /\ \A j \in m + 1 .. K : Path(r, j) \notin Cached
      /\ Cached \subseteq Cached'
  <2>1. InsertEffect(r, K, m)
    BY <1>1, InsertFacts
  <2> QED
    BY <1>1, <2>1 DEF InsertEffect, Cached
<1>3. /\ prot[r] \in Nat /\ pin[r] = prot[r] /\ pin \in [Req -> Nat] /\ m \in Nat /\ K \in Nat
      /\ Len(table[r]) \in Nat
  BY RowTypes, PageTypes DEF MemInv, MemTypeOK
<1>4. IsFiniteSet(I)
  <2>1. prot[r] + 1 \in Int /\ m \in Int
    BY <1>3
  <2> QED
    BY <2>1, FS_Interval
<1>5. IsFiniteSet(D) /\ Cardinality(D) = Cardinality(I) /\ D \cap free = {}
  <2>1. \A j \in I : j \in Private(r)
    BY <1>2, <1>3 DEF Private
  <2>2. \A i, j \in I : table[r][i] = table[r][j] => i = j
    BY <2>1, PrivateInjective DEF MemInv
  <2>3. D = {table[r][j] : j \in I}
    BY DEF RowPages
  <2>4. D \cap free = {}
    BY <2>1, <2>3 DEF MemInv, NoSharing
  <2> DEFINE f == table[r]
  <2> HIDE DEF I, D, f
  <2>5. D = {f[j] : j \in I} /\ \A i, j \in I : f[i] = f[j] => i = j
    BY <2>2, <2>3 DEF f
  <2> QED
    BY <1>4, <2>4, <2>5, ImageCard
<1>6. IsFiniteSet(P) /\ Cardinality(P) <= Cardinality(I)
  <2> DEFINE f == [j \in I |-> Path(r, j)]
  <2>1. P = {f[j] : j \in I}
    BY Zenon
  <2> HIDE DEF I, P, f
  <2> QED
    BY <1>4, <2>1, ImageCard
<1>7. Evictable(pin) \ Evictable(pin)' \subseteq P
  <2>1. SUFFICES ASSUME NEW p \in Evictable(pin), p \notin P, p \in PinnedPaths(pin)'
                 PROVE  FALSE
    BY <1>2 DEF Evictable
  <2>2. p \in Cached /\ p \notin PinnedPaths(pin)
    BY DEF Evictable
  <2>9. PICK q \in Req : \E j \in 1 .. pin'[q] : p = Path(q, j)
    BY <2>1 DEF PinnedPaths, Path
  <2>3. PICK j \in 1 .. pin'[q] : p = Path(q, j)
    BY <2>9
  <2>4. CASE q # r
    BY <1>1, <1>3, <2>2, <2>3, <2>4 DEF PinnedPaths
  <2>5. CASE q = r
    <3>1. pin'[r] = K /\ j \in 1 .. K
      BY <1>1, <1>3, <2>3, <2>5
    <3>2. CASE j <= prot[r]
      BY <1>3, <2>2, <2>3, <2>5, <3>1, <3>2 DEF PinnedPaths
    <3>3. CASE j \in I
      BY <2>1, <2>3, <2>5, <3>3
    <3>4. CASE j > m
      BY <1>2, <1>3, <2>2, <2>3, <2>5, <3>1, <3>4
    <3> QED
      BY <1>3, <3>1, <3>2, <3>3, <3>4
  <2> QED
    BY <2>4, <2>5
<1> HIDE DEF I, D, P
<1>8. IsFiniteSet(free) /\ IsFiniteSet(Evictable(pin)) /\ IsFiniteSet(Evictable(pin)')
  BY PagesFinite, ReserveTypes, NextReserveTypes
<1>9. Cardinality(free') = Cardinality(free) + Cardinality(D)
      /\ Cardinality(free) \in Nat /\ Cardinality(D) \in Nat
  BY Zenon, <1>1, <1>5, <1>8, DisjointCard
<1>10. /\ Cardinality(Evictable(pin)) <= Cardinality(Evictable(pin)') + Cardinality(P)
       /\ Cardinality(Evictable(pin)) \in Nat /\ Cardinality(Evictable(pin)') \in Nat
       /\ Cardinality(P) \in Nat
  BY <1>6, <1>7, <1>8, LessCard
<1>11. /\ Reserve(pin) = Cardinality(free) + Cardinality(Evictable(pin))
       /\ Reserve(pin)' = Cardinality(free') + Cardinality(Evictable(pin)')
  BY DEF Reserve
<1> QED
  BY <1>5, <1>6, <1>9, <1>10, <1>11

\* The pages in the lists given to the requests of a set.
Given(a, S) == UNION {{a[r][i] : i \in DOMAIN a[r]} : r \in S}

\* They are no more than the lists are long.
LEMMA GivenCard ==
  ASSUME NEW S, IsFiniteSet(S), NEW A, NEW a, NEW need,
         \A r \in S : a[r] \in Seq(A) /\ Len(a[r]) = need[r]
  PROVE  /\ IsFiniteSet(Given(a, S)) /\ Cardinality(Given(a, S)) \in Nat
         /\ Total(need, S) \in Nat /\ Cardinality(Given(a, S)) <= Total(need, S)
<1> DEFINE Good == {s \in SUBSET S : IsFiniteSet(Given(a, s))
                                     /\ Cardinality(Given(a, s)) <= Total(need, s)}
<1>0. /\ \A s \in SUBSET S : IsFiniteSet(s)
      /\ \A r \in S : need[r] \in Nat
  BY FS_Subset
<1>1. ASSUME NEW s \in SUBSET S, \A x \in s : s \ {x} \in Good PROVE s \in Good
  <2>1. CASE s = {}
    <3>1. Given(a, s) = {} /\ Total(need, s) = 0
      BY <2>1, SumEmpty DEF Given
    <3>2. IsFiniteSet(Given(a, s)) /\ Cardinality(Given(a, s)) = 0
      BY <3>1, FS_EmptySet
    <3>3. Cardinality(Given(a, s)) <= Total(need, s)
      BY <3>1, <3>2
    <3> QED
      BY <3>2, <3>3
  <2>2. CASE s # {}
    <3>1. PICK x \in s : TRUE
      BY <2>2
    <3> DEFINE t == s \ {x}
               X == Set(a[x])
    <3>2. IsFiniteSet(Given(a, t)) /\ Cardinality(Given(a, t)) <= Total(need, t)
      BY <1>1, <3>1
    <3>3. IsFiniteSet(X) /\ Cardinality(X) <= need[x]
      BY <3>1, SetType
    <3>4. Given(a, s) = Given(a, t) \cup X
      BY <3>1 DEF Given, Set
    <3>5. Total(need, s) = need[x] + Total(need, t)
      <4>1. IsFiniteSet(s) /\ \A r \in s : need[r] \in Int
        BY <1>0
      <4> QED
        BY Zenon, <3>1, <4>1, SumRemove
    <3>6. Total(need, t) \in Nat
      BY Zenon, <1>0, SumNat
    <3> HIDE DEF t, X
    <3>7. IsFiniteSet(Given(a, s)) /\ Cardinality(Given(a, s)) \in Nat
      BY Zenon, <3>2, <3>3, <3>4, FS_Union, FS_CardinalityType
    <3>8. Cardinality(Given(a, s)) <= Cardinality(Given(a, t)) + Cardinality(X)
          /\ Cardinality(Given(a, t)) \in Nat /\ Cardinality(X) \in Nat
      <4>1. Given(a, s) \ Given(a, t) \subseteq X
        BY <3>4
      <4> QED
        BY <3>2, <3>3, <3>7, <4>1, LessCard
    <3>9. need[x] \in Nat
      BY <1>0, <3>1
    <3> QED
      BY <3>2, <3>3, <3>5, <3>6, <3>7, <3>8, <3>9
  <2> QED
    BY <2>1, <2>2
<1>2. S \in Good
  <2> HIDE DEF Good
  <2>1. \A s \in SUBSET S : (\A x \in s : s \ {x} \in Good) => s \in Good
    BY <1>1
  <2>2. \A s \in SUBSET S : s \in Good
    BY <2>1, SubsetInduction, Zenon
  <2> QED
    BY <2>2
<1> QED
  BY <1>0, <1>2, SumNat, FS_CardinalityType

\* Rows that grow take what they need.
LEMMA GrowReserve ==
  ASSUME MemInv, MemInv', NEW S \in SUBSET Req, IsFiniteSet(S), NEW a, NEW need,
         IsAssignment(a, free), \A r \in S : Len(a[r]) = need[r], Grow(S, a)
  PROVE  /\ Total(need, S) \in Nat
         /\ Reserve(pin)' >= Reserve(pin) - Total(need, S)
<1>1. /\ free' = free \ Given(a, S) /\ cache' = cache /\ pin' = pin
  BY DEF Grow, Given
<1>2. \A r \in S : a[r] \in Seq(free) /\ Len(a[r]) = need[r]
  BY DEF IsAssignment
<1>3. /\ IsFiniteSet(Given(a, S)) /\ Cardinality(Given(a, S)) \in Nat
      /\ Total(need, S) \in Nat /\ Cardinality(Given(a, S)) <= Total(need, S)
  BY Zenon, <1>2, GivenCard
<1>4. IsFiniteSet(free) /\ IsFiniteSet(free')
  BY <1>1, PagesFinite, FS_Subset
<1>5. /\ Cardinality(free) <= Cardinality(free') + Cardinality(Given(a, S))
      /\ Cardinality(free) \in Nat /\ Cardinality(free') \in Nat
  <2>1. free \ free' \subseteq Given(a, S)
    BY <1>1
  <2> QED
    BY <1>3, <1>4, <2>1, LessCard
<1>6. Evictable(pin)' = Evictable(pin)
  BY <1>1 DEF Evictable, Cached, PinnedPaths, Path
<1>7. /\ Reserve(pin) = Cardinality(free) + Cardinality(Evictable(pin))
      /\ Reserve(pin)' = Cardinality(free') + Cardinality(Evictable(pin))
  BY <1>6 DEF Reserve
<1>8. Cardinality(Evictable(pin)) \in Nat
  BY ReserveTypes
<1> QED
  BY <1>3, <1>5, <1>7, <1>8

\* The new pages of one request are a number.
LEMMA NewPagesType ==
  ASSUME NEW n \in Nat, NEW m \in Nat
  PROVE  /\ NewPages(n, m) \in Int
         /\ n <= m => NewPages(n, m) \in Nat
<1>1. PagesFor(n) \in Nat /\ PagesFor(m) \in Nat
  BY PagesForBounds
<1>2. n <= m => PagesFor(n) <= PagesFor(m)
  BY PagesForMonotone
<1> QED
  BY <1>1, <1>2 DEF NewPages

\* alloc_extend for a batch takes what it needs, or there is too little.
LEMMA ExtendReserve ==
  ASSUME MemInv, MemInv', NEW S \in SUBSET Req, IsFiniteSet(S),
         NEW from \in [Req -> Nat], NEW to \in [Req -> Nat], NEW ph, ph # "oom",
         Extend(S, from, to, ph)
  PROVE  LET n == Total([r \in Req |-> NewPages(from[r], to[r])], S)
         IN  /\ phase' = "oom" <=> n > Cardinality(free)
             /\ phase' # "oom" => phase' = ph /\ Reserve(pin)' >= Reserve(pin) - n
<1> DEFINE f == [r \in Req |-> NewPages(from[r], to[r])]
           need == [r \in Req |-> IF r \in S THEN NewPages(from[r], to[r]) ELSE 0]
<1>1. Total(need, S) = Total(f, S)
  <2>1. \A r \in S : need[r] = f[r]
    OBVIOUS
  <2> HIDE DEF need, f
  <2> QED
    BY <2>1, SumAgree
<1>2. CASE Total(need, S) > Cardinality(free)
  BY <1>1, <1>2 DEF Extend
<1>3. CASE ~ (Total(need, S) > Cardinality(free))
  <2>1. PICK a : IsAssignment(a, free) /\ (\A r \in Req : Len(a[r]) = need[r]) /\ Grow(S, a)
    BY <1>3 DEF Extend
  <2>2. phase' = ph
    BY <1>3 DEF Extend
  <2> HIDE DEF need, f
  <2>3. Reserve(pin)' >= Reserve(pin) - Total(need, S)
    BY <2>1, GrowReserve
  <2> QED
    BY <1>1, <1>3, <2>2, <2>3 DEF f
<1> QED
  BY <1>2, <1>3

-----------------------------------------------------------------------------
(* Room for rows.                                                          *)

\* The steps that lead into a stage.
LEMMA StageSteps ==
  ASSUME BatchInv, [Next]_vars
  PROVE  /\ Stage' \in {"adding", "prefill_alloc"} =>
              \/ PlanPrefill \/ AddOneReq \/ FinishAdder \/ EvictFromTreeCache
              \/ UNCHANGED vars
         /\ Stage' = "prefill_alloc" => FinishAdder \/ EvictFromTreeCache \/ UNCHANGED vars
         /\ Stage' \in {"draft", "verify_alloc"} =>
              \/ CheckDecodeMem \/ DraftBlock \/ EvictFromTreeCache \/ UNCHANGED vars
         /\ Stage' = "verify_alloc" => DraftBlock \/ EvictFromTreeCache \/ UNCHANGED vars
         /\ phase' = "oom" => phase = "oom" \/ PrefillForward \/ DraftBlock \/ PrepareForVerify
<1>1. CASE UNCHANGED vars
  BY <1>1 DEF vars, ctl
<1>2. ASSUME NEW r \in Req, HandleGenerateRequest(r) \/ AbortRequest(r)
      PROVE  Stage' = "recv" /\ phase' = "recv"
  BY <1>2 DEF HandleGenerateRequest, AbortRequest, Stage, ctl
<1>3. CASE PauseInPlace \/ ContinueGeneration
  BY <1>3 DEF PauseInPlace, ContinueGeneration, Stage
<1>4. CASE PauseRetract
  <2>1. phase' \in {"recv", "pause_release"}
    BY <1>4, Zenon DEF PauseRetract
  <2> QED
    BY <2>1 DEF Stage
<1>5. CASE StashChunked \/ MergeLastBatch
  <2>1. phase' \in {"merge", "plan"}
    BY <1>5, Zenon DEF StashChunked, MergeLastBatch, Enter
  <2> QED
    BY <2>1 DEF Stage
<1>6. CASE PlanPrefill
  <2>1. phase' \in {"update", "adding"}
    BY <1>6, Zenon DEF PlanPrefill, Enter
  <2> QED
    BY <1>6, <2>1 DEF Stage
<1>7. CASE AddOneReq
  <2>1. phase = "adding" /\ UNCHANGED ctl
    BY <1>7, Zenon DEF AddOneReq
  <2> QED
    BY <1>7, <2>1 DEF Stage, ctl
<1>8. CASE FinishAdder
  <2>1. \/ phase' = "update"
        \/ phase' = "evict" /\ goal'.then = "prefill_alloc"
    BY <1>8 DEF FinishAdder, Enter, EvictThen
  <2> QED
    BY <1>8, <2>1 DEF Stage
<1>9. CASE EvictFromTreeCache
  <2>1. phase' # "oom"
    BY <1>9 DEF EvictFromTreeCache, BatchInv, SchedTypes, EvictStages
  <2> QED
    BY <1>9, <2>1
<1>10. CASE PrefillForward
  <2>1. phase' \in {"oom", "prefill_result"}
    <3>1. \/ phase' = "oom"
          \/ Extend(Set(adder.list), pre, fill, "prefill_result")
      BY <1>10, Zenon DEF PrefillForward
    <3> QED
      BY <3>1 DEF Extend
  <2> QED
    BY <1>10, <2>1 DEF Stage
<1>11. CASE PrefillResult \/ PrefillDone
  <2>1. phase' \in {"prefill_result", "recv"}
    BY <1>11, Zenon DEF PrefillResult, PrefillDone
  <2> QED
    BY <2>1 DEF Stage
<1>12. CASE UpdateRunningBatch
  <2>1. phase' = "recv" \/ (phase' = "evict" /\ goal'.then = "mem_check")
    <3>1. \E n : Enter("recv") \/ EvictThen(n, "mem_check")
      BY <1>12, Zenon DEF UpdateRunningBatch
    <3> QED
      BY <3>1 DEF Enter, EvictThen
  <2> QED
    BY <2>1 DEF Stage
<1>13. CASE CheckDecodeMem
  <2>1. \/ phase' \in {"draft", "abort_last", "retract"}
        \/ phase' = "evict" /\ goal'.then = "last_check"
    BY <1>13 DEF CheckDecodeMem, Enter, EvictThen
  <2> QED
    BY <1>13, <2>1 DEF Stage
<1>14. CASE Retract \/ RetractCheck \/ AbortLast \/ PauseRelease
  <2>1. \/ phase' = "recv"
        \/ phase' = "evict" /\ goal'.then \in {"retract_check", "recheck", "pause_release"}
    BY <1>14 DEF Retract, RetractCheck, AbortLast, PauseRelease, Enter, EvictThen
  <2> QED
    BY <2>1 DEF Stage
<1>15. CASE DraftBlock
  <2>1. phase' = "oom" \/ (phase' = "evict" /\ goal'.then = "verify_alloc")
    <3>1. \E n : Enter("oom") \/ EvictThen(n, "verify_alloc")
      BY <1>15, Zenon DEF DraftBlock
    <3> QED
      BY <3>1 DEF Enter, EvictThen
  <2> QED
    BY <1>15, <2>1 DEF Stage
<1>16. CASE PrepareForVerify
  <2>1. phase' \in {"oom", "verify"}
    BY <1>16 DEF PrepareForVerify, Extend
  <2> QED
    BY <1>16, <2>1 DEF Stage
<1>17. CASE Verify \/ DecodeResult \/ DecodeDone \/ PauseDone
  <2>1. phase' \in {"decode_result", "recv"}
    BY <1>17, Zenon DEF Verify, DecodeResult, DecodeDone, PauseDone
  <2> QED
    BY <2>1 DEF Stage
<1> QED
  BY <1>1, <1>2, <1>3, <1>4, <1>5, <1>6, <1>7, <1>8, <1>9, <1>10, <1>11, <1>12, <1>13,
     <1>14, <1>15, <1>16, <1>17
  DEF Next, LoopStep

\* Only a prefill gives rows out.
LEMMA RowsShrink ==
  ASSUME MemInv, BatchInv, [Next]_vars, ~PrefillForward
  PROVE  RowsHeld' \subseteq RowsHeld
<1>0. SchedTypes
  BY DEF BatchInv
<1>1. CASE UNCHANGED mem
  BY <1>1 DEF mem, RowsHeld
<1>2. ASSUME NEW r \in Req, HandleGenerateRequest(r) \/ AbortRequest(r) PROVE UNCHANGED mem
  BY <1>2 DEF HandleGenerateRequest, AbortRequest
<1>3. ASSUME \/ PauseInPlace \/ PauseRetract \/ ContinueGeneration
             \/ MergeLastBatch \/ PlanPrefill \/ FinishAdder \/ PrefillDone \/ PauseDone
             \/ UpdateRunningBatch \/ CheckDecodeMem \/ RetractCheck \/ DraftBlock \/ DecodeDone
      PROVE  UNCHANGED mem
  BY <1>3, Zenon DEF PauseInPlace, PauseRetract, ContinueGeneration, MergeLastBatch, PlanPrefill,
     FinishAdder, PrefillDone, PauseDone, UpdateRunningBatch, CheckDecodeMem, RetractCheck,
     DraftBlock, DecodeDone
<1>4. CASE StashChunked
  <2>1. phase = "recv"
    BY <1>4 DEF StashChunked
  <2>2. CASE chunked # NoReq
    <3>1. Stash(chunked)
      BY <1>4, <2>2, Zenon DEF StashChunked
    <3>2. chunked \in RowsHeld
      BY <2>1, <2>2, ChunkedRow DEF Stage, HeadStages
    <3> QED
      BY <1>0, <3>1, <3>2, StashRows DEF RowsHeld
  <2>3. CASE chunked = NoReq
    BY <1>1, <1>4, <2>3 DEF StashChunked
  <2> QED
    BY <2>2, <2>3
<1>5. CASE AddOneReq
  <2>1. UNCHANGED mem \/ \E r, m : Lock(r, m)
    BY <1>5, Zenon DEF AddOneReq
  <2>2. UNCHANGED table
    BY <2>1 DEF Lock, mem
  <2> QED
    BY <2>2 DEF RowsHeld
<1>6. CASE EvictFromTreeCache
  <2>1. UNCHANGED table
    BY Zenon, <1>6 DEF EvictFromTreeCache, Evict, mem
  <2> QED
    BY <2>1 DEF RowsHeld
<1>7. CASE PrefillResult
  <2> DEFINE r == adder.list[step]
  <2>1. phase = "prefill_result" /\ step <= Len(adder.list)
    BY <1>7 DEF PrefillResult
  <2>2. UNCHANGED mem \/ Finish(r) \/ Stash(r)
    BY <1>7, Zenon DEF PrefillResult
  <2>3. PICK q \in RowsHeld : q = r /\ q \in Req /\ table[q] # <<>>
    BY <2>1, PrefillRow DEF RowsHeld
  <2>4. CASE Finish(r)
    <3>1. Finish(q)
      BY <2>3, <2>4
    <3> QED
      BY <1>0, <2>3, <3>1, FinishRows
  <2>5. CASE Stash(r)
    <3>1. Stash(q)
      BY <2>3, <2>5
    <3> QED
      BY <1>0, <2>3, <3>1, StashRows
  <2> QED
    BY <1>1, <2>2, <2>4, <2>5
<1>8. CASE Retract
  <2>1. phase = "retract" /\ Drop(running[Len(running)])
    BY <1>8 DEF Retract
  <2>2. Len(running) > 1 /\ running \in Seq(Req)
    BY <2>1 DEF Stage, BatchInv, StageInv, SchedTypes
  <2>3. PICK q \in Req : q = running[Len(running)]
    BY <2>2
  <2>4. Drop(q)
    BY <2>1, <2>3
  <2> QED
    BY <1>0, <2>4, DropRows
<1>9. CASE AbortLast
  <2>1. phase = "abort_last" /\ Drop(running[1])
    BY <1>9 DEF AbortLast
  <2>2. Len(running) = 1 /\ running \in Seq(Req)
    BY <2>1 DEF Stage, BatchInv, StageInv, SchedTypes
  <2>3. PICK q \in Req : q = running[1]
    BY <2>2
  <2>4. Drop(q)
    BY <2>1, <2>3
  <2> QED
    BY <1>0, <2>4, DropRows
<1>10. CASE PauseRelease
  <2>1. phase = "pause_release" /\ step <= Len(running) /\ Drop(running[step])
    BY <1>10 DEF PauseRelease
  <2>2. step >= 1 /\ step \in Nat /\ running \in Seq(Req)
    BY <2>1 DEF Stage, BatchInv, StageInv, SchedTypes
  <2>3. PICK q \in Req : q = running[step]
    BY <2>1, <2>2
  <2>4. Drop(q)
    BY <2>1, <2>3
  <2> QED
    BY <1>0, <2>4, DropRows
<1>11. CASE PrepareForVerify
  <2>1. phase = "verify_alloc" /\ Extend(Set(running), committed, Plus(Block), "verify")
    BY <1>11 DEF PrepareForVerify
  <2>2. Set(running) \subseteq Req
    BY <1>0, ListTypes
  <2>3. RowsHeld = Set(running)
    BY <2>1, CleanRows DEF Stage, CleanStages
  <2>4. \A r \in Req \ Set(running) : table'[r] = table[r]
    <3>1. CASE phase' = "oom"
      <4>1. UNCHANGED mem
        BY <2>1, <3>1 DEF Extend
      <4> QED
        BY <4>1 DEF mem
    <3>2. CASE phase' # "oom"
      BY Zenon, <2>1, <2>2, <3>2, ExtendRows
    <3> QED
      BY <3>1, <3>2
  <2> QED
    BY <2>3, <2>4 DEF RowsHeld
<1>12. CASE Verify
  <2>1. PICK app \in [Req -> Nat] :
          Trim(Set(running), [r \in Set(running) |-> PagesFor(committed[r] + app[r])])
    BY Zenon, <1>12, VerifyEffect
  <2>2. RowsHeld = Set(running)
    <3>1. phase = "verify"
      BY <1>12 DEF Verify
    <3> QED
      BY <3>1, CleanRows DEF Stage, CleanStages
  <2>3. \A r \in Req \ Set(running) : table'[r] = table[r]
    BY <2>1 DEF Trim
  <2> QED
    BY <2>2, <2>3 DEF RowsHeld
<1>13. CASE DecodeResult
  <2>1. phase = "decode_result" /\ step <= Len(running)
        /\ (UNCHANGED mem \/ Finish(running[step]))
    BY <1>13, Zenon DEF DecodeResult
  <2>2. PICK q \in Req : q = running[step]
    BY <2>1, DecodeRow
  <2>3. CASE Finish(running[step])
    <3>1. Finish(q)
      BY <2>2, <2>3
    <3> QED
      BY <1>0, <3>1, FinishRows
  <2> QED
    BY <1>1, <2>1, <2>3
<1>14. CASE UNCHANGED vars
  BY <1>1, <1>14 DEF vars
<1> QED
  BY <1>1, <1>2, <1>3, <1>4, <1>5, <1>6, <1>7, <1>8, <1>9, <1>10, <1>11, <1>12, <1>13, <1>14
  DEF Next, LoopStep

\* The list of admitted requests does not change between its last admission
\* and the prefill.
LEMMA ListStays ==
  ASSUME BatchInv, \/ FinishAdder /\ Stage' = "prefill_alloc"
                   \/ EvictFromTreeCache
                   \/ UNCHANGED vars
  PROVE  /\ UNCHANGED <<adder, out, pre, fill, running, table>>
         /\ Stage' = Stage \/ Stage = "adding"
<1>1. CASE FinishAdder /\ Stage' = "prefill_alloc"
  <2>1. phase = "adding" /\ UNCHANGED <<mem, reqs, running>>
    BY <1>1, Zenon DEF FinishAdder
  <2>2. phase' # "update"
    BY <1>1 DEF Stage
  <2>3. UNCHANGED adder
    BY <1>1, <2>2, Zenon DEF FinishAdder, Enter
  <2> QED
    BY <2>1, <2>3 DEF mem, reqs, Stage
<1>2. CASE EvictFromTreeCache
  <2>1. /\ UNCHANGED <<reqs, sched, table>> /\ phase = "evict" /\ phase' = goal.then
        /\ goal.then \in EvictStages
    BY Zenon, <1>2 DEF EvictFromTreeCache, Evict, mem, BatchInv, SchedTypes
  <2> QED
    BY <2>1 DEF reqs, sched, Stage, EvictStages
<1>3. CASE UNCHANGED vars
  BY <1>3 DEF vars, mem, reqs, sched, ctl, Stage
<1> QED
  BY <1>1, <1>2, <1>3

LEMMA RowRoomStep ==
  ASSUME MemInv, BatchInv, RowRoom, [Next]_vars
  PROVE  RowRoom'
<1>0. IsFiniteSet(RowsHeld) /\ Cardinality(RowsHeld) \in Nat /\ SchedTypes
  BY RowsFinite DEF BatchInv
<1>1. IsFiniteSet(Set(adder.list)) /\ Set(adder.list) \subseteq Req
      /\ adder.list \in Seq(Req) /\ Len(adder.list) \in Nat
      /\ Cardinality(Set(adder.list)) <= Len(adder.list)
  BY <1>0, ListTypes, SetType
<1>2. MaxRunning \in Nat
  BY ParamTypes
<1>3. Cardinality(RowsHeld') <= MaxRunning /\ Cardinality(RowsHeld') \in Nat
  <2>1. PICK T : IsFiniteSet(T) /\ RowsHeld' \subseteq T /\ Cardinality(T) <= MaxRunning
    <3>1. CASE ~PrefillForward
      BY <1>0, <3>1, RowsShrink DEF RowRoom
    <3>2. CASE PrefillForward
      <4> DEFINE S == Set(adder.list)
      <4>1. Stage = "prefill_alloc"
        BY <3>2, Zenon DEF PrefillForward, Stage
      <4>2. Cardinality(S \cup RowsHeld) <= MaxRunning
        BY <4>1 DEF RowRoom
      <4>3. IsFiniteSet(S \cup RowsHeld)
        BY Zenon, <1>0, <1>1, JoinCard
      <4>4. \A q \in Req \ S : table'[q] = table[q]
        <5>1. UNCHANGED mem \/ Extend(S, pre, fill, "prefill_result")
          BY <3>2, Zenon DEF PrefillForward
        <5>2. CASE UNCHANGED mem
          BY <5>2 DEF mem
        <5>3. CASE Extend(S, pre, fill, "prefill_result") /\ phase' # "oom"
          BY Zenon, <1>1, <5>3, ExtendRows
        <5>4. CASE Extend(S, pre, fill, "prefill_result") /\ phase' = "oom"
          BY <5>2, <5>4 DEF Extend
        <5> QED
          BY <5>1, <5>2, <5>3, <5>4
      <4>5. RowsHeld' \subseteq S \cup RowsHeld
        BY <4>4 DEF RowsHeld
      <4> HIDE DEF S
      <4> QED
        BY <4>2, <4>3, <4>5
    <3> QED
      BY <3>1, <3>2
  <2>2. Cardinality(RowsHeld') <= Cardinality(T) /\ IsFiniteSet(RowsHeld')
    BY <2>1, FS_Subset
  <2>3. Cardinality(T) \in Nat /\ Cardinality(RowsHeld') \in Nat
    BY <2>1, <2>2, FS_CardinalityType
  <2> QED
    BY <1>2, <2>1, <2>2, <2>3
<1>4. ASSUME Stage' \in {"adding", "prefill_alloc"}
      PROVE  Cardinality(Set(adder'.list) \cup RowsHeld') <= MaxRunning
  <2>1. CASE PlanPrefill
    <3>1. phase = "plan" /\ UNCHANGED mem
      BY <2>1, Zenon DEF PlanPrefill
    <3>2. RowsHeld' = RowsHeld
      BY <3>1 DEF mem, RowsHeld
    <3>3. adder.list = <<>> /\ adder = NoAdder
      BY <3>1, NoAdderFacts DEF Stage, AddStages
    <3>4. Set(adder'.list) \subseteq RowsHeld
      <4>1. CASE adder' = adder \/ \E est \in Nat : adder' = Starting(est)
        BY <3>3, <4>1, StartingFacts, EmptySet
      <4>2. CASE chunked # NoReq /\ \E a, n, new : adder' = Charged(a, chunked, n, new) /\ a.list = <<>>
        <5>1. PICK a, n, new : adder' = Charged(a, chunked, n, new) /\ a.list = <<>>
          BY <4>2
        <5>2. adder'.list = Append(a.list, chunked)
          BY <5>1 DEF Charged
        <5>3. chunked \in RowsHeld
          BY <3>1, <4>2, ChunkedRow DEF Stage
        <5>4. PICK r \in RowsHeld : r = chunked
          BY <5>3
        <5>5. adder'.list = <<r>>
          BY <5>1, <5>2, <5>4
        <5> QED
          BY <5>4, <5>5 DEF Set
      <4> QED
        <5>1. \/ adder' = adder \/ \E est \in Nat : adder' = Starting(est)
              \/ chunked # NoReq
                 /\ \E est \in Nat : \E n, new : adder' = Charged(Starting(est), chunked, n, new)
          BY <2>1, PlanEffect, Zenon
        <5> QED
          BY <4>1, <4>2, <5>1, StartingFacts
    <3>5. Set(adder'.list) \cup RowsHeld' = RowsHeld
      BY <3>2, <3>4
    <3> QED
      BY <3>5 DEF RowRoom
  <2>2. CASE AddOneReq
    <3>1. phase = "adding"
      BY <2>2, Zenon DEF AddOneReq
    <3>2. CASE UNCHANGED <<mem, pre, fill>> /\ adder' = [adder EXCEPT !.idx = Break]
      <4>1. adder'.list = adder.list
        BY <1>0, <3>2 DEF SchedTypes, Adders
      <4>2. RowsHeld' = RowsHeld
        BY <3>2 DEF mem, RowsHeld
      <4> QED
        BY <3>1, <4>1, <4>2 DEF RowRoom, Stage
    <3>3. CASE \E r \in Req, m \in Nat, run \in Nat : Added(r, m, run)
      <4>1. PICK r \in Req, m \in Nat, run \in Nat : Added(r, m, run)
        BY <3>3
      <4>2. adder'.list = Append(adder.list, r) /\ Len(adder.list) < Allocatable /\ UNCHANGED table
        BY <4>1 DEF Added, Lock
      <4>3. RowsHeld' = RowsHeld
        BY <4>2 DEF RowsHeld
      <4> DEFINE T == Set(Append(adder.list, r))
      <4>4. IsFiniteSet(T) /\ Cardinality(T) <= Len(adder.list) + 1
        <5>1. Append(adder.list, r) \in Seq(Req) /\ Len(Append(adder.list, r)) = Len(adder.list) + 1
          BY <1>1
        <5> QED
          BY Zenon, <5>1, SetType
      <4> HIDE DEF T
      <4>5. /\ Cardinality(T \cup RowsHeld) \in Nat /\ Cardinality(T) \in Nat
            /\ Cardinality(T \cup RowsHeld) <= Cardinality(T) + Cardinality(RowsHeld)
        BY <1>0, <4>4, JoinCard
      <4>6. Len(adder.list) < MaxRunning - Cardinality(RowsHeld)
        <5>1. Len(running) \in Nat
          BY <1>0 DEF SchedTypes
        <5> QED
          BY <1>0, <1>1, <1>2, <4>2, <5>1 DEF Allocatable, Least
      <4>7. Cardinality(T \cup RowsHeld) <= MaxRunning
        BY <1>0, <1>1, <1>2, <4>4, <4>5, <4>6
      <4> QED
        BY <4>2, <4>3, <4>7 DEF T
    <3> QED
      BY <2>2, <3>2, <3>3, AddEffect
  <2>3. CASE FinishAdder \/ EvictFromTreeCache \/ UNCHANGED vars
    <3>1. FinishAdder => Stage' = "prefill_alloc"
      <4>1. FinishAdder => phase' \in {"update", "evict"}
        BY Zenon DEF FinishAdder, Enter, EvictThen
      <4>2. FinishAdder => phase' # "adding" /\ (phase' = "evict" => goal'.then = "prefill_alloc")
        BY <4>1 DEF FinishAdder, Enter, EvictThen
      <4> QED
        BY <1>4, <4>1, <4>2 DEF Stage
    <3>2. UNCHANGED <<adder, table>> /\ (Stage' = Stage \/ Stage = "adding")
      BY <2>3, <3>1, ListStays
    <3>3. RowsHeld' = RowsHeld
      BY <3>2 DEF RowsHeld
    <3> QED
      BY <1>4, <3>2, <3>3 DEF RowRoom
  <2> QED
    BY <1>4, <2>1, <2>2, <2>3, StageSteps
<1> QED
  BY <1>3, <1>4 DEF RowRoom

-----------------------------------------------------------------------------
(* Room for what is admitted.                                              *)

\* Without a change of free pages, cache and locks the reserve stays.
LEMMA SameReserve ==
  ASSUME UNCHANGED <<free, cache, pin>>
  PROVE  Reserve(pin)' = Reserve(pin) /\ Available' = Available
BY DEF Reserve, Available, Evictable, Cached, PinnedPaths, Path

LEMMA SameWanted ==
  ASSUME UNCHANGED <<out, pre>>
  PROVE  Wanted' = Wanted
BY DEF Wanted, InputLen

\* What requests want is a number.
LEMMA WantedTypes ==
  ASSUME BatchInv
  PROVE  /\ \A r \in Req : Wanted[r] = NewPages(pre[r], InputLen(r)) /\ Wanted[r] \in Int
         /\ Total(Wanted, Set(adder.list)) \in Int
         /\ IsFiniteSet(Set(adder.list)) /\ Set(adder.list) \subseteq Req
<1>1. SchedTypes /\ LengthsInv
  BY DEF BatchInv
<1>2. \A r \in Req : Wanted[r] = NewPages(pre[r], InputLen(r))
  BY DEF Wanted
<1>3. \A r \in Req : Wanted[r] \in Int
  <2> SUFFICES ASSUME NEW r \in Req PROVE Wanted[r] \in Int
    OBVIOUS
  <2>1. InputLen(r) \in Nat /\ pre[r] \in Nat
    BY Zenon, <1>1, InputBound DEF SchedTypes
  <2> QED
    BY Zenon, <1>2, <2>1, NewPagesType
<1>4. IsFiniteSet(Set(adder.list)) /\ Set(adder.list) \subseteq Req
  BY <1>1, ListTypes, SetType
<1>5. Total(Wanted, Set(adder.list)) \in Int
  <2> DEFINE S == Set(adder.list)
             f == Wanted
  <2>1. IsFiniteSet(S) /\ \A r \in S : f[r] \in Int
    BY <1>3, <1>4
  <2> HIDE DEF S, f
  <2>2. Total(f, S) \in Int
    BY <2>1, SumInt
  <2> QED
    BY <2>2 DEF S, f
<1> QED
  BY <1>2, <1>3, <1>4, <1>5

\* At the start only the rest of the cut prompt counts, for which there is room.
LEMMA AddRoomPlan ==
  ASSUME MemInv, BatchInv, ChunkRoom, PlanPrefill
  PROVE  AddRoom'
<1>0. /\ phase = "plan" /\ UNCHANGED <<mem, out, pre>> /\ SchedTypes /\ LengthsInv
      /\ Stage = "plan"
  BY Zenon DEF PlanPrefill, BatchInv, Stage
<1>1. Reserve(pin)' = Reserve(pin) /\ Reserve(pin) \in Nat /\ Wanted' = Wanted
  BY <1>0, SameReserve, SameWanted, ReserveTypes DEF mem
<1>2. CASE phase' = "update"
  BY <1>2 DEF AddRoom, Stage
<1>3. CASE \E est \in Nat : adder' = Starting(est)
  <2>1. PICK est \in Nat : adder' = Starting(est)
    BY <1>3
  <2>2. adder'.list = <<>> /\ adder'.off = est
    BY <2>1, StartingFacts
  <2>3. Set(adder'.list) = {}
    BY <2>2, EmptySet
  <2>4. Total(Wanted', Set(adder'.list)) = 0
    BY <2>3, SumEmpty
  <2> QED
    BY <1>1, <2>2, <2>4, PageTypes DEF AddRoom
<1>4. CASE chunked # NoReq
  <2>1. PICK c \in Req : c = chunked
    BY <1>0, <1>4 DEF SchedTypes
  <2>2. pre[c] = fill[c] /\ fill[c] < InputLen(c) /\ pre[c] \in Nat /\ InputLen(c) \in Nat
    BY Zenon, <1>0, <2>1, <1>4, InputBound DEF LengthsInv, Chunked, SchedTypes
  <2>3. Reserve(pin) >= Wanted[c] /\ Wanted[c] \in Int
        /\ Wanted[c] = PagesFor(InputLen(c)) - PagesFor(pre[c])
    BY <1>0, <1>4, <2>1, <2>2, WantedTypes DEF ChunkRoom, Chunked, NewPages
  <2>4. CASE phase' = "adding"
    <3>1. PICK est \in Nat, up \in {0, 1} :
            LET n == ChunkedLen(c, RemTotal(Starting(est), pin) - up)
                cut == n < InputLen(c) - pre[c]
            IN  /\ adder' = Charged(Starting(est), c, n,
                             IF cut THEN 0 ELSE Least(MaxNew[c], ClipMaxNew))
                /\ chunked' = IF cut THEN c ELSE NoReq
      BY <1>4, <2>1, <2>4, PlanEffect, Zenon
    <3> DEFINE rem == RemTotal(Starting(est), pin) - up
               n == ChunkedLen(c, rem)
               cut == n < InputLen(c) - pre[c]
               new == IF cut THEN 0 ELSE Least(MaxNew[c], ClipMaxNew)
    <3>2. rem \in Int
      <4>1. AvailableAndEvictable(pin) \in Nat /\ Starting(est).off \in Nat
        BY ReserveTypes, StartingFacts
      <4> QED
        BY <4>1 DEF RemTotal
    <3> HIDE DEF rem
    <3>3. n \in Nat /\ n <= InputLen(c) - pre[c]
      BY <2>2, <3>2, ChunkedLenFacts
    <3>4. adder' = Charged(Starting(est), c, n, new) /\ (~cut => n = InputLen(c) - pre[c])
          /\ (chunked' = NoReq => ~cut)
      <4>1. /\ adder' = Charged(Starting(est), c, n, new)
            /\ chunked' = IF cut THEN c ELSE NoReq
        BY <3>1, Zenon DEF rem
      <4>2. c # NoReq
        BY <1>4, <2>1
      <4> HIDE DEF n
      <4> QED
        BY <2>2, <3>3, <4>1, <4>2
    <3> HIDE DEF n
    <3>5. new \in Nat
      <4>1. MaxNew[c] \in Nat /\ ClipMaxNew \in Nat
        BY ParamTypes
      <4> QED
        BY <4>1 DEF Least
    <3> HIDE DEF cut, new
    <3>6. /\ adder'.list = Append(<<>>, c) /\ adder'.off = est + AlignUp(n) + new + PageSize
      <4>0. Starting(est) \in Adders /\ Starting(est).list = <<>> /\ Starting(est).off = est
        BY StartingFacts
      <4> DEFINE a0 == Starting(est)
      <4>1. a0 \in Adders
        BY <4>0
      <4>3. Charged(a0, c, n, new).list = Append(a0.list, c)
            /\ Charged(a0, c, n, new).off = a0.off + AlignUp(n) + new + PageSize
        <5> HIDE DEF a0
        <5> QED
          BY Zenon, <3>3, <3>5, <4>1, ChargedFacts
      <4> QED
        BY <3>4, <4>0, <4>3
    <3>7. Set(adder'.list) = {c}
      <4>1. adder'.list = <<c>>
        BY <3>6
      <4> QED
        BY <4>1 DEF Set
    <3>8. Total(Wanted', Set(adder'.list)) = Wanted[c]
      <4>1. Total(Wanted, {c}) = Wanted[c]
        BY Zenon, <2>3, SumOne
      <4> QED
        BY <1>1, <3>7, <4>1
    <3>9. ASSUME chunked' = NoReq PROVE adder'.off >= PageSize * Wanted[c]
      <4>1. n = InputLen(c) - pre[c]
        BY <3>4, <3>9
      <4>2. InputLen(c) = pre[c] + n
        BY <2>2, <3>3, <4>1
      <4> DEFINE x == PagesFor(InputLen(c))
                 y == PagesFor(pre[c])
                 z == PagesFor(n)
                 w == Wanted[c]
      <4>3. x <= y + z /\ x \in Nat /\ y \in Nat /\ z \in Nat
        BY Zenon, <2>2, <3>3, <4>2, PagesForSum, PagesForBounds
      <4>4. w = x - y /\ w \in Int
        BY <2>3
      <4>5. AlignUp(n) = z * PageSize
        BY DEF AlignUp
      <4> HIDE DEF x, y, z, w
      <4>6. w <= z
        BY <4>3, <4>4
      <4>7. PageSize * w <= z * PageSize
        <5>1. CASE w <= 0
          <6>1. PICK j \in Nat : w = -j
            <7>1. -w \in Nat /\ w = -(-w)
              BY <4>4, <5>1
            <7> QED
              BY <7>1
          <6>2. PageSize * w = -(j * PageSize) /\ j * PageSize \in Nat /\ z * PageSize \in Nat
            BY <4>3, <6>1, PageTypes
          <6> QED
            BY <6>2
        <5>2. CASE w > 0
          <6>1. w \in Nat /\ w * PageSize <= z * PageSize
            BY <4>3, <4>4, <4>6, <5>2, ScaleMonotone
          <6>2. PageSize * w = w * PageSize
            BY <6>1, PageTypes
          <6> QED
            BY <6>1, <6>2
        <5> QED
          BY <4>4, <5>1, <5>2
      <4>8. z * PageSize \in Nat /\ PageSize * w \in Int /\ PageSize \in Nat
        BY <4>3, <4>4, PageTypes
      <4>9. adder'.off = est + z * PageSize + new + PageSize
        BY <3>6, <4>5
      <4> QED
        BY <3>5, <4>7, <4>8, <4>9 DEF w
    <3> QED
      BY <1>1, <2>3, <3>8, <3>9 DEF AddRoom
  <2> QED
    BY <1>2, <2>4, <1>4, PlanEffect
<1> QED
  BY <1>2, <1>3, <1>4, PlanEffect, Zenon

\* A request is admitted only when all of it fits behind what the others want.
LEMMA AddRoomAdd ==
  ASSUME MemInv, BatchInv, BatchInv', AddRoom, AddOneReq
  PROVE  AddRoom'
<1>0. /\ phase = "adding" /\ UNCHANGED <<out, chunked, ctl>> /\ SchedTypes /\ LengthsInv
      /\ Stage = "adding" /\ Stage' = "adding"
  BY Zenon DEF AddOneReq, BatchInv, Stage, ctl
<1>1. CASE UNCHANGED <<mem, pre, fill>> /\ adder' = [adder EXCEPT !.idx = Break]
  <2>1. adder'.list = adder.list /\ adder'.new = adder.new /\ adder'.off = adder.off
    BY <1>0, <1>1 DEF SchedTypes, Adders
  <2>2. Reserve(pin)' = Reserve(pin) /\ Wanted' = Wanted
    BY <1>0, <1>1, SameReserve, SameWanted DEF mem
  <2> QED
    BY <1>0, <2>1, <2>2 DEF AddRoom
<1>2. CASE \E r \in Req, m \in Nat, run \in Nat : Added(r, m, run)
  <2>1. PICK r \in Req, m \in Nat, run \in Nat : Added(r, m, run)
    BY <1>2
  <2> DEFINE S == Set(adder.list)
             locked == [pin EXCEPT ![r] = m]
             ext == InputLen(r) - m * PageSize
             e == PagesFor(ext)
             n == Total(Wanted, S)
  <2>2. /\ m \in 0 .. MatchLimit(r) /\ Lock(r, m) /\ pre' = [pre EXCEPT ![r] = m * PageSize]
        /\ adder'.list = Append(adder.list, r) /\ adder.chunk >= PageSize
        /\ adder'.new = IF m * PageSize + run = InputLen(r) THEN adder.new ELSE r
        /\ adder'.off >= adder.off + AlignUp(run) + PageSize
        /\ adder' \in Adders /\ RemTotal(adder, pin) > 0 /\ RemTotal(adder, locked) > AlignUp(ext)
    BY <2>1 DEF Added
  <2>3. InputLen(r) \in Nat /\ m * PageSize \in Nat /\ ext \in Nat /\ ext >= 1
    BY <1>0, <2>2, MatchLeft
  <2>4. e \in Nat /\ AlignUp(ext) = e * PageSize
    BY <2>3, PagesForBounds DEF AlignUp
  <2>5. /\ IsFiniteSet(S) /\ S \subseteq Req /\ n \in Int /\ adder.list \in Seq(Req)
        /\ \A q \in Req : Wanted[q] = NewPages(pre[q], InputLen(q)) /\ Wanted[q] \in Int
    BY <1>0, WantedTypes, ListTypes
  <2>6. Set(adder'.list) = S \cup {r} /\ r \notin S
    <3>1. IsInjective(Append(adder.list, r))
      BY <2>2 DEF BatchInv, PlacesInv
    <3>2. r \notin S
      <4> SUFFICES ASSUME NEW i \in DOMAIN adder.list, adder.list[i] = r PROVE FALSE
        BY DEF Set
      <4> DEFINE l == Append(adder.list, r)
                 k == Len(adder.list) + 1
      <4>1. i \in 1 .. Len(adder.list) /\ Len(adder.list) \in Nat
        BY <2>5
      <4>2. i \in DOMAIN l /\ k \in DOMAIN l /\ l[i] = r /\ l[k] = r
        BY <2>5, <4>1
      <4>3. i = k
        BY <3>1, <4>2 DEF IsInjective
      <4> QED
        BY <4>1, <4>3
    <3> QED
      BY <2>2, <2>5, <3>2, SetAppend
  <2>7. pin' = locked /\ free' = free /\ cache' = cache
    BY <2>2 DEF Lock
  <2>8. Reserve(pin)' = Reserve(locked) /\ Reserve(locked) \in Nat
        /\ AvailableAndEvictable(locked) = Reserve(locked) * PageSize
    <3>1. Reserve(pin)' = Reserve(locked)
      BY <2>7 DEF Reserve, Evictable, Cached, PinnedPaths, Path
    <3> QED
      BY <3>1, ReserveTypes
  <2>9. \A q \in Req : Wanted'[q] = NewPages(pre'[q], InputLen(q))
    BY <1>0 DEF Wanted, InputLen
  <2>10. Wanted'[r] = e
    <3>1. pre \in [Req -> Nat]
      BY <1>0 DEF SchedTypes
    <3>2. pre'[r] = m * PageSize
      BY <2>2, <3>1
    <3>3. InputLen(r) = m * PageSize + ext
      BY <2>3
    <3> HIDE DEF ext
    <3>4. PagesFor(InputLen(r)) = m + e /\ PagesFor(m * PageSize) = m
      BY <2>3, <3>3, PagesForBehind, PagesForWhole
    <3> HIDE DEF e
    <3> QED
      BY <2>4, <2>9, <3>2, <3>4 DEF NewPages
  <2>11. \A q \in S : Wanted'[q] = Wanted[q]
    <3>1. pre \in [Req -> Nat]
      BY <1>0 DEF SchedTypes
    <3>2. \A q \in S : pre'[q] = pre[q]
      BY <2>2, <2>5, <2>6, <3>1
    <3> QED
      BY <2>5, <2>9, <3>2
  <2>12. Total(Wanted', Set(adder'.list)) = e + n
    <3> DEFINE f == Wanted
               g == Wanted'
    <3>0. IsFiniteSet(S) /\ (\A q \in S : f[q] = g[q] /\ f[q] \in Int) /\ g[r] = e
          /\ Set(adder'.list) = S \cup {r} /\ r \notin S /\ e \in Int /\ n = Total(f, S)
      BY <2>4, <2>5, <2>6, <2>10, <2>11
    <3> HIDE DEF S, f, g, e, n
    <3>1. Total(g, S) = n
      BY <3>0, SumAgree
    <3>2. \A q \in S \cup {r} : g[q] \in Int
      BY <3>0
    <3>3. Total(g, S \cup {r}) = g[r] + Total(g, S)
      BY Zenon, <3>0, <3>2, SumAdd
    <3>4. Total(g, Set(adder'.list)) = e + n
      BY <3>0, <3>1, <3>3
    <3> QED
      BY <3>4 DEF g
  <2>13. chunked = NoReq /\ adder.new = NoReq
    <3>1. adder.chunk \in Int /\ adder.off \in Nat
      BY <1>0 DEF SchedTypes, Adders
    <3>2. RemTotal(adder, pin) \in Int
      <4>1. AvailableAndEvictable(pin) \in Nat
        BY ReserveTypes
      <4> QED
        BY <3>1, <4>1 DEF RemTotal
    <3>3. ~(adder.chunk < PageSize) /\ ~(RemTotal(adder, pin) <= 0)
      BY <2>2, <3>1, <3>2, PageTypes
    <3> QED
      BY <1>0, <3>3 DEF BatchInv, AddingInv
  <2>14. adder.off >= PageSize * n /\ adder.off \in Nat
    BY <1>0, <2>13 DEF AddRoom, SchedTypes, Adders
  <2> HIDE DEF S, n, e, locked
  <2>15. Reserve(locked) >= e + n
    <3> DEFINE R == Reserve(locked)
               o == adder.off
    <3>1. R * PageSize - o > e * PageSize /\ o >= PageSize * n /\ o \in Nat /\ R \in Nat
          /\ e \in Nat /\ n \in Int
      BY <2>2, <2>4, <2>5, <2>8, <2>14 DEF RemTotal
    <3> HIDE DEF R, o
    <3>2. R * PageSize \in Nat /\ e * PageSize \in Nat /\ PageSize * n \in Int
      BY <3>1, PageTypes
    <3>3. R * PageSize > e * PageSize + PageSize * n
      BY <3>1, <3>2
    <3>4. ASSUME R < e + n PROVE FALSE
      <4>1. R <= e + n /\ e + n \in Nat
        BY <3>1, <3>4
      <4>2. R * PageSize <= (e + n) * PageSize
        BY <3>1, <4>1, ScaleMonotone
      <4>3. (e + n) * PageSize = e * PageSize + PageSize * n
        BY <3>1, PageTypes
      <4> QED
        BY <3>2, <3>3, <4>2, <4>3
    <3>5. R >= e + n
      BY <3>1, <3>4
    <3> QED
      BY <3>5 DEF R
  <2>16. ASSUME adder'.new = NoReq PROVE adder'.off >= PageSize * (e + n)
    <3>1. m * PageSize + run = InputLen(r)
      <4>1. r # NoReq
        BY ParamTypes
      <4> QED
        BY <2>2, <2>16, <4>1
    <3>2. run = ext
      BY <2>3, <3>1
    <3>3. adder'.off >= adder.off + e * PageSize + PageSize
      BY <2>2, <2>4, <3>2
    <3>4. PageSize * (e + n) = e * PageSize + PageSize * n
          /\ e * PageSize \in Nat /\ PageSize * n \in Int /\ PageSize \in Nat
      BY <2>4, <2>5, PageTypes DEF n
    <3>5. adder'.off \in Nat
      BY <2>2 DEF Adders
    <3> QED
      BY <2>14, <3>3, <3>4, <3>5
  <2>17. Reserve(pin)' >= Total(Wanted', Set(adder'.list))
    BY <2>8, <2>12, <2>15
  <2>18. adder'.new = NoReq => adder'.off >= PageSize * Total(Wanted', Set(adder'.list))
    BY <2>12, <2>16
  <2> QED
    BY <1>0, <2>17, <2>18 DEF AddRoom
<1> QED
  BY <1>1, <1>2, AddEffect

LEMMA AddRoomStep ==
  ASSUME MemInv, BatchInv, BatchInv', AddRoom, ChunkRoom, [Next]_vars
  PROVE  AddRoom'
<1>1. CASE \/ FinishAdder /\ Stage' = "prefill_alloc"
           \/ EvictFromTreeCache /\ Stage' = "prefill_alloc"
           \/ UNCHANGED vars
  <2>1. /\ UNCHANGED <<adder, out, pre>> /\ (Stage' = Stage \/ Stage = "adding")
    BY <1>1, ListStays
  <2>2. Wanted' = Wanted
    BY <2>1, SameWanted
  <2>3. Reserve(pin)' = Reserve(pin)
    <3>1. CASE FinishAdder \/ UNCHANGED vars
      <4>1. UNCHANGED mem
        BY <3>1, Zenon DEF FinishAdder, vars
      <4> QED
        BY <4>1, SameReserve DEF mem
    <3>2. CASE EvictFromTreeCache
      <4>1. UNCHANGED mem \/ \E E \in Evictions(goal.need) : Evict(E)
        BY <3>2 DEF EvictFromTreeCache
      <4>2. CASE UNCHANGED mem
        BY <4>2, SameReserve DEF mem
      <4>3. CASE \E E \in SUBSET Evictable(pin) : Evict(E)
        BY <4>3, EvictReserve
      <4> QED
        BY <4>1, <4>2, <4>3 DEF Evictions
    <3> QED
      BY <1>1, <3>1, <3>2
  <2>4. UNCHANGED vars => chunked' = chunked
    BY DEF vars, sched
  <2>5. ~(UNCHANGED vars) => Stage' = "prefill_alloc"
    BY <1>1
  <2>6. Stage' = "adding" => Stage = "adding" /\ chunked' = chunked
    BY <2>1, <2>4, <2>5
  <2>7. Stage' \in {"adding", "prefill_alloc"} => Stage \in {"adding", "prefill_alloc"}
    BY <2>1
  <2> QED
    BY <2>1, <2>2, <2>3, <2>6, <2>7 DEF AddRoom
<1>2. CASE Stage' \notin {"adding", "prefill_alloc"}
  BY <1>2 DEF AddRoom
<1>3. CASE PlanPrefill
  BY <1>3, AddRoomPlan
<1>4. CASE AddOneReq
  BY <1>4, AddRoomAdd
<1>5. ASSUME FinishAdder \/ EvictFromTreeCache PROVE Stage' # "adding"
  <2>1. phase' # "adding" /\ (phase' = "evict" => goal'.then # "adding")
    BY Zenon, <1>5 DEF FinishAdder, Enter, EvictThen, EvictFromTreeCache, BatchInv, SchedTypes, EvictStages
  <2> QED
    BY <2>1 DEF Stage
<1> QED
  BY <1>1, <1>2, <1>3, <1>4, <1>5, StageSteps

-----------------------------------------------------------------------------
(* Room for a prefill.                                                     *)

\* Fewer tokens fit into fewer pages.
LEMMA ScaleCancel ==
  ASSUME NEW a \in Int, NEW b \in Nat, a * PageSize <= b * PageSize
  PROVE  a <= b
<1>1. SUFFICES ASSUME b < a PROVE FALSE
  OBVIOUS
<1>2. a \in Nat
  BY <1>1
<1>3. b * PageSize < a * PageSize
  BY <1>1, <1>2, ScaleStrict
<1>4. b * PageSize \in Nat /\ a * PageSize \in Nat
  BY <1>2, PageTypes
<1> QED
  BY <1>3, <1>4

\* The pages one request takes, in tokens.
LEMMA TakingOne ==
  ASSUME NEW n \in Nat, NEW m \in Nat, n < m
  PROVE  /\ NewPages(n, m) \in Nat
         /\ PageSize * NewPages(n, m) <= (m - n) + PageSize
         /\ PageSize = 1 => NewPages(n, m) = m - n
<1> DEFINE a == PagesFor(n)
           b == PagesFor(m)
<1>1. /\ a \in Nat /\ b \in Nat /\ n <= a * PageSize /\ a * PageSize < n + PageSize
      /\ m <= b * PageSize /\ b * PageSize < m + PageSize
      /\ a * PageSize \in Nat /\ b * PageSize \in Nat
  BY PagesForBounds, PageTypes
<1>2. NewPages(n, m) \in Nat /\ NewPages(n, m) = b - a
  BY NewPagesType DEF NewPages
<1> HIDE DEF a, b
<1>3. PageSize * NewPages(n, m) = b * PageSize - a * PageSize
  BY <1>1, <1>2, PageTypes
<1>4. PageSize * NewPages(n, m) <= (m - n) + PageSize
  BY <1>1, <1>3, PageTypes
<1>5. ASSUME PageSize = 1 PROVE NewPages(n, m) = m - n
  <2>1. a * PageSize = a /\ b * PageSize = b
    BY <1>1, <1>5
  <2>2. a = n /\ b = m
    BY <1>1, <1>5, <2>1
  <2> QED
    BY <1>2, <2>2
<1> QED
  BY <1>2, <1>4, <1>5

\* The cache is asked for enough.
LEMMA TakingTokens ==
  ASSUME BatchInv, Stage = "prefill_alloc"
  PROVE  LET S == Set(adder.list)
             n == Total(Taking, S)
         IN  /\ n \in Nat /\ n <= Total(Wanted, S)
             /\ EvictTokens(Total(Computing, S), Len(adder.list)) \in Nat
             /\ n * PageSize <= EvictTokens(Total(Computing, S), Len(adder.list))
<1> DEFINE S == Set(adder.list)
           n == Total(Taking, S)
           l == Total(Computing, S)
           k == Len(adder.list)
<1>0. SchedTypes /\ LengthsInv /\ IsFiniteSet(S) /\ S \subseteq Req
      /\ k \in Nat /\ Cardinality(S) <= k /\ Cardinality(S) \in Nat
  <2>1. SchedTypes /\ LengthsInv /\ adder.list \in Seq(Req)
    BY ListTypes DEF BatchInv
  <2> QED
    BY <2>1, SetType, FS_CardinalityType
<1>1. ASSUME NEW r \in S
      PROVE  /\ pre[r] \in Nat /\ fill[r] \in Nat /\ pre[r] < fill[r] /\ fill[r] <= InputLen(r)
             /\ InputLen(r) \in Nat
  BY Zenon, <1>0, <1>1, InputBound DEF LengthsInv, SchedTypes
<1>2. ASSUME NEW r \in S
      PROVE  /\ Computing[r] = fill[r] - pre[r] /\ Computing[r] \in Nat
             /\ Taking[r] = NewPages(pre[r], fill[r]) /\ Taking[r] \in Nat
             /\ Wanted[r] \in Int /\ Taking[r] <= Wanted[r]
             /\ PageSize * Taking[r] <= Computing[r] + PageSize
             /\ PageSize = 1 => Taking[r] = Computing[r]
  <2>1. /\ r \in Req /\ pre[r] \in Nat /\ fill[r] \in Nat /\ pre[r] < fill[r]
        /\ fill[r] <= InputLen(r) /\ InputLen(r) \in Nat
    BY <1>0, <1>1, <1>2
  <2>2. /\ Computing[r] = fill[r] - pre[r] /\ Taking[r] = NewPages(pre[r], fill[r])
        /\ Wanted[r] = NewPages(pre[r], InputLen(r))
    BY <2>1 DEF Computing, Taking, Wanted
  <2>3. PagesFor(fill[r]) <= PagesFor(InputLen(r)) /\ PagesFor(fill[r]) \in Nat
        /\ PagesFor(InputLen(r)) \in Nat /\ PagesFor(pre[r]) \in Nat
    BY <2>1, PagesForMonotone, PagesForBounds
  <2>4. Wanted[r] \in Int /\ Taking[r] <= Wanted[r]
    BY <2>2, <2>3 DEF NewPages
  <2>5. /\ NewPages(pre[r], fill[r]) \in Nat
        /\ PageSize * NewPages(pre[r], fill[r]) <= (fill[r] - pre[r]) + PageSize
        /\ PageSize = 1 => NewPages(pre[r], fill[r]) = fill[r] - pre[r]
    BY <2>1, TakingOne
  <2>6. Computing[r] \in Nat
    BY <2>1, <2>2
  <2> QED
    BY <2>2, <2>4, <2>5, <2>6
<1> DEFINE f == Taking
           g == Computing
           w == Wanted
           p == [r \in S |-> PageSize * f[r]]
           q == [r \in S |-> g[r] + PageSize]
           c == [r \in S |-> PageSize]
<1>3. \A r \in S : /\ f[r] \in Nat /\ g[r] \in Nat /\ w[r] \in Int /\ f[r] <= w[r]
                   /\ PageSize * f[r] <= g[r] + PageSize /\ (PageSize = 1 => f[r] = g[r])
  BY <1>2
<1>4. n = Total(f, S) /\ l = Total(g, S) /\ Total(w, S) = Total(Wanted, S)
  OBVIOUS
<1> HIDE DEF S, n, l, k, f, g, w
<1>5. n \in Nat /\ l \in Nat
  BY <1>0, <1>3, <1>4, SumNat
<1>6. n <= Total(w, S)
  <2>1. \A r \in S : f[r] \in Int /\ w[r] \in Int /\ f[r] <= w[r]
    BY <1>3
  <2> QED
    BY <1>0, <1>4, <2>1, SumMonotone
<1>7. CASE PageSize = 1
  <2>1. n = l
    BY <1>0, <1>3, <1>4, <1>7, SumAgree
  <2>2. EvictTokens(l, k) = l
    BY <1>7 DEF EvictTokens
  <2>3. n * PageSize = n
    BY <1>5, <1>7
  <2> QED
    BY <1>4, <1>5, <1>6, <2>1, <2>2, <2>3 DEF S, n, l, k, w
<1>8. CASE PageSize # 1
  <2>0. PageSize \in Nat
    BY PageTypes
  <2>1. Total(p, S) = PageSize * n
    <3>1. \A r \in S : f[r] \in Int /\ p[r] = PageSize * f[r]
      BY <1>3
    <3> HIDE DEF p
    <3> QED
      BY <1>0, <1>4, <2>0, <3>1, SumScale
  <2>2. Total(p, S) <= Total(q, S)
    <3>1. \A r \in S : p[r] \in Int /\ q[r] \in Int /\ p[r] <= q[r]
      BY <1>3, <2>0
    <3> HIDE DEF p, q
    <3> QED
      BY <1>0, <3>1, SumMonotone
  <2>3. Total(q, S) - Total(c, S) = l /\ Total(q, S) \in Int
    <3>1. \A r \in S : q[r] \in Int /\ c[r] \in Int /\ g[r] = q[r] - c[r]
      BY <1>3, <2>0
    <3> HIDE DEF q, c
    <3>2. l = Total(q, S) - Total(c, S)
      BY <1>0, <1>4, <3>1, SumMinus
    <3> QED
      BY <1>0, <3>1, <3>2, SumInt
  <2>4. Total(c, S) \in 0 .. PageSize * Cardinality(S)
    <3>1. \A r \in S : c[r] \in 0 .. PageSize
      BY <2>0
    <3> HIDE DEF c
    <3> QED
      BY <1>0, <2>0, <3>1, SumBound
  <2>5. PageSize * Cardinality(S) <= k * PageSize /\ k * PageSize \in Nat
        /\ PageSize * Cardinality(S) \in Nat
    <3>1. Cardinality(S) * PageSize <= k * PageSize
      BY <1>0, ScaleMonotone
    <3>2. PageSize * Cardinality(S) = Cardinality(S) * PageSize
      BY <1>0, <2>0
    <3> QED
      BY <1>0, <2>0, <3>1, <3>2
  <2>6. EvictTokens(l, k) = l + k * PageSize
    BY <1>8 DEF EvictTokens
  <2>7. n * PageSize = PageSize * n /\ PageSize * n \in Nat
    BY <1>5, <2>0
  <2> HIDE DEF p, q, c
  <2>8. n * PageSize <= l + k * PageSize /\ l + k * PageSize \in Nat
    <3>1. Total(c, S) \in Int /\ Total(c, S) <= k * PageSize
      BY <2>4, <2>5
    <3>2. Total(q, S) <= l + k * PageSize
      BY <1>5, <2>3, <2>5, <3>1
    <3> QED
      BY <1>5, <2>1, <2>2, <2>3, <2>5, <2>7, <3>2
  <2> QED
    BY <1>4, <1>5, <1>6, <2>6, <2>8 DEF S, n, l, k, w
<1> QED
  BY <1>7, <1>8

LEMMA AllocRoomStep ==
  ASSUME MemInv, BatchInv, AddRoom, AllocRoom, [Next]_vars
  PROVE  AllocRoom'
<1> DEFINE S == Set(adder.list)
           n == Total(Taking, S)
           N == EvictTokens(Total(Computing, S), Len(adder.list))
<1>1. CASE Stage' # "prefill_alloc"
  BY <1>1 DEF AllocRoom, Stage
<1>2. ASSUME UNCHANGED <<adder, pre, fill>>
      PROVE  /\ Set(adder'.list) = S /\ Len(adder'.list) = Len(adder.list)
             /\ Taking' = Taking /\ Computing' = Computing
  BY <1>2 DEF Taking, Computing
<1>3. CASE FinishAdder /\ Stage' = "prefill_alloc"
  <2>1. UNCHANGED <<adder, pre, fill>>
    BY <1>3, ListStays
  <2>2. phase' # "update"
    BY <1>3 DEF Stage
  <2>3. EvictThen(EvictTokens(Total([r \in Req |-> fill[r] - pre[r]], Set(adder.list)),
                              Len(adder.list)), "prefill_alloc")
    BY <1>3, <2>2, Zenon DEF FinishAdder, Enter
  <2>4. phase' = "evict" /\ goal'.need = N
    BY <2>3 DEF EvictThen, Computing
  <2> QED
    BY <1>2, <2>1, <2>4 DEF AllocRoom
<1>4. CASE UNCHANGED vars
  <2>1. UNCHANGED <<adder, pre, fill>> /\ phase' = phase /\ goal' = goal /\ free' = free
    BY <1>4 DEF vars, mem, reqs, sched, ctl
  <2> QED
    BY <1>2, <2>1 DEF AllocRoom
<1>5. CASE EvictFromTreeCache /\ Stage' = "prefill_alloc"
  <2>1. UNCHANGED <<adder, pre, fill>> /\ phase = "evict" /\ phase' = goal.then
    BY <1>5, ListStays DEF EvictFromTreeCache
  <2>2. phase' # "evict"
    BY <2>1 DEF BatchInv, SchedTypes, EvictStages
  <2>3. goal.then = "prefill_alloc" /\ Stage = "prefill_alloc"
    BY <1>5, <2>1, <2>2 DEF Stage
  <2>4. /\ n \in Nat /\ n <= Total(Wanted, S) /\ N \in Nat /\ n * PageSize <= N
        /\ Total(Wanted, S) \in Int
    BY <2>3, TakingTokens, WantedTypes
  <2>5. Reserve(pin) >= Total(Wanted, S) /\ goal.need = N
    BY <2>1, <2>3 DEF AddRoom, AllocRoom
  <2>6. Reserve(pin) \in Nat /\ Cardinality(free) \in Nat
    BY ReserveTypes, PagesFinite
  <2> HIDE DEF n, N
  <2>7. n <= Cardinality(free')
    <3>1. CASE UNCHANGED mem /\ ~(Available < goal.need)
      <4>1. n * PageSize <= Cardinality(free) * PageSize
        <5>1. Available = Cardinality(free) * PageSize /\ Available \in Nat
              /\ n * PageSize \in Nat
          BY <2>4, <2>6, PageTypes DEF Available
        <5> QED
          BY <2>4, <2>5, <3>1, <5>1
      <4> QED
        BY <2>4, <2>6, <3>1, <4>1, ScaleCancel DEF mem
    <3>2. CASE \E E \in Evictions(goal.need) : Evict(E)
      <4>1. PICK E \in SUBSET Evictable(pin) :
              Evict(E) /\ (Cardinality(E) * PageSize >= goal.need \/ E = Evictable(pin))
        BY <3>2 DEF Evictions
      <4>2. /\ Cardinality(free') = Cardinality(free) + Cardinality(E) /\ Cardinality(E) \in Nat
            /\ E = Evictable(pin) => Cardinality(free') = Reserve(pin)
        BY <4>1, EvictReserve
      <4>3. CASE Cardinality(E) * PageSize >= goal.need
        <5>1. n * PageSize <= Cardinality(E) * PageSize
          <6>1. n * PageSize \in Nat /\ Cardinality(E) * PageSize \in Nat
            BY <2>4, <4>2, PageTypes
          <6> QED
            BY <2>4, <2>5, <4>3, <6>1
        <5>2. n <= Cardinality(E)
          BY <2>4, <4>2, <5>1, ScaleCancel
        <5> QED
          BY <2>4, <2>6, <4>2, <5>2
      <4>4. CASE E = Evictable(pin)
        BY <2>4, <2>5, <2>6, <4>2, <4>4
      <4> QED
        BY <4>1, <4>3, <4>4
    <3> QED
      BY <1>5, <3>1, <3>2 DEF EvictFromTreeCache
  <2> QED
    BY <1>2, <2>1, <2>2, <2>7 DEF AllocRoom, n
<1> QED
  BY <1>1, <1>3, <1>4, <1>5, StageSteps

-----------------------------------------------------------------------------
(* Room for the rest of a cut prompt.                                      *)

\* A prefill takes pages for what it computes, and leaves those for the rest.
LEMMA ChunkRoomPrefill ==
  ASSUME MemInv, MemInv', BatchInv, AddRoom, AllocRoom, PrefillForward, phase' # "oom"
  PROVE  ChunkRoom'
<1> DEFINE S == Set(adder.list)
           n == Total(Taking, S)
           w == Total(Wanted, S)
<1>0. /\ phase = "prefill_alloc" /\ Stage = "prefill_alloc"
      /\ UNCHANGED <<out, pre, fill, chunked>>
      /\ Extend(S, pre, fill, "prefill_result") /\ SchedTypes /\ LengthsInv
  BY Zenon DEF PrefillForward, sched, BatchInv, Stage
<1>1. IsFiniteSet(S) /\ S \subseteq Req /\ w \in Int /\ \A r \in Req : Wanted[r] \in Int
  BY WantedTypes
<1>2. n \in Nat /\ n <= w
  BY <1>0, TakingTokens
<1>3. Reserve(pin)' >= Reserve(pin) - n
  <2> DEFINE from == pre
             to == fill
  <2>1. from \in [Req -> Nat] /\ to \in [Req -> Nat] /\ Extend(S, from, to, "prefill_result")
    BY <1>0 DEF SchedTypes
  <2>2. Total([r \in Req |-> NewPages(from[r], to[r])], S) = n
    BY DEF Taking
  <2> HIDE DEF from, to, S, n
  <2> QED
    BY <1>1, <2>1, <2>2, ExtendReserve
<1>4. Reserve(pin) >= w /\ Reserve(pin) \in Nat /\ Reserve(pin)' \in Nat
  BY <1>0, ReserveTypes, NextReserveTypes DEF AddRoom
<1>5. SUFFICES ASSUME NEW r \in Chunked
               PROVE  Reserve(pin)' >= NewPages(fill[r], InputLen(r))
  BY <1>0 DEF ChunkRoom, Chunked, InputLen
<1>6. r \in S /\ r \in Req
  <2>1. Chunked \subseteq S
    BY <1>0 DEF BatchInv, StageInv
  <2> QED
    BY <1>1, <2>1
<1>7. /\ pre[r] \in Nat /\ fill[r] \in Nat /\ InputLen(r) \in Nat
      /\ Wanted[r] = NewPages(pre[r], InputLen(r)) /\ Taking[r] = NewPages(pre[r], fill[r])
  BY Zenon, <1>0, <1>6, InputBound DEF SchedTypes, Wanted, Taking
<1>8. NewPages(fill[r], InputLen(r)) = Wanted[r] - Taking[r]
  BY <1>7, PagesForBounds DEF NewPages
<1>9. \A q \in S : /\ Taking[q] \in Int /\ Wanted[q] \in Int /\ Taking[q] <= Wanted[q]
  <2> SUFFICES ASSUME NEW q \in S
               PROVE  Taking[q] \in Int /\ Wanted[q] \in Int /\ Taking[q] <= Wanted[q]
    OBVIOUS
  <2>1. /\ q \in Req /\ pre[q] \in Nat /\ fill[q] \in Nat /\ fill[q] <= InputLen(q)
        /\ InputLen(q) \in Nat
    BY Zenon, <1>0, <1>1, InputBound DEF LengthsInv, SchedTypes
  <2>2. /\ PagesFor(fill[q]) <= PagesFor(InputLen(q)) /\ PagesFor(fill[q]) \in Nat
        /\ PagesFor(InputLen(q)) \in Nat /\ PagesFor(pre[q]) \in Nat
    BY <2>1, PagesForMonotone, PagesForBounds
  <2>3. /\ Wanted[q] = PagesFor(InputLen(q)) - PagesFor(pre[q])
        /\ Taking[q] = PagesFor(fill[q]) - PagesFor(pre[q])
    BY <2>1 DEF Wanted, Taking, NewPages
  <2> QED
    BY <2>2, <2>3
<1>10. w - n >= Wanted[r] - Taking[r]
  <2> DEFINE f == Taking
             g == Wanted
             T == S \ {r}
  <2>1. \A q \in S : f[q] \in Int /\ g[q] \in Int /\ f[q] <= g[q]
    BY <1>9
  <2>2. n = Total(f, S) /\ w = Total(g, S)
    OBVIOUS
  <2> HIDE DEF S, n, w, f, g
  <2>3. Total(f, S) = f[r] + Total(f, T) /\ Total(g, S) = g[r] + Total(g, T)
    BY <1>1, <1>6, <2>1, SumRemove
  <2>4. IsFiniteSet(T) /\ \A q \in T : f[q] \in Int /\ g[q] \in Int /\ f[q] <= g[q]
    BY <1>1, <2>1, FS_Subset
  <2> HIDE DEF T
  <2>5. Total(f, T) <= Total(g, T) /\ Total(f, T) \in Int /\ Total(g, T) \in Int
    BY <2>4, SumMonotone, SumInt
  <2>6. f[r] \in Int /\ g[r] \in Int
    BY <1>6, <2>1
  <2>7. w - n >= g[r] - f[r]
    BY <2>2, <2>3, <2>5, <2>6
  <2> QED
    BY <2>7 DEF f, g
<1>11. Wanted[r] \in Int /\ Taking[r] \in Int
  BY <1>6, <1>9
<1> HIDE DEF S, n, w
<1> QED
  BY <1>1, <1>2, <1>3, <1>4, <1>8, <1>10, <1>11

\* Filing pages, for a request that runs on or is finished, leaves the reserve.
LEMMA StashKeeps ==
  ASSUME MemInv, MemInv', SchedTypes, LengthsInv, NEW r \in RowsHeld,
         fill[r] = committed[r], Stash(r)
  PROVE  Reserve(pin)' >= Reserve(pin)
<1>1. PICK m \in 0 .. NumPages : CacheUnfinished(r, fill[r] \div PageSize, m)
  BY DEF Stash
<1>2. r \in Req
  BY DEF RowsHeld
<1>3. fill[r] \div PageSize \in 0 .. NumPages /\ Whole(r, fill[r] \div PageSize)
  BY RowWhole
<1>4. PICK K \in 0 .. NumPages : K = fill[r] \div PageSize
  BY <1>3
<1> QED
  BY <1>1, <1>2, <1>3, <1>4, StashReserve

LEMMA FinishKeeps ==
  ASSUME MemInv, MemInv', SchedTypes, LengthsInv, NEW r \in Req, Finish(r)
  PROVE  Reserve(pin)' >= Reserve(pin)
<1>1. PICK K, m : ReleaseInsert(r, K, m)
  BY DEF Finish
<1>2. /\ cache' = Inserted(r, K) /\ free \subseteq free' /\ pin' = [pin EXCEPT ![r] = 0]
  BY <1>1 DEF ReleaseInsert, Forget
<1>3. Cached \subseteq Cached'
  BY <1>2 DEF Inserted, Cached
<1>4. \A q \in Req : pin'[q] <= pin[q]
  <2>1. pin \in [Req -> Nat]
    BY DEF MemInv, MemTypeOK
  <2>2. \A q \in Req : pin'[q] = pin[q] \/ pin'[q] = 0
    BY <1>2, <2>1
  <2> QED
    BY <2>1, <2>2
<1> QED
  BY <1>2, <1>3, <1>4, MoreReserve

\* A step that keeps the cut prompt and the reserve.
LEMMA ChunkRoomKept ==
  ASSUME MemInv, MemInv', BatchInv, ChunkRoom,
         Stage \in HeadStages \cup {"plan", "prefill_result"}, Chunked' \subseteq Chunked,
         \A r \in Chunked' : fill'[r] = fill[r] /\ out'[r] = out[r],
         Reserve(pin)' >= Reserve(pin)
  PROVE  ChunkRoom'
<1>1. SUFFICES ASSUME NEW r \in Chunked'
               PROVE  Reserve(pin)' >= NewPages(fill[r], InputLen(r))
  BY DEF ChunkRoom, Chunked, InputLen
<1>2. r \in Chunked /\ r \in Req /\ Reserve(pin) >= NewPages(fill[r], InputLen(r))
  BY DEF ChunkRoom, Chunked, BatchInv, SchedTypes
<1>3. NewPages(fill[r], InputLen(r)) \in Int
  BY Zenon, <1>2, InputBound, NewPagesType DEF BatchInv, SchedTypes
<1> HIDE DEF NewPages
<1> QED
  BY <1>2, <1>3, ReserveTypes, NextReserveTypes

LEMMA ChunkRoomStep ==
  ASSUME MemInv, MemInv', BatchInv, AddRoom, AllocRoom, ChunkRoom, [Next]_vars, phase' # "oom"
  PROVE  ChunkRoom'
<1>0. SchedTypes /\ LengthsInv
  BY DEF BatchInv
<1> DEFINE Kept == HeadStages \cup {"plan", "prefill_result"}
<1>1. CASE UNCHANGED vars
  <2>1. UNCHANGED <<mem, fill, out, chunked>> /\ Stage' = Stage
    BY <1>1 DEF vars, reqs, sched, ctl, Stage
  <2>2. Reserve(pin)' = Reserve(pin)
    BY <2>1, SameReserve DEF mem
  <2> QED
    BY <2>1, <2>2 DEF ChunkRoom, Chunked, InputLen
<1>2. ASSUME UNCHANGED <<mem, fill, out>>, Stage \in Kept, chunked' \in {chunked, NoReq}
      PROVE  ChunkRoom'
  <2>1. Reserve(pin)' = Reserve(pin)
    BY <1>2, SameReserve DEF mem
  <2>2. Chunked' \subseteq Chunked
    BY <1>2 DEF Chunked
  <2> QED
    BY <1>2, <2>1, <2>2, ReserveTypes, ChunkRoomKept
<1>3. ASSUME NEW r \in Req, HandleGenerateRequest(r) \/ AbortRequest(r) PROVE ChunkRoom'
  <2>1. phase = "recv" /\ UNCHANGED <<mem, fill, out, chunked>>
    BY <1>3 DEF HandleGenerateRequest, AbortRequest, reqs
  <2> QED
    BY <1>2, <2>1 DEF Stage, HeadStages
<1>4. CASE PauseInPlace
  <2>1. phase = "recv" /\ UNCHANGED <<mem, fill, out, chunked>>
    BY <1>4 DEF PauseInPlace, reqs, sched
  <2> QED
    BY <1>2, <2>1 DEF Stage, HeadStages
<1>5. CASE ContinueGeneration
  <2>1. phase = "recv" /\ UNCHANGED <<mem, fill, out, chunked>>
    BY <1>5 DEF ContinueGeneration, reqs, sched
  <2> QED
    BY <1>2, <2>1 DEF Stage, HeadStages
<1>6. CASE PauseRetract
  <2>1. phase = "recv" /\ UNCHANGED <<mem, reqs>> /\ \E merged : chunked' = ChunkedAfter(merged)
    BY <1>6, Zenon DEF PauseRetract
  <2>2. chunked' \in {chunked, NoReq} /\ UNCHANGED <<mem, fill, out>>
    BY <2>1 DEF ChunkedAfter, reqs
  <2> QED
    BY <1>2, <2>1, <2>2 DEF Stage, HeadStages
<1>7. CASE StashChunked
  <2>1. phase = "recv" /\ Stage = "recv" /\ UNCHANGED <<fill, out, chunked>>
    BY <1>7 DEF StashChunked, Stage, sched
  <2>2. CASE chunked = NoReq
    <3>1. UNCHANGED mem
      BY <1>7, <2>2 DEF StashChunked
    <3> QED
      BY <1>2, <2>1, <3>1 DEF HeadStages
  <2>3. CASE chunked # NoReq
    <3>1. PICK c \in RowsHeld : c = chunked /\ committed[c] = fill[c]
      BY <2>1, <2>3, ChunkedRow DEF HeadStages
    <3>2. Stash(c)
      BY <1>7, <2>3, <3>1, Zenon DEF StashChunked
    <3>3. Reserve(pin)' >= Reserve(pin)
      BY <1>0, <3>1, <3>2, StashKeeps
    <3>4. Chunked' = Chunked
      BY <2>1 DEF Chunked
    <3> QED
      BY <2>1, <3>3, <3>4, ChunkRoomKept DEF HeadStages
  <2> QED
    BY <2>2, <2>3
<1>8. CASE MergeLastBatch
  <2>1. phase = "merge" /\ UNCHANGED <<mem, reqs, chunked>>
    BY <1>8, Zenon DEF MergeLastBatch
  <2>2. UNCHANGED <<fill, out>>
    BY <2>1 DEF reqs
  <2> QED
    BY <1>2, <2>1, <2>2 DEF Stage, HeadStages
<1>9. CASE PrefillDone
  <2>1. phase = "prefill_result" /\ UNCHANGED <<mem, reqs, chunked>>
    BY <1>9, Zenon DEF PrefillDone
  <2>2. UNCHANGED <<fill, out>>
    BY <2>1 DEF reqs
  <2> QED
    BY <1>2, <2>1, <2>2 DEF Stage
<1>10. CASE PrefillResult
  <2> DEFINE r == adder.list[step]
  <2>1. /\ phase = "prefill_result" /\ step <= Len(adder.list) /\ UNCHANGED <<fill, chunked>>
        /\ \/ UNCHANGED <<mem, out>>
           \/ r # chunked /\ out' = [out EXCEPT ![r] = @ + 1] /\ (Finish(r) \/ Stash(r))
    BY <1>10, Zenon DEF PrefillResult, sched
  <2>2. Stage = "prefill_result" /\ Chunked' = Chunked
    BY <2>1 DEF Stage, Chunked
  <2>3. CASE UNCHANGED <<mem, out>>
    BY <1>2, <2>1, <2>2, <2>3
  <2>4. CASE r # chunked /\ out' = [out EXCEPT ![r] = @ + 1] /\ (Finish(r) \/ Stash(r))
    <3>1. PICK q \in RowsHeld : q = r /\ q \in Req /\ committed[q] = fill[q]
      BY <2>1, PrefillRow
    <3>2. Finish(q) \/ Stash(q)
      BY <2>4, <3>1
    <3>3. Reserve(pin)' >= Reserve(pin)
      BY <1>0, <3>1, <3>2, StashKeeps, FinishKeeps
    <3>4. \A c \in Chunked' : out'[c] = out[c]
      BY Zenon, <1>0, <2>2, <2>4 DEF Chunked, SchedTypes
    <3> QED
      BY <2>1, <2>2, <3>3, <3>4, ChunkRoomKept
  <2> QED
    BY <2>1, <2>3, <2>4
<1>11. CASE PrefillForward
  BY <1>11, ChunkRoomPrefill
<1>12. CASE PlanPrefill \/ AddOneReq \/ FinishAdder
  <2>1. \/ phase' \in {"update", "adding"}
        \/ phase' = "evict" /\ goal'.then = "prefill_alloc"
    <3>1. CASE PlanPrefill
      BY <3>1, Zenon DEF PlanPrefill, Enter
    <3>2. CASE AddOneReq
      <4>1. phase = "adding" /\ UNCHANGED ctl
        BY <3>2, Zenon DEF AddOneReq
      <4> QED
        BY <4>1 DEF ctl
    <3>3. CASE FinishAdder
      BY <3>3 DEF FinishAdder, Enter, EvictThen
    <3> QED
      BY <1>12, <3>1, <3>2, <3>3
  <2> QED
    BY <2>1 DEF ChunkRoom, Stage, HeadStages
<1>13. ASSUME Stage \in DecodeStages, UNCHANGED chunked PROVE ChunkRoom'
  <2>1. chunked' = NoReq
    BY <1>13 DEF BatchInv, StageInv
  <2> QED
    BY <2>1 DEF ChunkRoom, Chunked
<1>14. CASE EvictFromTreeCache
  <2>1. /\ phase = "evict" /\ phase' = goal.then /\ UNCHANGED chunked
        /\ goal.then \in EvictStages
    BY <1>14 DEF EvictFromTreeCache, sched, BatchInv, SchedTypes
  <2>2. CASE goal.then = "prefill_alloc"
    BY <2>1, <2>2 DEF ChunkRoom, Stage, HeadStages
  <2>3. CASE goal.then # "prefill_alloc"
    BY <1>13, <2>1, <2>3 DEF Stage, EvictStages, DecodeStages, CleanStages
  <2> QED
    BY <2>2, <2>3
<1>15. CASE \/ UpdateRunningBatch \/ CheckDecodeMem \/ Retract \/ RetractCheck \/ AbortLast
            \/ DraftBlock \/ PrepareForVerify \/ Verify \/ DecodeResult \/ DecodeDone
            \/ PauseRelease \/ PauseDone
  <2>1. UNCHANGED sched \/ UNCHANGED chunked
    BY <1>15, Zenon DEF UpdateRunningBatch, CheckDecodeMem, Retract, RetractCheck, AbortLast,
       DraftBlock, PrepareForVerify, Verify, DecodeResult, DecodeDone, PauseRelease, PauseDone
  <2>2. phase \in {"update", "mem_check", "recheck", "last_check", "retract", "retract_check",
                   "abort_last", "draft", "verify_alloc", "verify", "decode_result",
                   "pause_release"}
    <3>1. CASE UpdateRunningBatch \/ Retract \/ RetractCheck \/ AbortLast \/ DecodeResult
               \/ DecodeDone \/ PauseRelease \/ PauseDone
      BY <3>1, Zenon DEF UpdateRunningBatch, Retract, RetractCheck, AbortLast, DecodeResult,
         DecodeDone, PauseRelease, PauseDone
    <3>2. CASE CheckDecodeMem
      BY <3>2 DEF CheckDecodeMem
    <3>3. CASE DraftBlock \/ PrepareForVerify \/ Verify
      BY <3>3, Zenon DEF DraftBlock, PrepareForVerify, Verify
    <3> QED
      BY <1>15, <3>1, <3>2, <3>3
  <2> QED
    BY <1>13, <2>1, <2>2 DEF Stage, DecodeStages, CleanStages, sched
<1> QED
  BY <1>1, <1>3, <1>4, <1>5, <1>6, <1>7, <1>8, <1>9, <1>10, <1>11, <1>12, <1>14, <1>15
  DEF Next, LoopStep

-----------------------------------------------------------------------------
(* Room for the blocks.                                                    *)

\* The blocks of the running batch need no more pages than check_decode_mem
\* asked for.
LEMMA BlockPages ==
  ASSUME MemInv, BatchInv, DecodeRoom, Stage \in {"draft", "verify_alloc"}
  PROVE  /\ Total([r \in Req |-> NewPages(committed[r], committed[r] + Block)], Set(running))
              <= Cardinality(free)
         /\ Total([r \in Req |-> NewPages(committed[r], committed[r] + Block)], Set(running)) \in Nat
         /\ Cardinality(free) \in Nat
<1> DEFINE S == Set(running)
           f == [r \in Req |-> NewPages(committed[r], committed[r] + Block)]
           b == PagesFor(Block)
           l == Len(running)
           c == Cardinality(free)
           n == Total(f, S)
<1>1. /\ IsFiniteSet(S) /\ S \subseteq Req /\ Cardinality(S) <= l /\ l \in Nat
      /\ Cardinality(S) \in Nat /\ c \in Nat
  <2>1. running \in Seq(Req)
    BY DEF BatchInv, SchedTypes
  <2> QED
    BY <2>1, SetType, PagesFinite, FS_CardinalityType
<1>2. b \in Nat /\ Block \in Nat
  BY ParamTypes, PagesForBounds
<1>3. \A r \in S : f[r] \in 0 .. b
  <2> SUFFICES ASSUME NEW r \in S PROVE f[r] \in 0 .. b
    OBVIOUS
  <2>1. r \in Req /\ committed[r] \in Nat
    BY <1>1 DEF BatchInv, SchedTypes
  <2>2. f[r] = PagesFor(committed[r] + Block) - PagesFor(committed[r])
    BY <2>1 DEF NewPages
  <2>3. committed[r] + Block \in Nat /\ committed[r] <= committed[r] + Block
    BY <1>2, <2>1
  <2>4. /\ PagesFor(committed[r]) <= PagesFor(committed[r] + Block)
        /\ PagesFor(committed[r] + Block) <= PagesFor(committed[r]) + b
        /\ PagesFor(committed[r]) \in Nat /\ PagesFor(committed[r] + Block) \in Nat
    BY Zenon, <1>2, <2>1, <2>3, PagesForMonotone, PagesForSum, PagesForBounds
  <2> HIDE DEF f, b
  <2> QED
    BY <1>2, <2>2, <2>4
<1>4. c * PageSize >= (b * PageSize) * l
  <2>1. Available >= DecodeTokens(l)
    BY DEF DecodeRoom
  <2> QED
    BY <2>1 DEF Available, DecodeTokens, AlignUp
<1> HIDE DEF S, f, b, l, c
<1>5. n \in 0 .. b * Cardinality(S)
  BY Zenon, <1>1, <1>2, <1>3, SumBound
<1> HIDE DEF n
<1>6. b * Cardinality(S) <= b * l /\ b * l \in Nat /\ b * Cardinality(S) \in Nat
  <2>1. PICK d \in Nat : l = Cardinality(S) + d
    <3>1. l - Cardinality(S) \in Nat /\ l = Cardinality(S) + (l - Cardinality(S))
      BY <1>1
    <3> QED
      BY <3>1
  <2>2. b * l = b * Cardinality(S) + b * d /\ b * d \in Nat /\ b * Cardinality(S) \in Nat
    BY <1>1, <1>2, <2>1
  <2> QED
    BY <2>2
<1>7. n \in Nat /\ n <= b * l
  BY <1>5, <1>6
<1>8. b * l <= c
  <2>1. (b * PageSize) * l = (b * l) * PageSize
    BY <1>1, <1>2, PageTypes
  <2>2. (b * l) * PageSize <= c * PageSize
    <3>1. (b * l) * PageSize \in Nat /\ c * PageSize \in Nat
      BY <1>1, <1>6, PageTypes
    <3> QED
      BY <1>4, <2>1, <3>1
  <2> QED
    BY <1>1, <1>6, <2>2, ScaleCancel
<1>9. n <= c /\ n \in Nat /\ c \in Nat
  BY <1>1, <1>6, <1>7, <1>8
<1> QED
  BY <1>9 DEF S, f, n, c

LEMMA DecodeRoomStep ==
  ASSUME MemInv, BatchInv, DecodeRoom, [Next]_vars
  PROVE  DecodeRoom'
<1>1. CASE Stage' \notin {"draft", "verify_alloc"}
  BY <1>1 DEF DecodeRoom
<1>2. ASSUME UNCHANGED <<free, running>>, Available >= DecodeTokens(Len(running))
      PROVE  DecodeRoom'
  BY <1>2 DEF DecodeRoom, Available
<1>3. CASE CheckDecodeMem
  <2>1. UNCHANGED <<free, running>>
    BY <1>3 DEF CheckDecodeMem, mem, sched
  <2>2. CASE Available >= DecodeTokens(Len(running))
    BY <1>2, <2>1, <2>2
  <2>3. CASE ~(Available >= DecodeTokens(Len(running)))
    <3>1. \/ phase' \in {"abort_last", "retract"}
          \/ phase' = "evict" /\ goal'.then = "last_check"
      BY <1>3, <2>3 DEF CheckDecodeMem, Enter, EvictThen
    <3> QED
      BY <3>1 DEF DecodeRoom, Stage
  <2> QED
    BY <2>2, <2>3
<1>4. CASE DraftBlock
  <2>1. phase = "draft" /\ UNCHANGED <<mem, sched>>
    BY <1>4, Zenon DEF DraftBlock
  <2> QED
    BY <1>2, <2>1 DEF DecodeRoom, Stage, mem, sched
<1>5. CASE EvictFromTreeCache
  <2>1. /\ phase = "evict" /\ phase' = goal.then /\ UNCHANGED running
        /\ goal.then \in EvictStages
    BY <1>5 DEF EvictFromTreeCache, sched, BatchInv, SchedTypes
  <2>2. Stage' = Stage
    BY <2>1 DEF Stage, EvictStages
  <2>3. UNCHANGED mem \/ \E E \in SUBSET Evictable(pin) : Evict(E)
    BY <1>5 DEF EvictFromTreeCache, Evictions
  <2>4. CASE UNCHANGED mem
    BY <2>1, <2>2, <2>4 DEF DecodeRoom, Available, mem
  <2>5. CASE \E E \in SUBSET Evictable(pin) : Evict(E)
    <3> DEFINE c == Cardinality(free)
               d == Cardinality(free')
               n == DecodeTokens(Len(running))
    <3>1. PICK E \in SUBSET Evictable(pin) : Evict(E)
      BY <2>5
    <3>2. c \in Nat /\ d \in Nat /\ c <= d
      <4>1. d = c + Cardinality(E) /\ Cardinality(E) \in Nat /\ c \in Nat
        BY <3>1, EvictReserve, PagesFinite
      <4> HIDE DEF c, d
      <4> QED
        BY <4>1
    <3>3. n \in Nat
      BY DecodeTokensType DEF BatchInv, SchedTypes
    <3> HIDE DEF c, d, n
    <3>4. c * PageSize <= d * PageSize /\ c * PageSize \in Nat /\ d * PageSize \in Nat
      BY <3>2, ScaleMonotone
    <3>5. c * PageSize >= n => d * PageSize >= n
      BY <3>3, <3>4
    <3> QED
      BY <2>1, <2>2, <3>5 DEF DecodeRoom, Available, c, d, n
  <2> QED
    BY <2>3, <2>4, <2>5
<1>6. CASE UNCHANGED vars
  <2>1. UNCHANGED <<free, running>> /\ Stage' = Stage
    BY <1>6 DEF vars, mem, sched, ctl, Stage
  <2> QED
    BY <2>1 DEF DecodeRoom, Available
<1> QED
  BY <1>1, <1>3, <1>4, <1>5, <1>6, StageSteps

\* So no allocation ever fails.
LEMMA OOMStep ==
  ASSUME MemInv, MemInv', BatchInv, RowRoom, AllocRoom, DecodeRoom, NeverOOM, [Next]_vars
  PROVE  NeverOOM'
<1>0. SchedTypes
  BY DEF BatchInv
<1>1. ASSUME PrefillForward, phase' = "oom" PROVE FALSE
  <2> DEFINE S == Set(adder.list)
             from == pre
             to == fill
  <2>1. phase = "prefill_alloc" /\ Stage = "prefill_alloc"
    BY <1>1, Zenon DEF PrefillForward, Stage
  <2>2. ~(Cardinality(S \cup RowsHeld) > MaxRunning)
    <3>1. IsFiniteSet(S) /\ IsFiniteSet(RowsHeld)
      BY <1>0, RowsFinite, WantedTypes
    <3>2. Cardinality(S \cup RowsHeld) \in Nat /\ MaxRunning \in Nat
      BY <3>1, JoinCard, ParamTypes
    <3>3. Cardinality(S \cup RowsHeld) <= MaxRunning
      BY <2>1 DEF RowRoom
    <3> HIDE DEF S
    <3> QED
      BY <3>2, <3>3
  <2>3. Extend(S, from, to, "prefill_result")
    BY <1>1, <2>2, Zenon DEF PrefillForward
  <2>4. Total([r \in Req |-> NewPages(from[r], to[r])], S) <= Cardinality(free)
    BY <2>1 DEF AllocRoom, Taking
  <2>5. from \in [Req -> Nat] /\ to \in [Req -> Nat] /\ IsFiniteSet(S) /\ S \in SUBSET Req
    BY Zenon, <1>0, WantedTypes DEF SchedTypes
  <2>6. Total([r \in Req |-> NewPages(from[r], to[r])], S) \in Nat
    BY <2>1, TakingTokens DEF Taking
  <2> HIDE DEF S, from, to
  <2>7. Total([r \in Req |-> NewPages(from[r], to[r])], S) > Cardinality(free)
    BY <1>1, <2>3, <2>5, ExtendReserve
  <2> QED
    BY <2>4, <2>6, <2>7, PagesFinite
<1>2. ASSUME DraftBlock, phase' = "oom" PROVE FALSE
  <2>1. phase = "draft" /\ Stage = "draft"
    BY <1>2, Zenon DEF DraftBlock, Stage
  <2>2. Total([r \in Req |-> NewPages(committed[r], committed[r] + Block)], Set(running))
          > Cardinality(free)
    <3>1. \/ Total([r \in Req |-> NewPages(committed[r], committed[r] + Block)], Set(running))
               > Cardinality(free)
          \/ \E n, ph : EvictThen(n, ph)
      BY <1>2, Zenon DEF DraftBlock
    <3> QED
      BY <1>2, <3>1 DEF EvictThen
  <2>3. Total([r \in Req |-> NewPages(committed[r], committed[r] + Block)], Set(running))
          <= Cardinality(free)
        /\ Total([r \in Req |-> NewPages(committed[r], committed[r] + Block)], Set(running)) \in Nat
        /\ Cardinality(free) \in Nat
    BY <2>1, BlockPages
  <2> QED
    BY <2>2, <2>3
<1>3. ASSUME PrepareForVerify, phase' = "oom" PROVE FALSE
  <2> DEFINE S == Set(running)
             from == committed
             to == Plus(Block)
  <2>1. phase = "verify_alloc" /\ Stage = "verify_alloc" /\ Extend(S, from, to, "verify")
    BY <1>3 DEF PrepareForVerify, Stage
  <2>2. from \in [Req -> Nat] /\ to \in [Req -> Nat] /\ \A r \in Req : to[r] = from[r] + Block
    <3>1. committed \in [Req -> Nat] /\ Block \in Nat
      BY <1>0, ParamTypes DEF SchedTypes
    <3> QED
      BY <3>1 DEF Plus
  <2>3. IsFiniteSet(S) /\ S \in SUBSET Req
    BY <1>0, ListTypes, SetType
  <2>4. [r \in Req |-> NewPages(from[r], to[r])]
          = [r \in Req |-> NewPages(committed[r], committed[r] + Block)]
    BY <2>2
  <2>5. /\ Total([r \in Req |-> NewPages(from[r], to[r])], S) <= Cardinality(free)
        /\ Total([r \in Req |-> NewPages(from[r], to[r])], S) \in Nat
        /\ Cardinality(free) \in Nat
    BY <2>1, <2>4, BlockPages
  <2> HIDE DEF S, from, to
  <2>6. Total([r \in Req |-> NewPages(from[r], to[r])], S) > Cardinality(free)
    BY <1>3, <2>1, <2>2, <2>3, ExtendReserve
  <2> QED
    BY <2>5, <2>6
<1> QED
  BY <1>1, <1>2, <1>3, StageSteps DEF NeverOOM

-----------------------------------------------------------------------------
(* The invariant is inductive.                                             *)

\* No row, no batch, no request: the event loop starts in its invariant.
LEMMA SpecInitInv == Init => SpecInv
<1> SUFFICES ASSUME Init PROVE SpecInv
  OBVIOUS
<1>0. /\ MemInit
      /\ out = [r \in Req |-> 0] /\ pre = [r \in Req |-> 0]
      /\ fill = [r \in Req |-> 0] /\ committed = [r \in Req |-> 0]
      /\ finished = {} /\ to_finish = {} /\ gone = {}
      /\ arrived = {} /\ waiting = <<>> /\ running = <<>> /\ spec = <<>>
      /\ last = <<>> /\ chunked = NoReq /\ full = FALSE
      /\ adder = NoAdder /\ goal = NoGoal /\ step = 1
      /\ phase = "recv" /\ paused = FALSE
  BY DEF Init
<1>1. MemInv
  BY <1>0, InitInv
<1>2. Stage = "recv" /\ Chunked = {} /\ RowsHeld = {} /\ adder.list = <<>>
  BY <1>0 DEF Stage, Chunked, RowsHeld, MemInit, NoAdder
<1>3. Set(waiting) = {} /\ Set(running) = {} /\ Set(last) = {} /\ Set(adder.list) = {}
  BY <1>0, <1>2, EmptySet
<1>4. SchedTypes
  <2>1. NoAdder \in Adders
    BY DEF NoAdder, Adders
  <2>2. goal \in [need : Nat, then : Phases] /\ phase \in Phases /\ phase # "evict"
    BY <1>0 DEF NoGoal, Phases
  <2>3. /\ out \in [Req -> Nat] /\ pre \in [Req -> Nat]
        /\ fill \in [Req -> Nat] /\ committed \in [Req -> Nat]
    BY <1>0
  <2>4. /\ waiting \in Seq(Req) /\ running \in Seq(Req)
        /\ spec \in Seq(Req) /\ last \in Seq(Req)
    BY <1>0
  <2>5. /\ finished \subseteq Req /\ to_finish \subseteq Req /\ gone \subseteq Req
        /\ arrived \subseteq Req /\ chunked \in Req \cup {NoReq}
        /\ full \in BOOLEAN /\ step \in Nat /\ paused \in BOOLEAN
    BY Zenon, <1>0
  <2> QED
    BY <1>0, <2>1, <2>2, <2>3, <2>4, <2>5 DEF SchedTypes
<1>5. PlacesInv
  BY <1>0, <1>2, <1>3, EmptySet, ParamTypes DEF PlacesInv
<1>6. StageInv
  BY <1>0, <1>2, <1>3 DEF StageInv, HeadStages, AddStages, DecodeStages, CleanStages
<1>7. RowsInv
  BY <1>2, <1>3 DEF RowsInv
<1>8. LengthsInv
  <2>1. ASSUME NEW r \in Req PROVE out[r] < FinishLen(r) /\ out[r] <= FinishLen(r)
    BY <1>0, ParamTypes DEF FinishLen, Least
  <2> QED
    BY <1>2, <1>3, <2>1 DEF LengthsInv, HeadStages
<1>9. AddingInv
  BY <1>2 DEF AddingInv
<1>10. SpecAligned
  BY <1>0 DEF SpecAligned
<1>11. RoomInv
  <2>1. Cardinality(RowsHeld) = 0
    BY <1>2, FS_EmptySet
  <2>2. RowRoom
    BY <1>2, <2>1, ParamTypes DEF RowRoom
  <2>3. AddRoom /\ ChunkRoom /\ AllocRoom /\ DecodeRoom
    BY <1>0, <1>2 DEF AddRoom, ChunkRoom, AllocRoom, DecodeRoom
  <2> QED
    BY <2>2, <2>3 DEF RoomInv
<1>12. NeverOOM
  BY <1>0 DEF NeverOOM
<1> QED
  BY <1>1, <1>4, <1>5, <1>6, <1>7, <1>8, <1>9, <1>10, <1>11, <1>12 DEF SpecInv, BatchInv

\* The order of the argument: what the step takes was there, so no allocation
\* fails, so the batches stay in order, so the next steps find what they take.
LEMMA SpecStepInv == SpecInv /\ [Next]_vars => SpecInv'
<1> SUFFICES ASSUME SpecInv, [Next]_vars PROVE SpecInv'
  OBVIOUS
<1>1. /\ MemInv /\ BatchInv /\ SpecAligned /\ NeverOOM
      /\ RowRoom /\ AddRoom /\ ChunkRoom /\ AllocRoom /\ DecodeRoom
  BY DEF SpecInv, RoomInv
<1>2. SchedTypes
  BY <1>1 DEF BatchInv
<1>3. MemInv'
  BY <1>1, LoopIsMem, StepInv
<1>4. NeverOOM'
  BY <1>1, <1>3, OOMStep
<1>5. phase' # "oom"
  BY <1>4 DEF NeverOOM
<1>6. BatchInv'
  BY <1>1, <1>5, BatchStep
<1>7. SpecAligned'
  BY <1>1, <1>2, AlignedStep
<1>8. RowRoom'
  BY <1>1, RowRoomStep
<1>9. AddRoom'
  BY <1>1, <1>6, AddRoomStep
<1>10. AllocRoom'
  BY <1>1, AllocRoomStep
<1>11. ChunkRoom'
  BY <1>1, <1>3, <1>5, ChunkRoomStep
<1>12. DecodeRoom'
  BY <1>1, DecodeRoomStep
<1>13. RoomInv'
  BY <1>8, <1>9, <1>10, <1>11, <1>12 DEF RoomInv
<1> QED
  BY <1>3, <1>4, <1>6, <1>7, <1>13 DEF SpecInv

\* The invariant holds in every reachable state of the event loop.
THEOREM SpecInvHolds == Spec => []SpecInv
<1> QED
  BY SpecInitInv, SpecStepInv, PTL DEF Spec

-----------------------------------------------------------------------------
(* The theorems.                                                           *)

\* Every step of the event loop does to the KV memory what the memory protocol
\* allows, or nothing (alloc_for_extend, release_kv_cache, cache_unfinished_req,
\* evict_from_tree_cache and verify as scheduler.py calls them): the detailed
\* specification implements the abstract one.
THEOREM ImplementsMemSpec == Spec => MemSpec
<1>1. Init => MemInit
  BY DEF Init
<1>2. SpecInv /\ [Next]_vars => [MemNext]_mem
  BY LoopIsMem DEF SpecInv
<1> QED
  BY <1>1, <1>2, SpecInvHolds, PTL DEF Spec, MemSpec

\* No page of the pool is lost or has two owners, whatever the event loop does.
THEOREM SchedulerPageOwnership == Spec => []PageOwnership
<1> QED
  BY ImplementsMemSpec, PageOwnershipHolds, PTL

\* What a request reads through the protected part of its row stays cached and
\* locked through all chunks, retractions and evictions of the event loop.
THEOREM SchedulerProtectedIsCached == Spec => []ProtectedIsCached
<1> QED
  BY ImplementsMemSpec, ProtectedIsCachedHolds, PTL

\* match_prefix reaches every page the event loop ever filed.
THEOREM SchedulerPrefixClosed == Spec => []PrefixClosed
<1> QED
  BY ImplementsMemSpec, PrefixClosedHolds, PTL

\* No allocation fails, for any pool, prompts, block, chunk and batch sizes: the
\* admission estimate, the evictions and the retractions always leave enough for
\* alloc_extend of a prefill, of a draft block and of a verify block, and rows
\* enough for the requests admitted; None would end the scheduler process.
THEOREM NeverOOMHolds == Spec => []NeverOOM
<1>1. SpecInv => NeverOOM
  BY DEF SpecInv
<1> QED
  BY <1>1, SpecInvHolds, PTL

\* The draft state at index i of the running batch is that of request i, through
\* every merge_batch, filter_batch, retraction and emptied batch.
THEOREM SpecAlignedHolds == Spec => []SpecAligned
<1>1. SpecInv => SpecAligned
  BY DEF SpecInv
<1> QED
  BY <1>1, SpecInvHolds, PTL

\* While requests are admitted (PrefillAdder), at most one prompt is cut, and it
\* is the one that chunked_req will track.
THEOREM OneChunkedReqHolds == Spec => []OneChunkedReq
<1>1. ASSUME SpecInv PROVE OneChunkedReq
  <2> SUFFICES ASSUME phase = "adding"
               PROVE  /\ chunked = NoReq \/ adder.new = NoReq
                      /\ {r \in Set(adder.list) : fill[r] < InputLen(r)} = {chunked, adder.new} \ {NoReq}
    BY DEF OneChunkedReq
  <2>1. Stage = "adding" /\ SchedTypes
    BY <1>1 DEF Stage, SpecInv, BatchInv
  <2>2. /\ chunked # NoReq => adder.list = <<chunked>> /\ adder.new = NoReq
        /\ adder.new # NoReq => adder.new \in Set(adder.list)
        /\ \A r \in Set(adder.list) : fill[r] < InputLen(r) <=> r \in {chunked, adder.new}
    BY <1>1, <2>1 DEF SpecInv, BatchInv, AddingInv
  <2>3. Set(adder.list) \subseteq Req /\ NoReq \notin Req
    BY <2>1, ListTypes, ParamTypes
  <2>4. chunked # NoReq => chunked \in Set(adder.list)
    BY <2>2 DEF Set
  <2> QED
    BY <2>2, <2>3, <2>4
<1> QED
  BY <1>1, SpecInvHolds, PTL

\* A filter that drops the front of a list keeps the rest as it is.
LEMMA SuffixKept ==
  ASSUME NEW A, NEW s \in Seq(A), NEW S, NEW n \in 0 .. Len(s),
         Staying(s, S) = n + 1 .. Len(s), NEW k \in KeepIndices(s, S)
  PROVE  At(s, k) = SubSeq(s, n + 1, Len(s))
<1>1. /\ k \in Seq(Nat) /\ DOMAIN k = 1 .. Len(k) /\ Len(k) \in Nat
      /\ Len(k) = Cardinality(Staying(s, S)) /\ Len(k) <= Len(s)
      /\ \A i \in DOMAIN k : k[i] \in Staying(s, S)
      /\ \A i \in Staying(s, S) : \E b \in DOMAIN k : k[b] = i
      /\ \A a, b \in DOMAIN k : a < b => k[a] < k[b]
  BY KeepFacts, Zenon
<1> DEFINE N == Len(k)
<1>2. Len(s) \in Nat /\ n \in Nat /\ n <= Len(s) /\ N \in Nat /\ DOMAIN k = 1 .. N
  BY <1>1
<1>3. /\ \A i \in 1 .. N : k[i] \in n + 1 .. Len(s)
      /\ \A i \in n + 1 .. Len(s) : \E b \in 1 .. N : k[b] = i
      /\ \A a, b \in 1 .. N : a < b => k[a] < k[b]
  BY Zenon, <1>1
<1>4. N = Len(s) - n
  <2>0. n + 1 \in Int /\ Len(s) \in Int
    BY <1>2
  <2>1. Cardinality(n + 1 .. Len(s)) = IF n + 1 > Len(s) THEN 0 ELSE Len(s) - (n + 1) + 1
    BY Zenon, <2>0, FS_Interval
  <2> QED
    BY <1>1, <1>2, <2>1
<1> HIDE DEF N
<1> DEFINE T == {m \in Nat : \A i \in 1 .. N : i <= m => k[i] = n + i}
<1>5. 0 \in T
  BY <1>2
<1>6. ASSUME NEW m \in Nat, m \in T PROVE m + 1 \in T
  <2> SUFFICES ASSUME m + 1 \in 1 .. N PROVE k[m + 1] = n + m + 1
    BY <1>2, <1>6
  <2>1. n + m + 1 \in n + 1 .. Len(s)
    BY <1>2, <1>4
  <2>2. PICK b \in 1 .. N : k[b] = n + m + 1
    BY <1>3, <2>1
  <2>3. ~ b < m + 1
    BY <1>2, <1>6, <2>2
  <2>4. ASSUME m + 1 < b PROVE FALSE
    <3>1. k[m + 1] < n + m + 1 /\ k[m + 1] \in n + 1 .. Len(s)
      BY <1>3, <2>2, <2>4
    <3>2. k[m + 1] - n \in 1 .. m /\ k[m + 1] - n \in 1 .. N /\ k[m + 1] - n < m + 1
      BY <1>2, <3>1
    <3>3. k[k[m + 1] - n] = k[m + 1]
      BY <1>2, <1>6, <3>1, <3>2
    <3>4. k[k[m + 1] - n] < k[m + 1]
      BY <1>3, <3>2
    <3> QED
      BY <1>2, <3>1, <3>3, <3>4
  <2> QED
    BY <1>2, <2>2, <2>3, <2>4
<1> HIDE DEF T
<1>7. \A m \in Nat : m \in T
  BY <1>5, <1>6, NatSetInduction
<1>8. \A i \in 1 .. N : k[i] = n + i
  <2> TAKE i \in 1 .. N
  <2>1. i \in T /\ i \in Nat /\ i <= i
    BY <1>2, <1>7
  <2> QED
    BY <2>1 DEF T
<1>9. At(s, k) = [i \in 1 .. N |-> s[n + i]]
  BY <1>2, <1>8 DEF At
<1>10. SubSeq(s, n + 1, Len(s)) = [i \in 1 .. N |-> s[n + i]]
  <2>1. SubSeq(s, n + 1, Len(s)) = [i \in 1 .. Len(s) - n |-> s[n + i]]
    BY <1>2
  <2> QED
    BY <1>4, <2>1
<1> QED
  BY <1>9, <1>10

\* The requests a round admits are a resumed chunk, which has a row, and the
\* front of the queue, which has none: what FinishAdder leaves is the rest.
LEMMA RestOfQueue ==
  ASSUME BatchInv, Stage = "adding", NEW k \in Unadmitted
  PROVE  LET n == Len(adder.list) - Resumed
         IN  n \in 0 .. Len(waiting) /\ At(waiting, k) = SubSeq(waiting, n + 1, Len(waiting))
<1> DEFINE n == Len(adder.list) - Resumed
<1>1. /\ waiting \in Seq(Req) /\ adder.list \in Seq(Req)
      /\ IsInjective(waiting) /\ IsInjective(adder.list)
      /\ Set(waiting) \cap RowsHeld = {}
  BY DEF BatchInv, SchedTypes, Adders, PlacesInv, RowsInv
<1>2. /\ DOMAIN waiting = 1 .. Len(waiting) /\ Len(waiting) \in Nat
      /\ DOMAIN adder.list = 1 .. Len(adder.list) /\ Len(adder.list) \in Nat
  BY <1>1, SetType
<1>3. Resumed \in {0, 1} /\ Resumed <= Len(adder.list)
  BY <1>1, <1>2 DEF Resumed
<1>4. Resumed = 1 => adder.list[1] \in RowsHeld
  BY DEF Resumed
<1>5. /\ n <= Len(waiting)
      /\ \A i \in 1 .. n : adder.list[Resumed + i] = waiting[i]
  BY DEF BatchInv, AddingInv
<1> HIDE DEF Resumed
<1>6. n \in 0 .. Len(waiting)
  BY <1>2, <1>3, <1>5
<1> DEFINE S == Set(adder.list)
<1>7. ASSUME NEW i \in DOMAIN waiting, i <= n PROVE waiting[i] \in S
  <2>1. i \in 1 .. n /\ Resumed + i \in DOMAIN adder.list
    BY <1>2, <1>3, <1>6, <1>7
  <2> QED
    BY <1>5, <2>1 DEF Set
<1>8. ASSUME NEW i \in DOMAIN waiting, waiting[i] \in S PROVE i <= n
  <2>1. PICK j \in DOMAIN adder.list : adder.list[j] = waiting[i]
    BY <1>8 DEF Set
  <2>2. waiting[i] \notin RowsHeld
    BY <1>1 DEF Set
  <2>3. j - Resumed \in 1 .. n
    BY <1>2, <1>3, <1>4, <2>1, <2>2
  <2>4. adder.list[Resumed + (j - Resumed)] = waiting[j - Resumed]
    BY <1>5, <2>3
  <2>5. Resumed + (j - Resumed) = j
    BY <1>2, <1>3
  <2>6. j - Resumed \in DOMAIN waiting /\ waiting[j - Resumed] = waiting[i]
    BY <1>2, <1>6, <2>1, <2>3, <2>4, <2>5
  <2>7. j - Resumed = i
    BY <1>1, <2>6 DEF IsInjective
  <2> QED
    BY <2>3, <2>7
<1> HIDE DEF n, S
<1>9. Staying(waiting, S) = n + 1 .. Len(waiting)
  <2>1. Staying(waiting, S) = {i \in 1 .. Len(waiting) : ~ i <= n}
    BY <1>2, <1>7, <1>8 DEF Staying
  <2> QED
    BY <1>2, <1>6, <2>1
<1>10. k \in KeepIndices(waiting, S)
  BY DEF Unadmitted, S
<1>11. At(waiting, k) = SubSeq(waiting, n + 1, Len(waiting))
  BY <1>1, <1>6, <1>9, <1>10, SuffixKept
<1> QED
  BY <1>6, <1>11 DEF n

\* A round of admission takes a prefix of the queue, whatever the sizes and the
\* cache hits of the requests behind one that was refused
\* (_get_new_batch_prefill_raw, add_one_req): no request overtakes another.
THEOREM FirstComeFirstServedHolds == Spec => FirstComeFirstServed
<1>1. ASSUME SpecInv, [Next]_vars, phase = "adding", waiting' # waiting
      PROVE  \E n \in 1 .. Len(waiting) : waiting' = SubSeq(waiting, n + 1, Len(waiting))
  <2>1. FinishAdder
    BY <1>1, Zenon DEF Next, LoopStep, vars, sched, StashChunked, MergeLastBatch, PlanPrefill,
       AddOneReq, EvictFromTreeCache, PrefillForward, PrefillResult, PrefillDone,
       UpdateRunningBatch, CheckDecodeMem, Retract, RetractCheck, AbortLast, DraftBlock,
       PrepareForVerify, Verify, DecodeResult, DecodeDone, PauseRelease, PauseDone,
       HandleGenerateRequest, AbortRequest, PauseInPlace, PauseRetract, ContinueGeneration
  <2>2. BatchInv /\ Stage = "adding" /\ waiting \in Seq(Req)
    BY <1>1 DEF SpecInv, BatchInv, SchedTypes, Stage
  <2>3. PICK k \in Unadmitted : waiting' = At(waiting, k)
    BY <1>1, <2>1 DEF FinishAdder
  <2> DEFINE n == Len(adder.list) - Resumed
  <2>4. n \in 0 .. Len(waiting) /\ waiting' = SubSeq(waiting, n + 1, Len(waiting))
    BY <2>2, <2>3, RestOfQueue
  <2> HIDE DEF n
  <2>5. n # 0
    <3>1. SubSeq(waiting, 1, Len(waiting)) = waiting
      BY <2>2
    <3> QED
      BY <1>1, <2>4, <3>1
  <2>6. n \in 1 .. Len(waiting)
    BY <2>2, <2>4, <2>5
  <2> QED
    BY <2>4, <2>6
<1> QED
  BY <1>1, SpecInvHolds, PTL DEF Spec, FirstComeFirstServed

-----------------------------------------------------------------------------
(* The contents of the pages.                                              *)

\* Contents f of the pages are right for the cache c and for the first com[r]
\* tokens of the rows tab.
TextsHeld(f, c, tab, com) ==
  /\ \A p \in DOMAIN c : \A o \in 0 .. PageSize - 1 :
       f[c[p]][o] = SubSeq(p, 1, Len(p) - PageSize + o + 1)
  /\ \A r \in Req : \A i \in 0 .. com[r] - 1 :
       tab[r] # <<>> => f[tab[r][(i \div PageSize) + 1]][i % PageSize] = Context(r, i)

\* Page and offset of a token.
LEMMA Position ==
  ASSUME NEW i \in Nat
  PROVE  /\ i \div PageSize \in Nat /\ i % PageSize \in 0 .. PageSize - 1
         /\ i = (i \div PageSize) * PageSize + (i % PageSize)
<1>1. \A p \in Nat : p > 0 =>
        /\ i \div p \in Nat /\ i % p \in 0 .. p - 1 /\ i = p * (i \div p) + (i % p)
  OBVIOUS
<1> DEFINE d == i \div PageSize
           m == i % PageSize
<1>2. d \in Nat /\ m \in 0 .. PageSize - 1 /\ i = PageSize * d + m
  BY <1>1, PageTypes
<1> HIDE DEF d, m
<1>3. PageSize * d = d * PageSize
  BY <1>2, PageTypes
<1> QED
  BY <1>2, <1>3 DEF d, m

LEMMA SamePosition ==
  ASSUME NEW i \in Nat, NEW k \in Nat,
         (i \div PageSize) + 1 = (k \div PageSize) + 1, i % PageSize = k % PageSize
  PROVE  i = k
<1>1. i \div PageSize = k \div PageSize
  BY Position
<1> QED
  BY <1>1, Position

\* A token of a row lies in one of its pages.
LEMMA PositionBound ==
  ASSUME NEW i \in Nat, NEW n \in Nat, i < n * PageSize
  PROVE  (i \div PageSize) + 1 \in 1 .. n
<1> DEFINE d == i \div PageSize
           m == i % PageSize
<1>1. d \in Nat /\ m \in 0 .. PageSize - 1 /\ i = d * PageSize + m
  BY Position
<1> HIDE DEF d, m
<1>2. d * PageSize \in Nat /\ n * PageSize \in Nat
  BY <1>1, PageTypes
<1>3. ASSUME n <= d PROVE FALSE
  <2>1. n * PageSize <= d * PageSize
    BY <1>1, <1>3, ScaleMonotone
  <2> QED
    BY <1>1, <1>2, <2>1, PageTypes
<1> QED
  BY <1>1, <1>3 DEF d

\* The text of a cached page is the context of its tokens.
LEMMA PathText ==
  ASSUME NEW r \in Req, NEW j \in 1 .. NumPages, NEW o \in 0 .. PageSize - 1
  PROVE  /\ SubSeq(Path(r, j), 1, Len(Path(r, j)) - PageSize + o + 1)
              = Context(r, (j - 1) * PageSize + o)
<1> DEFINE n == j * PageSize
<1>1. j \in Nat /\ j <= NumPages /\ n \in Nat /\ PageSize \in Nat /\ o \in Nat /\ o < PageSize
  BY PageTypes
<1>2. (j - 1) * PageSize = n - PageSize /\ (j - 1) * PageSize \in Nat
  <2>1. j - 1 \in Nat
    OBVIOUS
  <2> QED
    BY <1>1, <2>1
<1>3. Path(r, j) = [i \in 1 .. n |-> Text[r][i]]
  BY DEF Path
<1> HIDE DEF n
<1>4. Len(Path(r, j)) = n
  BY <1>1, <1>3
<1> DEFINE k == n - PageSize + o + 1
<1>5. k \in Nat /\ k <= n
  BY <1>1, <1>2
<1>6. n <= Len(Text[r]) /\ Text[r] \in Seq(Nat)
  <2>1. n <= NumPages * PageSize /\ NumPages * PageSize \in Nat
    BY <1>1, ScaleMonotone, PageTypes DEF n
  <2>2. Text[r] \in Seq(Nat) /\ NumPages * PageSize <= Len(Text[r])
    BY ConstantsAssumption, MemAssumption
  <2> QED
    BY <1>1, <2>1, <2>2
<1>7. SubSeq(Path(r, j), 1, k) = [i \in 1 .. k |-> Text[r][i]]
  <2>1. Path(r, j) \in [1 .. n -> Nat]
    BY <1>1, <1>3, <1>6
  <2>2. Path(r, j) \in Seq(Nat)
    BY <1>1, <2>1
  <2>3. \A i \in 1 .. k : Path(r, j)[i] = Text[r][i]
    BY <1>1, <1>3, <1>5
  <2> HIDE DEF k
  <2> QED
    BY <1>4, <1>5, <2>2, <2>3
<1>8. SubSeq(Text[r], 1, k) = [i \in 1 .. k |-> Text[r][i]]
  BY <1>1, <1>5, <1>6
<1>9. Context(r, (j - 1) * PageSize + o) = SubSeq(Text[r], 1, k)
  <2>1. (j - 1) * PageSize + o + 1 = k
    BY <1>1, <1>2
  <2> QED
    BY Zenon, <2>1 DEF Context
<1> QED
  BY <1>4, <1>7, <1>8, <1>9

\* A row holds pages that no one else writes to: they are not free, the private
\* ones are not cached, and no other place of a row has them.
PagesApart(c, tab, prt) ==
  /\ \A r \in Req : prt[r] \in Nat /\ Len(tab[r]) \in Nat
  /\ \A r \in Req : \A j \in prt[r] + 1 .. Len(tab[r]) : \A p \in DOMAIN c : tab[r][j] # c[p]
  /\ \A q, r \in Req : \A i \in prt[q] + 1 .. Len(tab[q]), j \in prt[r] + 1 .. Len(tab[r]) :
       tab[q][i] = tab[r][j] => q = r /\ i = j
  /\ \A r \in Req : tab[r] # <<>> => \A j \in 1 .. prt[r] : \E p \in DOMAIN c : tab[r][j] = c[p]
  /\ \A r \in Req : \A j \in 1 .. Len(tab[r]) : tab[r][j] \in Page
  /\ \A p \in DOMAIN c : c[p] \in Page

LEMMA PagesAreApart == MemInv => PagesApart(cache, table, prot)
<1> SUFFICES ASSUME MemInv PROVE PagesApart(cache, table, prot)
  OBVIOUS
<1>1. \A r \in Req : prot[r] \in Nat /\ table[r] \in Seq(Page) /\ Len(table[r]) \in Nat
  BY RowTypes
<1>2. \A r \in Req : \A j \in 1 .. Len(table[r]) : table[r][j] \in Page
  BY <1>1
<1>3. /\ \A r \in Req : \A j \in prot[r] + 1 .. Len(table[r]) : \A p \in DOMAIN cache : table[r][j] # cache[p]
      /\ \A q, r \in Req :
           \A i \in prot[q] + 1 .. Len(table[q]), j \in prot[r] + 1 .. Len(table[r]) :
             table[q][i] = table[r][j] => q = r /\ i = j
  BY Zenon DEF MemInv, NoSharing, Private, Cached
<1>4. \A r \in Req : table[r] # <<>> =>
        \A j \in 1 .. prot[r] : \E p \in DOMAIN cache : table[r][j] = cache[p]
  BY DEF MemInv, ProtectedIsCached, Cached
<1>5. \A p \in DOMAIN cache : cache[p] \in Page
  BY DEF MemInv, MemTypeOK, Cached
<1> QED
  BY <1>1, <1>2, <1>3, <1>4, <1>5, Zenon DEF PagesApart

LEMMA NextPagesAreApart ==
  ASSUME MemInv'
  PROVE  PagesApart(cache', table', prot')
<1>1. (MemInv => PagesApart(cache, table, prot))'
  BY PagesAreApart, PTL
<1> QED
  BY <1>1 DEF PagesApart

\* A forward writes the tokens lo[r] .. hi[r]-1 of the rows of S, all behind the
\* protected pages: these get their contexts, up to ok[r], and nothing else
\* that is read changes.
LEMMA WrittenTexts ==
  ASSUME NEW f, NEW c, NEW tab, NEW prt, PagesApart(c, tab, prt),
         NEW S \in SUBSET Req, NEW old, NEW lo, NEW hi, NEW ok, NEW new,
         TextsHeld(f, c, tab, old),
         \A r \in S : /\ lo[r] \in Nat /\ hi[r] \in Nat /\ ok[r] \in Nat /\ new[r] \in Nat
                      /\ prt[r] * PageSize <= lo[r] /\ old[r] = lo[r]
                      /\ new[r] <= hi[r] /\ new[r] <= ok[r] /\ new[r] <= NumPages * PageSize
                      /\ hi[r] <= Len(tab[r]) * PageSize,
         \A r \in Req \ S : new[r] = old[r] /\ old[r] \in Nat
                            /\ (tab[r] # <<>> => old[r] <= Len(tab[r]) * PageSize)
  PROVE  TextsHeld(Written(f, tab, S, lo, hi, ok), c, tab, new)
<1> DEFINE g == Written(f, tab, S, lo, hi, ok)
           At1(p, o) == {w \in S \X (0 .. NumPages * PageSize) :
                           /\ w[2] \in lo[w[1]] .. hi[w[1]] - 1
                           /\ w[2] % PageSize = o
                           /\ tab[w[1]][(w[2] \div PageSize) + 1] = p}
<1>0. /\ PageSize \in Nat /\ PageSize > 0 /\ NumPages * PageSize \in Nat
      /\ \A r \in Req : prt[r] \in Nat /\ Len(tab[r]) \in Nat
  BY PageTypes DEF PagesApart
<1>a. \A r \in Req : \A j \in prt[r] + 1 .. Len(tab[r]) : \A p \in DOMAIN c : tab[r][j] # c[p]
  BY DEF PagesApart
<1>b. \A q, r \in Req : \A i \in prt[q] + 1 .. Len(tab[q]), j \in prt[r] + 1 .. Len(tab[r]) :
        tab[q][i] = tab[r][j] => q = r /\ i = j
  BY Zenon DEF PagesApart
<1>1. ASSUME NEW p \in Page, NEW o \in 0 .. PageSize - 1
      PROVE  g[p][o] = IF At1(p, o) = {} THEN f[p][o]
                       ELSE LET w == CHOOSE w \in At1(p, o) : TRUE
                            IN  IF w[2] < ok[w[1]] THEN Context(w[1], w[2]) ELSE Garbage
  BY Zenon DEF Written
\* What is written lies in the private part of its row.
<1>2. ASSUME NEW q \in S, NEW i \in lo[q] .. hi[q] - 1
      PROVE  /\ i \in Nat /\ (i \div PageSize) + 1 \in prt[q] + 1 .. Len(tab[q])
  <2>1. /\ q \in Req /\ lo[q] \in Nat /\ hi[q] \in Nat /\ prt[q] * PageSize <= lo[q]
        /\ hi[q] <= Len(tab[q]) * PageSize /\ prt[q] \in Nat /\ Len(tab[q]) \in Nat
    BY <1>0
  <2>2. i \in Nat /\ lo[q] <= i /\ i < hi[q]
    BY <2>1
  <2>3. Len(tab[q]) * PageSize \in Nat /\ prt[q] * PageSize \in Nat
    BY <2>1, PageTypes
  <2> DEFINE n == Len(tab[q])
             l == n * PageSize
             b == prt[q] * PageSize
  <2>4. i < l /\ b <= i
    <3>1. /\ lo[q] \in Nat /\ hi[q] \in Nat /\ b <= lo[q] /\ hi[q] <= l
          /\ l \in Nat /\ b \in Nat
      BY <2>1, <2>3
    <3> HIDE DEF l, b
    <3> QED
      BY <2>2, <3>1
  <2>5. (i \div PageSize) + 1 \in 1 .. Len(tab[q])
    BY <2>1, <2>2, <2>4, PositionBound
  <2>6. prt[q] <= i \div PageSize /\ i \div PageSize \in Nat
    BY <2>1, <2>2, <2>4, DivLeast, DivBounds
  <2> QED
    BY <2>1, <2>2, <2>5, <2>6
<1>3. ASSUME NEW p \in DOMAIN c, NEW o \in 0 .. PageSize - 1
      PROVE  g[c[p]][o] = f[c[p]][o]
  <2>1. c[p] \in Page
    BY DEF PagesApart
  <2>2. ASSUME NEW w \in At1(c[p], o) PROVE FALSE
    <3>1. /\ w[1] \in S /\ w[1] \in Req /\ w[2] \in lo[w[1]] .. hi[w[1]] - 1
          /\ tab[w[1]][(w[2] \div PageSize) + 1] = c[p]
      OBVIOUS
    <3>2. (w[2] \div PageSize) + 1 \in prt[w[1]] + 1 .. Len(tab[w[1]])
      BY <1>2, <3>1
    <3> QED
      BY <1>a, <3>1, <3>2
  <2>3. At1(c[p], o) = {}
    BY <2>2
  <2> HIDE DEF g, At1
  <2> QED
    BY <1>1, <2>1, <2>3
<1>4. ASSUME NEW r \in Req, tab[r] # <<>>, NEW i \in Nat, i < new[r]
      PROVE  g[tab[r][(i \div PageSize) + 1]][i % PageSize] = Context(r, i)
  <2> DEFINE j == (i \div PageSize) + 1
             o == i % PageSize
             p == tab[r][j]
  <2>0. new[r] \in Nat /\ new[r] <= Len(tab[r]) * PageSize /\ Len(tab[r]) \in Nat
    <3>1. CASE r \in S
      <4>1. new[r] \in Nat /\ hi[r] \in Nat /\ new[r] <= hi[r] /\ hi[r] <= Len(tab[r]) * PageSize
            /\ Len(tab[r]) \in Nat
        BY <1>0, <3>1
      <4>2. Len(tab[r]) * PageSize \in Nat
        BY <1>0, <4>1
      <4> QED
        BY <4>1, <4>2
    <3>2. CASE r \notin S
      BY <1>0, <1>4, <3>2
    <3> QED
      BY <3>1, <3>2
  <2>1. o \in 0 .. PageSize - 1 /\ j \in 1 .. Len(tab[r]) /\ j \in Nat
    <3>1. Len(tab[r]) * PageSize \in Nat
      BY <1>0, <2>0
    <3>2. i < Len(tab[r]) * PageSize
      BY <1>4, <2>0, <3>1
    <3>3. j \in 1 .. Len(tab[r])
      BY <2>0, <3>2, PositionBound
    <3> QED
      BY <3>3, Position
  <2>2. p \in Page
    BY <2>1 DEF PagesApart
  \* Only this token is written there.
  <2>3. ASSUME NEW w \in At1(p, o) PROVE w[1] = r /\ w[2] = i
    <3>1. /\ w[1] \in S /\ w[1] \in Req /\ w[2] \in lo[w[1]] .. hi[w[1]] - 1
          /\ w[2] % PageSize = o /\ tab[w[1]][(w[2] \div PageSize) + 1] = p
      BY <2>3
    <3>2. w[2] \in Nat /\ (w[2] \div PageSize) + 1 \in prt[w[1]] + 1 .. Len(tab[w[1]])
      BY <1>2, <3>1
    <3>3. j \in prt[r] + 1 .. Len(tab[r])
      <4>1. ASSUME j \in 1 .. prt[r] PROVE FALSE
        <5>1. PICK x \in DOMAIN c : p = c[x]
          BY <1>4, <4>1 DEF PagesApart
        <5> QED
          BY <1>a, <3>1, <3>2, <5>1
      <4>2. prt[r] \in Nat /\ Len(tab[r]) \in Nat
        BY <1>0
      <4> HIDE DEF j
      <4> QED
        BY <2>1, <4>1, <4>2
    <3>4. w[1] = r /\ (w[2] \div PageSize) + 1 = j
      BY <1>b, <3>1, <3>2, <3>3
    <3> QED
      BY <3>1, <3>2, <3>4, SamePosition
  <2>4. CASE r \in S /\ lo[r] <= i
    <3>1. /\ lo[r] \in Nat /\ hi[r] \in Nat /\ ok[r] \in Nat /\ new[r] \in Nat
          /\ new[r] <= hi[r] /\ new[r] <= ok[r] /\ new[r] <= NumPages * PageSize
      BY <2>4
    <3>2. i \in lo[r] .. hi[r] - 1 /\ i \in 0 .. NumPages * PageSize /\ i < ok[r]
      <4> DEFINE t == NumPages * PageSize
      <4>1. t \in Nat /\ new[r] <= t /\ lo[r] <= i /\ i < new[r]
        BY <1>0, <1>4, <2>4, <3>1
      <4> HIDE DEF t
      <4>2. i \in lo[r] .. hi[r] - 1 /\ i \in 0 .. t /\ i < ok[r]
        BY <3>1, <4>1
      <4> QED
        BY <4>2 DEF t
    <3>3. <<r, i>> \in At1(p, o)
      BY <2>4, <3>2
    <3> HIDE DEF At1, p, o
    <3> DEFINE x == CHOOSE x \in At1(p, o) : TRUE
    <3>4. x \in At1(p, o)
      BY <3>3
    <3>5. x[1] = r /\ x[2] = i
      BY <2>3, <3>4
    <3>6. g[p][o] = IF x[2] < ok[x[1]] THEN Context(x[1], x[2]) ELSE Garbage
      <4> HIDE DEF g
      <4> QED
        BY <1>1, <2>1, <2>2, <3>3
    <3> HIDE DEF g, x
    <3>7. g[p][o] = Context(r, i)
      BY <3>2, <3>5, <3>6
    <3> QED
      BY <3>7 DEF p, o
  <2>5. CASE ~ (r \in S /\ lo[r] <= i)
    <3>1. At1(p, o) = {}
      <4>1. ASSUME NEW w \in At1(p, o) PROVE FALSE
        <5>1. w[1] = r /\ w[2] = i
          BY Zenon, <2>3
        <5>2. w[1] \in S /\ w[2] \in lo[w[1]] .. hi[w[1]] - 1
          BY <4>1
        <5>3. r \in S /\ i \in lo[r] .. hi[r] - 1 /\ lo[r] \in Nat /\ hi[r] \in Nat
          BY <5>1, <5>2
        <5> QED
          BY <2>5, <5>3
      <4> HIDE DEF At1
      <4> QED
        BY <4>1
    <3>2. i < old[r] /\ old[r] \in Nat
      <4>1. CASE r \in S
        BY <2>5, <4>1
      <4>2. CASE r \notin S
        BY <1>4, <4>2
      <4> QED
        BY <4>1, <4>2
    <3>3. i \in 0 .. old[r] - 1
      BY <3>2
    <3>4. f[p][o] = Context(r, i)
      BY <1>4, <3>3 DEF TextsHeld
    <3> HIDE DEF g, At1, p, o
    <3>5. g[p][o] = f[p][o]
      BY Zenon, <1>1, <2>1, <2>2, <3>1
    <3> QED
      BY <3>4, <3>5 DEF p, o
  <2> QED
    BY <2>4, <2>5
<1> HIDE DEF g, At1
<1>5. \A r \in Req : \A i \in 0 .. new[r] - 1 :
        tab[r] # <<>> => g[tab[r][(i \div PageSize) + 1]][i % PageSize] = Context(r, i)
  <2> TAKE r \in Req
  <2> TAKE i \in 0 .. new[r] - 1
  <2>1. new[r] \in Nat
    BY <1>0
  <2>2. i \in Nat /\ i < new[r]
    BY <2>1
  <2> QED
    BY <1>4, <2>2
<1>6. \A p \in DOMAIN c : \A o \in 0 .. PageSize - 1 :
        g[c[p]][o] = SubSeq(p, 1, Len(p) - PageSize + o + 1)
  BY <1>3 DEF TextsHeld
<1>7. TextsHeld(g, c, tab, new)
  BY <1>5, <1>6 DEF TextsHeld
<1> QED
  BY <1>7 DEF g

\* The token at offset o of page k.
LEMMA PositionOf ==
  ASSUME NEW k \in Nat, NEW o \in 0 .. PageSize - 1
  PROVE  /\ k * PageSize + o \in Nat
         /\ (k * PageSize + o) \div PageSize = k /\ (k * PageSize + o) % PageSize = o
<1> DEFINE i == k * PageSize + o
<1>1. i \in Nat /\ o \in Nat /\ o < PageSize /\ k * PageSize \in Nat /\ PageSize \in Nat
  BY PageTypes
<1> DEFINE d == i \div PageSize
           m == i % PageSize
<1>2. d \in Nat /\ m \in 0 .. PageSize - 1 /\ i = d * PageSize + m /\ d * PageSize \in Nat
  BY <1>1, Position, PageTypes
<1>3. k * PageSize + o = d * PageSize + m
  BY <1>2
<1> HIDE DEF d, m
<1>4. ASSUME k < d PROVE FALSE
  <2>1. (k + 1) * PageSize <= d * PageSize /\ (k + 1) * PageSize = k * PageSize + PageSize
    BY <1>1, <1>2, <1>4, ScaleMonotone
  <2> QED
    BY <1>1, <1>2, <1>3, <2>1
<1>5. ASSUME d < k PROVE FALSE
  <2>1. (d + 1) * PageSize <= k * PageSize /\ (d + 1) * PageSize = d * PageSize + PageSize
    BY <1>1, <1>2, <1>5, ScaleMonotone
  <2> QED
    BY <1>1, <1>2, <1>3, <2>1
<1>6. d = k
  BY <1>2, <1>4, <1>5
<1>7. m = o
  BY <1>1, <1>2, <1>3, <1>6
<1> QED
  BY <1>1, <1>6, <1>7 DEF d, m

\* What is read of rows that stay, through a cache that only loses entries.
LEMMA FewerTexts ==
  ASSUME NEW f, NEW c, NEW tab, NEW com, TextsHeld(f, c, tab, com),
         NEW c2, NEW tab2, NEW com2,
         \A p \in DOMAIN c2 : p \in DOMAIN c /\ c2[p] = c[p],
         \A r \in Req : tab2[r] = <<>> \/ (tab2[r] = tab[r] /\ com2[r] = com[r])
  PROVE  TextsHeld(f, c2, tab2, com2)
<1>1. \A p \in DOMAIN c2 : \A o \in 0 .. PageSize - 1 :
        f[c2[p]][o] = SubSeq(p, 1, Len(p) - PageSize + o + 1)
  BY DEF TextsHeld
<1>2. \A r \in Req : \A i \in 0 .. com2[r] - 1 :
        tab2[r] # <<>> => f[tab2[r][(i \div PageSize) + 1]][i % PageSize] = Context(r, i)
  BY DEF TextsHeld
<1> QED
  BY <1>1, <1>2 DEF TextsHeld

\* Freed pages are not read.
LEMMA ScrubbedTexts ==
  ASSUME NEW f, NEW c, NEW tab, NEW com, TextsHeld(f, c, tab, com), NEW P,
         \A p \in DOMAIN c : c[p] \in Page /\ c[p] \notin P,
         \A r \in Req : Len(tab[r]) \in Nat,
         \A r \in Req : \A j \in 1 .. Len(tab[r]) : tab[r][j] \in Page /\ tab[r][j] \notin P,
         \A r \in Req : com[r] \in Nat /\ (tab[r] # <<>> => com[r] <= Len(tab[r]) * PageSize)
  PROVE  TextsHeld(Scrub(f, P), c, tab, com)
<1> DEFINE g == Scrub(f, P)
<1>1. \A x \in Page : x \notin P => g[x] = f[x]
  BY DEF Scrub
<1> HIDE DEF g
<1>2. \A p \in DOMAIN c : \A o \in 0 .. PageSize - 1 :
        g[c[p]][o] = SubSeq(p, 1, Len(p) - PageSize + o + 1)
  BY <1>1 DEF TextsHeld
<1>3. ASSUME NEW r \in Req, NEW i \in 0 .. com[r] - 1, tab[r] # <<>>
      PROVE  g[tab[r][(i \div PageSize) + 1]][i % PageSize] = Context(r, i)
  <2>1. Len(tab[r]) \in Nat /\ com[r] \in Nat /\ com[r] <= Len(tab[r]) * PageSize
    BY <1>3
  <2>2. i \in Nat /\ i < com[r] /\ Len(tab[r]) * PageSize \in Nat
    BY <2>1, PageTypes
  <2>3. i < Len(tab[r]) * PageSize
    BY <2>1, <2>2
  <2>4. (i \div PageSize) + 1 \in 1 .. Len(tab[r])
    BY <2>1, <2>2, <2>3, PositionBound
  <2>5. g[tab[r][(i \div PageSize) + 1]] = f[tab[r][(i \div PageSize) + 1]]
    BY <1>1, <2>4
  <2> QED
    BY <1>3, <2>5 DEF TextsHeld
<1> QED
  BY <1>2, <1>3 DEF TextsHeld, g

\* No page of the cache or of a row is free.
LEMMA PagesInUse ==
  MemInv => /\ \A p \in DOMAIN cache : cache[p] \in Page /\ cache[p] \notin free
            /\ \A r \in Req : Len(table[r]) \in Nat
            /\ \A r \in Req : \A j \in 1 .. Len(table[r]) :
                 table[r][j] \in Page /\ table[r][j] \notin free
<1> SUFFICES ASSUME MemInv
             PROVE  /\ \A p \in DOMAIN cache : cache[p] \in Page /\ cache[p] \notin free
                    /\ \A r \in Req : Len(table[r]) \in Nat
                    /\ \A r \in Req : \A j \in 1 .. Len(table[r]) :
                         table[r][j] \in Page /\ table[r][j] \notin free
  OBVIOUS
<1>1. \A p \in DOMAIN cache : cache[p] \in Page /\ cache[p] \notin free
  BY DEF MemInv, MemTypeOK, NoSharing, Cached
<1>2. \A r \in Req : prot[r] \in Nat /\ table[r] \in Seq(Page) /\ Len(table[r]) \in Nat
  BY RowTypes
<1>3. ASSUME NEW r \in Req, NEW j \in 1 .. Len(table[r])
      PROVE  table[r][j] \in Page /\ table[r][j] \notin free
  <2>1. table[r] # <<>>
    BY <1>2, EmptySet
  <2>2. CASE j <= prot[r]
    <3>1. Path(r, j) \in Cached /\ table[r][j] = cache[Path(r, j)]
      BY <1>2, <2>1, <2>2 DEF MemInv, ProtectedIsCached
    <3> QED
      BY <1>1, <3>1 DEF Cached
  <2>3. CASE ~ j <= prot[r]
    <3>1. j \in Private(r)
      BY <1>2, <2>3 DEF Private
    <3> QED
      BY <1>2, <3>1 DEF MemInv, NoSharing
  <2> QED
    BY <2>2, <2>3
<1> QED
  BY <1>1, <1>2, <1>3

\* The committed tokens fit in the row, and the row in the pool.
LEMMA CommittedFits ==
  MemInv /\ SchedTypes /\ LengthsInv =>
    \A r \in Req : /\ committed[r] \in Nat
                   /\ table[r] # <<>> => /\ committed[r] <= Len(table[r]) * PageSize
                                         /\ committed[r] <= NumPages * PageSize
<1> SUFFICES ASSUME MemInv, SchedTypes, LengthsInv, NEW r \in Req
             PROVE  /\ committed[r] \in Nat
                    /\ table[r] # <<>> => /\ committed[r] <= Len(table[r]) * PageSize
                                          /\ committed[r] <= NumPages * PageSize
  OBVIOUS
<1>1. committed[r] \in Nat
  BY DEF SchedTypes
<1>2. ASSUME table[r] # <<>>
      PROVE  committed[r] <= Len(table[r]) * PageSize /\ committed[r] <= NumPages * PageSize
  <2> DEFINE b == IF Stage = "verify" THEN Block ELSE 0
             n == committed[r] + b
  <2>1. r \in RowsHeld /\ b \in Nat /\ n \in Nat
    BY <1>1, <1>2, ParamTypes DEF RowsHeld
  <2>2. committed[r] <= InputLen(r) /\ Len(table[r]) = PagesFor(n)
    BY <2>1 DEF LengthsInv
  <2>3. committed[r] <= n
    BY <1>1, <2>1
  <2> HIDE DEF n
  <2>4. n <= PagesFor(n) * PageSize /\ PagesFor(n) * PageSize \in Nat
    BY <2>1, PagesForBounds, PageTypes
  <2>5. InputLen(r) \in Nat /\ InputLen(r) < NumPages * PageSize /\ NumPages * PageSize \in Nat
    BY InputBound
  <2>6. committed[r] <= PagesFor(n) * PageSize
    BY <1>1, <2>1, <2>3, <2>4
  <2>7. committed[r] <= NumPages * PageSize
    BY <1>1, <2>2, <2>5
  <2> QED
    BY <2>2, <2>6, <2>7
<1> QED
  BY <1>1, <1>2

\* After a step that frees pages the others are read as before.
LEMMA FreedTexts ==
  ASSUME MemInv', BatchInv', NEW f, TextsHeld(f, cache', table', committed')
  PROVE  TextsHeld(Scrub(f, free' \ free), cache', table', committed')
<1>1. (MemInv => /\ \A p \in DOMAIN cache : cache[p] \in Page /\ cache[p] \notin free
                 /\ \A r \in Req : Len(table[r]) \in Nat
                 /\ \A r \in Req : \A j \in 1 .. Len(table[r]) :
                      table[r][j] \in Page /\ table[r][j] \notin free)'
  BY PagesInUse, PTL
<1>2. (MemInv /\ SchedTypes /\ LengthsInv =>
         \A r \in Req : /\ committed[r] \in Nat
                        /\ table[r] # <<>> => /\ committed[r] <= Len(table[r]) * PageSize
                                              /\ committed[r] <= NumPages * PageSize)'
  BY CommittedFits, PTL
<1>3. SchedTypes' /\ LengthsInv'
  BY DEF BatchInv
<1> DEFINE c == cache'
           tab == table'
           com == committed'
           P == free' \ free
<1>4. /\ \A p \in DOMAIN c : c[p] \in Page /\ c[p] \notin P
      /\ \A r \in Req : Len(tab[r]) \in Nat
      /\ \A r \in Req : \A j \in 1 .. Len(tab[r]) : tab[r][j] \in Page /\ tab[r][j] \notin P
  BY <1>1
<1>5. \A r \in Req : com[r] \in Nat /\ (tab[r] # <<>> => com[r] <= Len(tab[r]) * PageSize)
  BY <1>2, <1>3
<1> HIDE DEF c, tab, com, P
<1>6. TextsHeld(f, c, tab, com)
  BY DEF c, tab, com
<1>7. TextsHeld(Scrub(f, P), c, tab, com)
  BY <1>4, <1>5, <1>6, ScrubbedTexts
<1> QED
  BY <1>7 DEF c, tab, com, P

LEMMA ScrubFreedTexts ==
  ASSUME MemInv', BatchInv', ScrubFreed,
         TextsHeld(kv, cache', table', committed'), TextsHeld(dkv, cache', table', committed')
  PROVE  TextsHeld(kv', cache', table', committed') /\ TextsHeld(dkv', cache', table', committed')
<1>1. kv' = Scrub(kv, free' \ free) /\ dkv' = Scrub(dkv, free' \ free)
  BY DEF ScrubFreed
<1>2. TextsHeld(Scrub(kv, free' \ free), cache', table', committed')
  BY FreedTexts
<1>3. TextsHeld(Scrub(dkv, free' \ free), cache', table', committed')
  BY FreedTexts
<1> QED
  BY <1>1, <1>2, <1>3

\* A page that is filed holds the text it is filed under: the row's tokens on
\* it are committed.
LEMMA InsertTexts ==
  ASSUME MemInv, NEW r \in Req, NEW K \in 0 .. NumPages, NEW m \in 0 .. NumPages,
         Whole(r, K), IsMatch(r, K, m), table[r] # <<>>,
         NEW f, NEW com, TextsHeld(f, cache, table, com), com[r] \in Nat, K * PageSize <= com[r],
         NEW c, c = Inserted(r, K)
  PROVE  \A p \in DOMAIN c : \A o \in 0 .. PageSize - 1 :
           f[c[p]][o] = SubSeq(p, 1, Len(p) - PageSize + o + 1)
<1>1. /\ m \in Nat /\ K \in Nat /\ K <= NumPages /\ NumPages \in Nat
      /\ DOMAIN c = Cached \cup {Path(r, j) : j \in m + 1 .. K}
      /\ \A p \in Cached : c[p] = cache[p]
      /\ \A j \in m + 1 .. K : c[Path(r, j)] = table[r][j]
  <2>1. InsertEffect(r, K, m)
    BY InsertFacts
  <2>2. m \in Nat /\ K \in Nat /\ K <= NumPages /\ NumPages \in Nat
    BY PageTypes
  <2> QED
    BY <2>1, <2>2, Zenon DEF InsertEffect
<1>2. ASSUME NEW p \in Cached, NEW o \in 0 .. PageSize - 1
      PROVE  f[c[p]][o] = SubSeq(p, 1, Len(p) - PageSize + o + 1)
  BY <1>1 DEF TextsHeld, Cached
<1>3. ASSUME NEW j \in m + 1 .. K, NEW o \in 0 .. PageSize - 1
      PROVE  f[c[Path(r, j)]][o]
               = SubSeq(Path(r, j), 1, Len(Path(r, j)) - PageSize + o + 1)
  <2> DEFINE i == (j - 1) * PageSize + o
  <2>1. j \in 1 .. NumPages /\ j - 1 \in Nat /\ j \in Nat /\ j <= K /\ o \in Nat /\ o < PageSize
        /\ PageSize \in Nat
    BY <1>1, PageTypes
  <2>2. i \in Nat /\ (i \div PageSize) = j - 1 /\ i % PageSize = o
    BY <2>1, PositionOf
  <2>3. (i \div PageSize) + 1 = j
    BY <2>1, <2>2
  <2>4. i < com[r]
    <3>1. j * PageSize <= K * PageSize /\ j * PageSize \in Nat /\ K * PageSize \in Nat
      BY <1>1, <2>1, ScaleMonotone
    <3> DEFINE k == j - 1
    <3>2. j * PageSize = k * PageSize + PageSize /\ k * PageSize \in Nat
      <4>1. k \in Nat /\ j = k + 1
        BY <2>1
      <4> HIDE DEF k
      <4>2. (k + 1) * PageSize = k * PageSize + PageSize /\ k * PageSize \in Nat
        BY <4>1, PageTypes
      <4> QED
        BY <4>1, <4>2
    <3> QED
      BY <2>1, <3>1, <3>2
  <2>5. i \in 0 .. com[r] - 1
    BY <2>2, <2>4
  <2> HIDE DEF i
  <2>6. f[table[r][(i \div PageSize) + 1]][i % PageSize] = Context(r, i)
    BY <2>5 DEF TextsHeld
  <2>7. f[table[r][j]][o] = Context(r, i)
    BY <2>2, <2>3, <2>6
  <2>8. SubSeq(Path(r, j), 1, Len(Path(r, j)) - PageSize + o + 1) = Context(r, i)
    BY Zenon, <2>1, PathText DEF i
  <2> QED
    BY Zenon, <1>1, <2>7, <2>8
<1> SUFFICES ASSUME NEW p \in DOMAIN c, NEW o \in 0 .. PageSize - 1
             PROVE  f[c[p]][o] = SubSeq(p, 1, Len(p) - PageSize + o + 1)
  OBVIOUS
<1>4. CASE p \in Cached
  BY <1>2, <1>4
<1>5. CASE p \notin Cached
  <2>1. PICK j \in m + 1 .. K : p = Path(r, j)
    BY <1>1, <1>5
  <2> QED
    BY <1>3, <2>1
<1> QED
  BY <1>4, <1>5

\* release_kv_cache of a finished request.
LEMMA FinishTexts ==
  ASSUME MemInv, SchedTypes, LengthsInv, NEW r \in RowsHeld, Finish(r), committed' = committed,
         NEW f, TextsHeld(f, cache, table, committed)
  PROVE  TextsHeld(f, cache', table', committed')
<1> DEFINE K == committed[r] \div PageSize
<1>1. PICK m \in 0 .. NumPages : ReleaseInsert(r, K, m)
  BY DEF Finish
<1>2. r \in Req /\ table[r] # <<>> /\ committed[r] \in Nat
  BY DEF RowsHeld, SchedTypes
<1>3. K \in 0 .. NumPages /\ Whole(r, K) /\ K * PageSize <= committed[r]
  BY Zenon, <1>2, RowWhole, DivBounds
<1> HIDE DEF K
<1>4. IsMatch(r, K, m) /\ cache' = Inserted(r, K) /\ table' = [table EXCEPT ![r] = <<>>]
  BY <1>1 DEF ReleaseInsert, Forget
<1> DEFINE c == cache'
<1>5. \A p \in DOMAIN c : \A o \in 0 .. PageSize - 1 :
        f[c[p]][o] = SubSeq(p, 1, Len(p) - PageSize + o + 1)
  <2>1. c = Inserted(r, K)
    BY <1>4
  <2> HIDE DEF c
  <2> QED
    BY <1>2, <1>3, <1>4, <2>1, InsertTexts
<1>6. \A q \in Req : table'[q] = <<>> \/ table'[q] = table[q]
  <2>1. table \in [Req -> Seq(Page)]
    BY DEF MemInv, MemTypeOK
  <2> QED
    BY <1>4, <2>1
<1>7. \A q \in Req : \A i \in 0 .. committed'[q] - 1 :
        table'[q] # <<>> => f[table'[q][(i \div PageSize) + 1]][i % PageSize] = Context(q, i)
  BY <1>6 DEF TextsHeld
<1> QED
  BY <1>5, <1>7 DEF TextsHeld

\* maybe_cache_unfinished_req: the row is read back from the cache.
LEMMA StashTexts ==
  ASSUME MemInv, SchedTypes, LengthsInv, NEW r \in RowsHeld, fill[r] = committed[r], Stash(r),
         committed' = committed, NEW f, TextsHeld(f, cache, table, committed)
  PROVE  TextsHeld(f, cache', table', committed')
<1> DEFINE K == fill[r] \div PageSize
<1>1. PICK m \in 0 .. NumPages : CacheUnfinished(r, K, m)
  BY DEF Stash
<1>2. r \in Req /\ table[r] # <<>> /\ committed[r] \in Nat /\ fill[r] = committed[r]
  BY DEF RowsHeld, SchedTypes
<1>3. K \in 0 .. NumPages /\ Whole(r, K) /\ K * PageSize <= committed[r] /\ K \in Nat
  <2>1. K = committed[r] \div PageSize
    BY <1>2
  <2> QED
    BY <1>2, <2>1, RowWhole, DivBounds
<1> HIDE DEF K
<1>4. /\ IsMatch(r, K, m) /\ cache' = Inserted(r, K)
      /\ table' = [table EXCEPT ![r] =
           [j \in 1 .. Len(table[r]) |->
              IF j <= K THEN Inserted(r, K)[Path(r, j)] ELSE table[r][j]]]
  BY <1>1 DEF CacheUnfinished
<1> DEFINE c == cache'
<1>5. \A p \in DOMAIN c : \A o \in 0 .. PageSize - 1 :
        f[c[p]][o] = SubSeq(p, 1, Len(p) - PageSize + o + 1)
  <2>1. c = Inserted(r, K)
    BY <1>4
  <2> HIDE DEF c
  <2> QED
    BY <1>2, <1>3, <1>4, <2>1, InsertTexts
<1>6. table \in [Req -> Seq(Page)]
  BY DEF MemInv, MemTypeOK
<1>7. \A q \in Req \ {r} : table'[q] = table[q]
  BY <1>4, <1>6
<1>8. /\ \A j \in 1 .. K : Path(r, j) \in DOMAIN c
      /\ \A j \in 1 .. Len(table[r]) :
           table'[r][j] = IF j <= K THEN c[Path(r, j)] ELSE table[r][j]
  <2>1. \A j \in 1 .. K : Path(r, j) \in DOMAIN c
    BY <1>4 DEF Inserted
  <2> QED
    BY <1>2, <1>4, <1>6, <2>1
<1>9. ASSUME NEW i \in 0 .. committed[r] - 1
      PROVE  f[table'[r][(i \div PageSize) + 1]][i % PageSize] = Context(r, i)
  <2> DEFINE d == i \div PageSize
             o == i % PageSize
             j == d + 1
  <2>1. i \in Nat /\ i < committed[r] /\ Len(table[r]) \in Nat /\ NumPages \in Nat
    BY <1>2, <1>6, PageTypes
  <2>2. d \in Nat /\ o \in 0 .. PageSize - 1 /\ i = d * PageSize + o
    BY Zenon, <2>1, Position
  <2>3. committed[r] <= Len(table[r]) * PageSize /\ committed[r] <= NumPages * PageSize
        /\ Len(table[r]) * PageSize \in Nat /\ NumPages * PageSize \in Nat
    BY <1>2, <2>1, CommittedFits, PageTypes
  <2>4. i < Len(table[r]) * PageSize /\ i < NumPages * PageSize
    BY <1>2, <2>1, <2>3
  <2>5. j \in 1 .. Len(table[r]) /\ j \in 1 .. NumPages
    BY <2>1, <2>4, PositionBound
  <2>6. CASE j <= K
    <3>1. j \in 1 .. K /\ j - 1 = d
      BY <1>3, <2>2, <2>5, <2>6
    <3>2. table'[r][j] = c[Path(r, j)] /\ Path(r, j) \in DOMAIN c
      BY <1>8, <2>5, <2>6, <3>1
    <3>3. f[c[Path(r, j)]][o] = SubSeq(Path(r, j), 1, Len(Path(r, j)) - PageSize + o + 1)
      BY <1>5, <2>2, <3>2
    <3>4. SubSeq(Path(r, j), 1, Len(Path(r, j)) - PageSize + o + 1) = Context(r, i)
      BY Zenon, <1>2, <2>2, <2>5, <3>1, PathText
    <3> QED
      BY <3>2, <3>3, <3>4
  <2>7. CASE ~ j <= K
    <3>1. table'[r][j] = table[r][j]
      BY <1>8, <2>5, <2>7
    <3>2. f[table[r][j]][o] = Context(r, i)
      BY <1>2 DEF TextsHeld
    <3> QED
      BY <3>1, <3>2
  <2> QED
    BY <2>6, <2>7
<1>10. \A q \in Req : \A i \in 0 .. committed'[q] - 1 :
         table'[q] # <<>> => f[table'[q][(i \div PageSize) + 1]][i % PageSize] = Context(q, i)
  BY <1>7, <1>9 DEF TextsHeld
<1> QED
  BY <1>5, <1>10 DEF TextsHeld

\* An allocation adds pages behind what the row starts with.
LEMMA ExtendFront ==
  ASSUME MemInv, NEW S \in SUBSET Req, NEW from, NEW to, NEW ph,
         Extend(S, from, to, ph), phase' # "oom",
         NEW r \in S, NEW j \in 1 .. Len(Row(r))
  PROVE  table'[r][j] = Row(r)[j]
<1> DEFINE need == [q \in Req |-> IF q \in S THEN NewPages(from[q], to[q]) ELSE 0]
<1>1. \E a \in PageAssignments(free, need) :
        /\ IsAssignment(a, free) /\ \A q \in Req : Len(a[q]) = need[q]
        /\ Grow(S, a)
  BY DEF Extend
<1>2. PICK a : IsAssignment(a, free) /\ Grow(S, a)
  BY <1>1
<1>3. table'[r] = Row(r) \o a[r]
  BY <1>2 DEF Grow
<1>4. Row(r) \in Seq(Page) /\ a[r] \in Seq(free) /\ free \subseteq Page
  BY <1>2, RowFacts DEF IsAssignment, MemInv, MemTypeOK
<1>5. a[r] \in Seq(Page)
  BY <1>4
<1> QED
  BY <1>3, <1>4, <1>5

\* The forward of a prefill writes the rest of what is computed behind the
\* prefix, which the row reads from the cache.
LEMMA PrefillTexts ==
  ASSUME MemInv, BatchInv, MemInv', PrefillForward, phase' # "oom",
         NEW f, TextsHeld(f, cache, table, committed)
  PROVE  TextsHeld(Written(f, table', Set(adder.list), pre, fill, fill),
                   cache', table', committed')
<1> DEFINE S == Set(adder.list)
           old == [r \in Req |-> IF r \in S THEN pre[r] ELSE committed[r]]
<1>0. /\ phase = "prefill_alloc"
      /\ Extend(Set(adder.list), pre, fill, "prefill_result")
      /\ committed' = [r \in Req |-> IF r \in S THEN fill[r] ELSE committed[r]]
  BY DEF PrefillForward
<1>1. Stage = "prefill_alloc" /\ SchedTypes /\ LengthsInv /\ S \subseteq Req
  BY <1>0, ListTypes DEF Stage, BatchInv
<1>2. Set(adder.list) \in SUBSET Req
  BY <1>1
<1>3. cache' = cache /\ prot' = prot
  BY Zenon, <1>0, <1>2, ExtendRows
<1>4. \A r \in Set(adder.list) : Len(table'[r]) = Len(Row(r)) + NewPages(pre[r], fill[r])
  <2>1. Extend(Set(adder.list), pre, fill, "prefill_result")
    BY <1>0
  <2> HIDE DEF S
  <2> QED
    BY <1>2, <2>1, ExtendRows
<1>5. \A r \in Req \ Set(adder.list) : table'[r] = table[r]
  BY Zenon, <1>0, <1>2, ExtendRows
<1>6. ASSUME NEW r \in Set(adder.list), NEW j \in 1 .. Len(Row(r))
      PROVE  table'[r][j] = Row(r)[j]
  BY <1>0, <1>2, ExtendFront
<1> HIDE DEF S
<1>7. ASSUME NEW r \in S
      PROVE  /\ r \in Req /\ pre[r] \in Nat /\ fill[r] \in Nat /\ prot[r] \in Nat
             /\ prot[r] * PageSize <= pre[r] /\ pre[r] < fill[r]
             /\ fill[r] <= NumPages * PageSize
             /\ fill[r] <= Len(table'[r]) * PageSize
             /\ Len(Row(r)) = PagesFor(pre[r])
  <2>1. /\ r \in Req /\ pre[r] \in Nat /\ fill[r] \in Nat /\ InputLen(r) \in Nat
        /\ prot[r] \in Nat /\ prot[r] * PageSize <= pre[r]
        /\ pre[r] < fill[r] /\ fill[r] <= InputLen(r)
        /\ Len(Row(r)) = PagesFor(pre[r])
    BY <1>1, ListedRow DEF S
  <2>2. InputLen(r) < NumPages * PageSize /\ NumPages * PageSize \in Nat
    BY <1>1, <2>1, InputBound
  <2>3. PagesFor(pre[r]) \in Nat /\ PagesFor(fill[r]) \in Nat
        /\ fill[r] <= PagesFor(fill[r]) * PageSize
    BY Zenon, <2>1, PagesForBounds
  <2>4. Len(table'[r]) = PagesFor(fill[r])
    BY <1>4, <2>1, <2>3 DEF NewPages, S
  <2>5. fill[r] <= NumPages * PageSize
    <3> HIDE DEF InputLen
    <3> QED
      BY <2>1, <2>2
  <2> QED
    BY <2>1, <2>3, <2>4, <2>5
<1>8. TextsHeld(f, cache, table', old)
  <2>1. ASSUME NEW r \in Req, table'[r] # <<>>, NEW i \in 0 .. old[r] - 1
        PROVE  f[table'[r][(i \div PageSize) + 1]][i % PageSize] = Context(r, i)
    <3>1. CASE r \notin S
      <4>1. old[r] = committed[r] /\ table'[r] = table[r]
        BY <1>5, <3>1 DEF S
      <4> QED
        BY <2>1, <4>1 DEF TextsHeld
    <3>2. CASE r \in S
      <4> DEFINE d == i \div PageSize
                 o == i % PageSize
                 j == d + 1
      <4>1. old[r] = pre[r] /\ pre[r] \in Nat /\ prot[r] \in Nat
            /\ pre[r] < fill[r] /\ fill[r] \in Nat /\ fill[r] <= NumPages * PageSize
            /\ Len(Row(r)) = PagesFor(pre[r])
        BY <1>7, <3>2
      <4>2. i \in Nat /\ i < pre[r]
        BY <2>1, <4>1
      <4>3. PagesFor(pre[r]) \in Nat /\ pre[r] <= PagesFor(pre[r]) * PageSize
            /\ PagesFor(pre[r]) * PageSize \in Nat /\ NumPages * PageSize \in Nat
            /\ NumPages \in Nat
        <5>1. PagesFor(pre[r]) \in Nat /\ pre[r] <= PagesFor(pre[r]) * PageSize
          BY Zenon, <4>1, PagesForBounds
        <5> QED
          BY <5>1, PageTypes
      <4>4. i < PagesFor(pre[r]) * PageSize /\ i < NumPages * PageSize
        BY <4>1, <4>2, <4>3
      <4>5. j \in 1 .. Len(Row(r)) /\ j \in 1 .. NumPages
        BY <4>1, <4>2, <4>3, <4>4, PositionBound
      <4>6. d \in Nat /\ o \in 0 .. PageSize - 1 /\ i = d * PageSize + o /\ j - 1 = d
        BY <4>2, Position
      <4>7. table'[r][j] = Row(r)[j]
        BY <1>6, <3>2, <4>5 DEF S
      <4>8. f[Row(r)[j]][o] = Context(r, i)
        <5>1. CASE table[r] # <<>>
          <6>1. Row(r) = table[r] /\ r \in RowsHeld
            BY <5>1 DEF Row, RowsHeld
          <6>2. committed[r] = pre[r]
            BY <1>1, <3>2, <6>1 DEF LengthsInv, S
          <6> QED
            BY <4>1, <5>1, <6>1, <6>2, <2>1 DEF TextsHeld
        <5>2. CASE table[r] = <<>>
          <6>1. r \notin RowsHeld
            BY <5>2 DEF RowsHeld
          <6>2. pre[r] = prot[r] * PageSize
            BY <1>1, <3>2, <6>1 DEF LengthsInv, S
          <6>3. j \in 1 .. prot[r]
            BY <4>1, <4>2, <6>2, PositionBound
          <6>4. Row(r)[j] = cache[Path(r, j)]
            BY <5>2, <6>3 DEF Row
          <6>5. Path(r, j) \in DOMAIN cache
            BY <6>3 DEF MemInv, ProtectedIsCached, Cached
          <6>6. f[cache[Path(r, j)]][o] = SubSeq(Path(r, j), 1, Len(Path(r, j)) - PageSize + o + 1)
            BY <4>6, <6>5 DEF TextsHeld
          <6>7. SubSeq(Path(r, j), 1, Len(Path(r, j)) - PageSize + o + 1) = Context(r, i)
            BY <4>5, <4>6, PathText
          <6> QED
            BY <6>4, <6>6, <6>7
        <5> QED
          BY <5>1, <5>2
      <4> QED
        BY <4>7, <4>8
    <3> QED
      BY <3>1, <3>2
  <2>2. \A p \in DOMAIN cache : \A o \in 0 .. PageSize - 1 :
          f[cache[p]][o] = SubSeq(p, 1, Len(p) - PageSize + o + 1)
    BY DEF TextsHeld
  <2> HIDE DEF old
  <2> QED
    BY <2>1, <2>2 DEF TextsHeld
<1>9. PagesApart(cache', table', prot')
  BY NextPagesAreApart
<1> DEFINE c == cache'
           tab == table'
           prt == prot'
           new == committed'
<1>10. PagesApart(c, tab, prt) /\ TextsHeld(f, c, tab, old)
  BY <1>3, <1>8, <1>9
<1>11. \A r \in S :
         /\ pre[r] \in Nat /\ fill[r] \in Nat /\ new[r] \in Nat
         /\ prt[r] * PageSize <= pre[r] /\ old[r] = pre[r]
         /\ new[r] <= fill[r] /\ new[r] <= NumPages * PageSize
         /\ fill[r] <= Len(tab[r]) * PageSize
  <2>1. \A r \in S : old[r] = pre[r] /\ new[r] = fill[r]
    BY <1>0, <1>1
  <2> QED
    BY <1>3, <1>7, <2>1
<1>12. \A r \in Req \ S :
         /\ new[r] = old[r] /\ old[r] \in Nat
         /\ tab[r] # <<>> => old[r] <= Len(tab[r]) * PageSize
  <2>1. \A r \in Req : /\ committed[r] \in Nat
                       /\ table[r] # <<>> => committed[r] <= Len(table[r]) * PageSize
    BY <1>1, CommittedFits
  <2>2. \A r \in Req \ S : old[r] = committed[r] /\ new[r] = committed[r] /\ tab[r] = table[r]
    BY <1>0, <1>5 DEF S
  <2> QED
    BY <2>1, <2>2
<1>13. S \in SUBSET Req
  BY <1>1
<1> HIDE DEF c, tab, prt, new, old
<1>14. TextsHeld(Written(f, tab, S, pre, fill, fill), c, tab, new)
  BY <1>10, <1>11, <1>12, <1>13, WrittenTexts
<1> QED
  BY <1>14 DEF c, tab, new, S

\* The draft block is garbage in the rest of the last page, which is private:
\* no committed and no cached token is on it.
LEMMA DraftTexts ==
  ASSUME MemInv, BatchInv, DraftBlock, TextsHeld(dkv, cache, table, committed)
  PROVE  TextsHeld(dkv', cache', table', committed')
<1> DEFINE S == Set(running)
           own == [r \in Req |-> Least(committed[r] + Block, AlignUp(committed[r]))]
<1>0. /\ phase = "draft" /\ UNCHANGED <<mem, reqs>>
      /\ dkv' = dkv \/ dkv' = Written(dkv, table, S, committed, own, committed)
  BY Zenon DEF DraftBlock
<1>1. UNCHANGED <<cache, table, committed>>
  BY <1>0 DEF mem, reqs
<1>2. CASE dkv' = dkv
  BY <1>1, <1>2
<1>3. CASE dkv' = Written(dkv, table, S, committed, own, committed)
  <2>1. Stage = "draft" /\ SchedTypes /\ LengthsInv /\ S \subseteq Req
    BY <1>0, ListTypes DEF Stage, BatchInv
  <2>2. RowsHeld = S
    BY <2>1, CleanRows DEF CleanStages
  <2>3. PagesApart(cache, table, prot)
    BY PagesAreApart
  <2>4. \A r \in Req : /\ committed[r] \in Nat
                       /\ table[r] # <<>> => /\ committed[r] <= Len(table[r]) * PageSize
                                             /\ committed[r] <= NumPages * PageSize
    BY <2>1, CommittedFits
  <2>5. ASSUME NEW r \in S
        PROVE  /\ committed[r] \in Nat /\ own[r] \in Nat
               /\ prot[r] * PageSize <= committed[r]
               /\ committed[r] <= own[r] /\ committed[r] <= NumPages * PageSize
               /\ own[r] <= Len(table[r]) * PageSize
    <3>1. r \in Req /\ r \in RowsHeld /\ table[r] # <<>> /\ committed[r] \in Nat
      BY <2>1, <2>2, <2>4 DEF RowsHeld
    <3>2. prot[r] * PageSize <= committed[r] /\ Len(table[r]) = PagesFor(committed[r])
      <4>1. prot[r] * PageSize <= committed[r] /\ Len(table[r]) = PagesFor(committed[r] + 0)
        BY <2>1, <3>1 DEF LengthsInv
      <4> QED
        BY <3>1, <4>1
    <3>3. own[r] = Least(committed[r] + Block, AlignUp(committed[r]))
      BY <3>1
    <3>4. /\ AlignUp(committed[r]) = Len(table[r]) * PageSize
          /\ AlignUp(committed[r]) \in Nat /\ committed[r] <= AlignUp(committed[r])
      <4>1. /\ PagesFor(committed[r]) \in Nat
            /\ committed[r] <= PagesFor(committed[r]) * PageSize
        BY Zenon, <3>1, PagesForBounds
      <4> QED
        BY <3>2, <4>1, PageTypes DEF AlignUp
    <3> HIDE DEF own
    <3>5. own[r] \in Nat /\ committed[r] <= own[r] /\ own[r] <= AlignUp(committed[r])
      BY <3>1, <3>3, <3>4, ParamTypes DEF Least
    <3> QED
      BY <2>4, <3>1, <3>2, <3>4, <3>5
  <2>6. S \in SUBSET Req
    BY <2>1
  <2> HIDE DEF S, own
  <2>7. TextsHeld(Written(dkv, table, S, committed, own, committed), cache, table, committed)
    BY <2>3, <2>4, <2>5, <2>6, WrittenTexts
  <2> QED
    BY <1>1, <1>3, <2>7
<1> QED
  BY <1>0, <1>2, <1>3

\* prepare_for_verify adds pages behind the committed tokens.
LEMMA PrepareTexts ==
  ASSUME MemInv, BatchInv, PrepareForVerify, phase' # "oom",
         NEW f, TextsHeld(f, cache, table, committed)
  PROVE  TextsHeld(f, cache', table', committed')
<1> DEFINE S == Set(running)
<1>0. /\ phase = "verify_alloc" /\ Extend(S, committed, Plus(Block), "verify")
      /\ committed' = committed
  BY DEF PrepareForVerify, reqs
<1>1. Stage = "verify_alloc" /\ SchedTypes /\ LengthsInv /\ S \subseteq Req
  BY <1>0, ListTypes DEF Stage, BatchInv
<1>2. RowsHeld = S
  BY <1>1, CleanRows DEF CleanStages
<1>3. S \in SUBSET Req
  BY <1>1
<1> HIDE DEF S
<1>4. cache' = cache
  BY <1>0, <1>3, ExtendRows
<1>5. \A r \in Req \ S : table'[r] = table[r]
  BY Zenon, <1>0, <1>3, ExtendRows
<1>6. ASSUME NEW r \in S, NEW j \in 1 .. Len(Row(r)) PROVE table'[r][j] = Row(r)[j]
  BY <1>0, <1>3, ExtendFront
<1>7. ASSUME NEW r \in Req, table'[r] # <<>>, NEW i \in 0 .. committed[r] - 1
      PROVE  f[table'[r][(i \div PageSize) + 1]][i % PageSize] = Context(r, i)
  <2>1. CASE r \notin S
    BY <1>5, <1>7, <2>1 DEF TextsHeld
  <2>2. CASE r \in S
    <3>1. table[r] # <<>> /\ Row(r) = table[r] /\ Len(table[r]) \in Nat
      BY <1>2, <2>2, RowTypes DEF RowsHeld, Row
    <3>2. committed[r] \in Nat /\ committed[r] <= Len(table[r]) * PageSize
          /\ Len(table[r]) * PageSize \in Nat
      BY <1>1, <3>1, CommittedFits, PageTypes
    <3>3. i \in Nat /\ i < Len(table[r]) * PageSize
      BY <3>2
    <3>4. (i \div PageSize) + 1 \in 1 .. Len(table[r])
      BY <3>1, <3>3, PositionBound
    <3>5. table'[r][(i \div PageSize) + 1] = table[r][(i \div PageSize) + 1]
      BY <1>6, <2>2, <3>1, <3>4
    <3> QED
      BY <1>7, <3>1, <3>5 DEF TextsHeld
  <2> QED
    BY <2>1, <2>2
<1>8. \A p \in DOMAIN cache : \A o \in 0 .. PageSize - 1 :
        f[cache[p]][o] = SubSeq(p, 1, Len(p) - PageSize + o + 1)
  BY DEF TextsHeld
<1> QED
  BY <1>0, <1>4, <1>7, <1>8 DEF TextsHeld

\* What a request may still append fits in the pool.
LEMMA BlockFits ==
  ASSUME SchedTypes, LengthsInv, NEW r \in Req, committed[r] = InputLen(r) - 1,
         NEW n \in Nat, out[r] + n <= FinishLen(r)
  PROVE  committed[r] + n <= NumPages * PageSize
<1>1. FinishLen(r) \in Nat /\ FinishLen(r) <= MaxNew[r] /\ NumPages * PageSize \in Nat
      /\ out[r] \in Nat
  BY InputBound
<1>2. MaxNew[r] <= NumPages * PageSize - 2 - PromptLen[r]
  BY AcceptedAssumption DEF AcceptedMaxNew
<1>3. PromptLen[r] \in Nat /\ MaxNew[r] \in Nat
  BY ParamTypes
<1>4. InputLen(r) = PromptLen[r] + out[r]
  BY DEF InputLen
<1> DEFINE t == NumPages * PageSize
           l == FinishLen(r)
           m == InputLen(r)
<1>5. /\ t \in Nat /\ l <= MaxNew[r] /\ MaxNew[r] <= t - 2 - PromptLen[r]
      /\ out[r] + n <= l /\ m = PromptLen[r] + out[r] /\ committed[r] = m - 1
      /\ l \in Nat
  BY <1>1, <1>2, <1>4
<1> HIDE DEF t, l, m
<1>6. committed[r] + n <= t
  BY <1>1, <1>3, <1>5
<1> QED
  BY <1>6 DEF t

\* The tokens verify() commits are the target's own, in both models; the row
\* loses only pages behind them.
LEMMA VerifyTexts ==
  ASSUME MemInv, BatchInv, MemInv', BatchInv', Verify,
         TextsHeld(kv, cache, table, committed), TextsHeld(dkv, cache, table, committed)
  PROVE  TextsHeld(kv', cache', table', committed') /\ TextsHeld(dkv', cache', table', committed')
<1> DEFINE S == Set(running)
           hi == Plus(Block)
<1>0. phase = "verify"
  BY DEF Verify
<1>1. PICK acc \in [S -> 0 .. Block - 1] :
        LET app == [r \in Req |-> IF r \in S THEN Appended(r, acc[r]) ELSE 0]
            upto == [r \in Req |-> committed[r] + app[r]]
            right == [r \in S |-> committed[r] + Least(acc[r] + 1, app[r])]
        IN  ForwardVerify(S, upto, right) /\ committed' = upto
  BY Zenon DEF Verify
<1> DEFINE app == [r \in Req |-> IF r \in S THEN Appended(r, acc[r]) ELSE 0]
           upto == [r \in Req |-> committed[r] + app[r]]
           right == [r \in S |-> committed[r] + Least(acc[r] + 1, app[r])]
<1>2. ForwardVerify(S, upto, right) /\ committed' = upto
  BY <1>1
<1>3. Stage = "verify" /\ SchedTypes /\ LengthsInv /\ S \subseteq Req
  BY <1>0, ListTypes DEF Stage, BatchInv
<1>4. PICK app2 \in [Req -> Nat] :
        /\ committed' = [r \in Req |-> committed[r] + app2[r]]
        /\ \A r \in Req \ Set(running) : app2[r] = 0
        /\ \A r \in Set(running) : app2[r] \in 1 .. Block /\ out[r] + app2[r] <= FinishLen(r)
        /\ Trim(Set(running), [r \in Set(running) |-> PagesFor(committed[r] + app2[r])])
  BY Zenon, VerifyEffect
<1>5. /\ cache' = cache
      /\ \A r \in Req \ S : table'[r] = table[r] /\ committed'[r] = committed[r]
      /\ \A r \in S : table'[r] = [j \in 1 .. PagesFor(committed[r] + app2[r]) |-> table[r][j]]
  <2>1. \A r \in Req \ S : committed'[r] = committed[r]
    BY <1>3, <1>4 DEF SchedTypes
  <2> QED
    BY Zenon, <1>3, <1>4, <2>1 DEF Trim
<1>6. ASSUME NEW r \in S
      PROVE  /\ r \in Req /\ committed[r] \in Nat /\ committed'[r] \in Nat
             /\ prot[r] * PageSize <= committed[r]
             /\ committed[r] <= committed'[r] /\ committed'[r] <= hi[r] /\ hi[r] \in Nat
             /\ committed'[r] <= NumPages * PageSize
             /\ hi[r] <= Len(table[r]) * PageSize
             /\ right[r] = committed'[r]
             /\ table'[r] = [j \in 1 .. PagesFor(committed'[r]) |-> table[r][j]]
  <2>1. /\ r \in Req /\ r \notin finished /\ committed[r] = InputLen(r) - 1
        /\ committed[r] \in Nat /\ prot[r] * PageSize <= committed[r]
        /\ Len(table[r]) = PagesFor(committed[r] + Block)
    BY <1>0, VerifyRows
  <2>2. app2[r] \in Nat /\ app2[r] >= 1 /\ app2[r] <= Block /\ out[r] + app2[r] <= FinishLen(r)
        /\ Block \in Nat
    BY <1>4, <2>1, ParamTypes
  <2>3. committed'[r] = committed[r] + app2[r] /\ committed'[r] = committed[r] + app[r]
    BY <1>2, <1>4, <2>1
  <2>4. hi[r] = committed[r] + Block
    BY <2>1 DEF Plus
  <2>5. committed'[r] <= NumPages * PageSize
    BY <1>3, <2>1, <2>2, <2>3, BlockFits
  <2>6. hi[r] <= Len(table[r]) * PageSize
    <3>1. committed[r] + Block \in Nat
      BY <2>1, <2>2
    <3> QED
      BY <2>1, <2>4, <3>1, PagesForBounds
  <2>7. app[r] <= acc[r] + 1 /\ acc[r] \in Nat
    <3>1. acc[r] \in 0 .. Block - 1 /\ app[r] = Appended(r, acc[r])
      BY <2>1
    <3>2. FinishLen(r) \in Nat /\ out[r] \in Nat
      BY <1>3, <2>1, InputBound
    <3> HIDE DEF app, FinishLen
    <3> QED
      BY <2>2, <3>1, <3>2 DEF Appended, Least
  <2>8. app[r] = app2[r]
    <3>1. app[r] \in Int
      <4>1. acc[r] \in 0 .. Block - 1 /\ app[r] = Appended(r, acc[r])
        BY <2>1
      <4>2. FinishLen(r) \in Nat /\ out[r] \in Nat
        BY <1>3, <2>1, InputBound
      <4> HIDE DEF app, FinishLen
      <4> QED
        BY <2>2, <4>1, <4>2 DEF Appended, Least
    <3> HIDE DEF app
    <3> QED
      BY <2>1, <2>2, <2>3, <3>1
  <2>9. right[r] = committed[r] + Least(acc[r] + 1, app[r])
    OBVIOUS
  <2>10. Least(acc[r] + 1, app[r]) = app[r]
    <3> HIDE DEF app
    <3> QED
      BY <2>2, <2>7, <2>8 DEF Least
  <2> HIDE DEF right, app, hi
  <2>11. right[r] = committed'[r]
    BY <2>3, <2>9, <2>10
  <2>12. table'[r] = [j \in 1 .. PagesFor(committed'[r]) |-> table[r][j]]
    BY Zenon, <1>5, <2>3
  <2>13. committed'[r] \in Nat /\ committed[r] <= committed'[r]
         /\ committed'[r] <= hi[r] /\ hi[r] \in Nat
    BY <2>1, <2>2, <2>3, <2>4
  <2> QED
    BY <2>1, <2>5, <2>6, <2>11, <2>12, <2>13
<1> DEFINE new == committed'
<1>7. PagesApart(cache, table, prot) /\ S \in SUBSET Req
  BY <1>3, PagesAreApart
<1>8. \A r \in Req \ S :
        /\ new[r] = committed[r] /\ committed[r] \in Nat
        /\ table[r] # <<>> => committed[r] <= Len(table[r]) * PageSize
  BY <1>3, <1>5, CommittedFits
<1>9. \A r \in S :
        /\ committed[r] \in Nat /\ hi[r] \in Nat /\ right[r] \in Nat /\ new[r] \in Nat
        /\ prot[r] * PageSize <= committed[r] /\ committed[r] = committed[r]
        /\ new[r] <= hi[r] /\ new[r] <= right[r] /\ new[r] <= NumPages * PageSize
        /\ hi[r] <= Len(table[r]) * PageSize
  <2> HIDE DEF hi, right, S
  <2> TAKE r \in S
  <2>1. /\ committed[r] \in Nat /\ committed'[r] \in Nat
        /\ prot[r] * PageSize <= committed[r]
        /\ committed'[r] <= hi[r] /\ hi[r] \in Nat
        /\ committed'[r] <= NumPages * PageSize
        /\ hi[r] <= Len(table[r]) * PageSize
        /\ right[r] = committed'[r]
    BY Zenon, <1>6
  <2>2. new[r] <= right[r]
    BY <2>1
  <2> QED
    BY <2>1, <2>2
<1>10. \A r \in S :
        /\ committed[r] \in Nat /\ upto[r] \in Nat /\ right[r] \in Nat /\ new[r] \in Nat
        /\ prot[r] * PageSize <= committed[r] /\ committed[r] = committed[r]
        /\ new[r] <= upto[r] /\ new[r] <= right[r] /\ new[r] <= NumPages * PageSize
        /\ upto[r] <= Len(table[r]) * PageSize
  <2> HIDE DEF hi, right, upto
  <2> SUFFICES ASSUME NEW r \in S
               PROVE  /\ committed[r] \in Nat /\ upto[r] \in Nat /\ right[r] \in Nat /\ new[r] \in Nat
                      /\ prot[r] * PageSize <= committed[r]
                      /\ new[r] <= upto[r] /\ new[r] <= right[r] /\ new[r] <= NumPages * PageSize
                      /\ upto[r] <= Len(table[r]) * PageSize
    OBVIOUS
  <2>1. upto[r] = committed'[r]
    BY <1>2
  <2>2. /\ r \in Req /\ committed[r] \in Nat /\ committed'[r] \in Nat
        /\ prot[r] * PageSize <= committed[r]
        /\ committed'[r] <= hi[r] /\ hi[r] \in Nat
        /\ committed'[r] <= NumPages * PageSize
        /\ hi[r] <= Len(table[r]) * PageSize
        /\ right[r] = committed'[r]
    BY Zenon, <1>6
  <2>3. Len(table[r]) * PageSize \in Nat
    BY <2>2, RowTypes, PageTypes
  <2>4. committed'[r] <= Len(table[r]) * PageSize
    BY <2>2, <2>3
  <2> QED
    BY <2>1, <2>2, <2>4
<1> DEFINE W == Written(kv, table, S, committed, hi, right)
           D == Written(dkv, table, S, committed, upto, right)
<1>11. kv' = Scrub(W, free' \ free) /\ dkv' = Scrub(D, free' \ free)
  BY <1>2 DEF ForwardVerify
\* The rows that are left are read as before.
<1>12. ASSUME NEW f, TextsHeld(f, cache, table, committed')
       PROVE  TextsHeld(f, cache', table', committed')
  <2>1. ASSUME NEW r \in Req, table'[r] # <<>>, NEW i \in 0 .. committed'[r] - 1
        PROVE  f[table'[r][(i \div PageSize) + 1]][i % PageSize] = Context(r, i)
    <3>1. CASE r \notin S
      BY <1>5, <1>12, <2>1, <3>1 DEF TextsHeld
    <3>2. CASE r \in S
      <4>1. committed'[r] \in Nat
            /\ table'[r] = [j \in 1 .. PagesFor(committed'[r]) |-> table[r][j]]
        BY Zenon, <1>6, <3>2
      <4>2. PagesFor(committed'[r]) \in Nat
            /\ committed'[r] <= PagesFor(committed'[r]) * PageSize
        BY Zenon, <4>1, PagesForBounds
      <4> DEFINE n == PagesFor(committed'[r])
      <4>3. n \in Nat /\ n * PageSize \in Nat /\ committed'[r] <= n * PageSize
        BY <4>2, PageTypes
      <4> HIDE DEF n
      <4>4. i \in Nat /\ i < n * PageSize
        BY <4>1, <4>3
      <4>5. (i \div PageSize) + 1 \in 1 .. n
        BY <4>3, <4>4, PositionBound
      <4>6. table'[r][(i \div PageSize) + 1] = table[r][(i \div PageSize) + 1]
        BY <4>1, <4>5 DEF n
      <4>7. table[r] # <<>>
        <5>1. r \in RowsHeld
          BY <1>0, <3>2, VerifyRows
        <5> QED
          BY <5>1 DEF RowsHeld
      <4> QED
        BY <1>12, <2>1, <4>6, <4>7 DEF TextsHeld
    <3> QED
      BY <3>1, <3>2
  <2>2. \A p \in DOMAIN cache : \A o \in 0 .. PageSize - 1 :
          f[cache[p]][o] = SubSeq(p, 1, Len(p) - PageSize + o + 1)
    BY <1>12 DEF TextsHeld
  <2> QED
    BY <1>5, <2>1, <2>2 DEF TextsHeld
<1>13. TextsHeld(W, cache, table, committed') /\ TextsHeld(D, cache, table, committed')
  <2> HIDE DEF new, S, hi, upto, right, app
  <2>1. TextsHeld(Written(kv, table, S, committed, hi, right), cache, table, new)
    BY <1>7, <1>8, <1>9, WrittenTexts
  <2>2. TextsHeld(Written(dkv, table, S, committed, upto, right), cache, table, new)
    BY <1>7, <1>8, <1>10, WrittenTexts
  <2> QED
    BY <2>1, <2>2 DEF new
<1> HIDE DEF W, D
<1>14. TextsHeld(W, cache', table', committed') /\ TextsHeld(D, cache', table', committed')
  BY <1>12, <1>13
<1>15. TextsHeld(Scrub(W, free' \ free), cache', table', committed')
  BY <1>14, FreedTexts
<1>16. TextsHeld(Scrub(D, free' \ free), cache', table', committed')
  BY <1>14, FreedTexts
<1> QED
  BY <1>11, <1>15, <1>16

\* What the pages hold, in both models.
KVInv == TextsHeld(kv, cache, table, committed) /\ TextsHeld(dkv, cache, table, committed)

LEMMA SameTexts ==
  ASSUME KVInv, UNCHANGED <<cache, table, committed, kv, dkv>>
  PROVE  KVInv'
BY DEF KVInv, TextsHeld, Context

\* Pages that are given up are not read, whoever held them.
LEMMA DropTexts ==
  ASSUME MemInv, SchedTypes, MemInv', BatchInv', KVInv, NEW r \in Req, Drop(r)
  PROVE  KVInv'
<1>1. /\ cache' = cache /\ table' = [table EXCEPT ![r] = <<>>]
      /\ committed' = [committed EXCEPT ![r] = 0] /\ ScrubFreed
  BY DEF Drop, ReleaseDrop, Forget, ResetForRetract
<1> DEFINE c == cache'
           tab == table'
           com == committed'
<1>2. \A q \in Req : tab[q] = <<>> \/ (tab[q] = table[q] /\ com[q] = committed[q])
  <2>1. table \in [Req -> Seq(Page)] /\ committed \in [Req -> Nat]
    BY Zenon DEF MemInv, MemTypeOK, SchedTypes
  <2> QED
    BY <1>1, <2>1
<1>3. \A p \in DOMAIN c : p \in DOMAIN cache /\ c[p] = cache[p]
  BY <1>1
<1>4. TextsHeld(kv, cache, table, committed) /\ TextsHeld(dkv, cache, table, committed)
  BY DEF KVInv
<1> HIDE DEF c, tab, com
<1>5. TextsHeld(kv, c, tab, com) /\ TextsHeld(dkv, c, tab, com)
  BY <1>2, <1>3, <1>4, FewerTexts
<1>6. TextsHeld(kv', cache', table', committed') /\ TextsHeld(dkv', cache', table', committed')
  BY <1>1, <1>5, ScrubFreedTexts DEF c, tab, com
<1> QED
  BY <1>6 DEF KVInv, TextsHeld, Context

LEMMA EvictTexts ==
  ASSUME MemInv', BatchInv', KVInv, EvictFromTreeCache
  PROVE  KVInv'
<1>1. committed' = committed
  BY DEF EvictFromTreeCache, reqs
<1>2. CASE UNCHANGED <<mem, kvs>>
  BY <1>1, <1>2, SameTexts DEF mem, kvs
<1>3. CASE (\E E \in Evictions(goal.need) : Evict(E)) /\ ScrubFreed
  <2>1. PICK E : Evict(E)
    BY <1>3
  <2>2. table' = table /\ cache' = [p \in Cached \ E |-> cache[p]]
    BY <2>1 DEF Evict
  <2> DEFINE c == cache'
  <2>3. \A p \in DOMAIN c : p \in DOMAIN cache /\ c[p] = cache[p]
    BY <2>2 DEF Cached
  <2>4. TextsHeld(kv, cache, table, committed) /\ TextsHeld(dkv, cache, table, committed)
    BY DEF KVInv
  <2> HIDE DEF c
  <2>5. TextsHeld(kv, c, table, committed) /\ TextsHeld(dkv, c, table, committed)
    BY <2>3, <2>4, FewerTexts
  <2>6. TextsHeld(kv', cache', table', committed') /\ TextsHeld(dkv', cache', table', committed')
    BY <1>1, <1>3, <2>2, <2>5, ScrubFreedTexts DEF c
  <2> QED
    BY <2>6 DEF KVInv, TextsHeld, Context
<1> QED
  BY <1>2, <1>3 DEF EvictFromTreeCache

LEMMA FiledTexts ==
  ASSUME MemInv, BatchInv, MemInv', BatchInv', KVInv, NEW r \in RowsHeld, committed' = committed,
         Finish(r) \/ (fill[r] = committed[r] /\ Stash(r))
  PROVE  KVInv'
<1>1. SchedTypes /\ LengthsInv
  BY DEF BatchInv
<1>2. TextsHeld(kv, cache, table, committed) /\ TextsHeld(dkv, cache, table, committed)
  BY DEF KVInv
<1>3. ScrubFreed
  BY DEF Finish, Stash
<1>4. TextsHeld(kv, cache', table', committed') /\ TextsHeld(dkv, cache', table', committed')
  <2>1. CASE Finish(r)
    BY <1>1, <1>2, <2>1, FinishTexts
  <2>2. CASE fill[r] = committed[r] /\ Stash(r)
    BY <1>1, <1>2, <2>2, StashTexts
  <2> QED
    BY <2>1, <2>2
<1>5. TextsHeld(kv', cache', table', committed') /\ TextsHeld(dkv', cache', table', committed')
  BY <1>3, <1>4, ScrubFreedTexts
<1> QED
  BY <1>5 DEF KVInv, TextsHeld, Context

\* Every step keeps what is cached and what is committed.
LEMMA KVStep ==
  ASSUME SpecInv, SpecInv', KVInv, [Next]_vars
  PROVE  KVInv'
<1>0. /\ MemInv /\ BatchInv /\ SchedTypes /\ LengthsInv
      /\ MemInv' /\ BatchInv' /\ phase' # "oom"
      /\ TextsHeld(kv, cache, table, committed) /\ TextsHeld(dkv, cache, table, committed)
  BY DEF SpecInv, BatchInv, NeverOOM, KVInv
<1>1. CASE UNCHANGED vars
  BY <1>1, SameTexts DEF vars, mem, kvs, reqs
<1>2. ASSUME NEW r \in Req, HandleGenerateRequest(r) \/ AbortRequest(r) PROVE KVInv'
  <2>1. UNCHANGED <<cache, table, committed, kv, dkv>>
    BY <1>2 DEF HandleGenerateRequest, AbortRequest, mem, kvs, reqs
  <2> QED
    BY <2>1, SameTexts
<1>3. CASE PauseInPlace \/ PauseRetract \/ ContinueGeneration
  <2>1. UNCHANGED <<mem, kvs, reqs>>
    BY <1>3, Zenon DEF PauseInPlace, PauseRetract, ContinueGeneration
  <2> QED
    BY <2>1, SameTexts DEF mem, kvs, reqs
<1>4. CASE MergeLastBatch \/ FinishAdder \/ PrefillDone \/ PauseDone \/ UpdateRunningBatch
           \/ CheckDecodeMem \/ RetractCheck \/ DecodeDone
  <2>1. UNCHANGED <<mem, kvs, reqs>>
    BY <1>4, Zenon DEF MergeLastBatch, FinishAdder, PrefillDone, PauseDone, UpdateRunningBatch,
       CheckDecodeMem, RetractCheck, DecodeDone
  <2> QED
    BY <2>1, SameTexts DEF mem, kvs, reqs
<1>5. CASE PlanPrefill
  <2>1. UNCHANGED <<mem, kvs, committed>>
    BY <1>5, Zenon DEF PlanPrefill
  <2> QED
    BY <2>1, SameTexts DEF mem, kvs
<1>6. CASE AddOneReq
  <2>1. UNCHANGED kvs /\ UNCHANGED committed
        /\ (UNCHANGED mem \/ \E m \in 0 .. MatchLimit(waiting[adder.idx]) : Lock(waiting[adder.idx], m))
    BY <1>6, Zenon DEF AddOneReq
  <2>2. UNCHANGED <<cache, table>>
    BY <2>1 DEF mem, Lock
  <2> QED
    BY <2>1, <2>2, SameTexts DEF kvs
<1>7. CASE StashChunked
  <2>1. phase = "recv" /\ committed' = committed
    BY <1>7 DEF StashChunked
  <2>2. CASE chunked = NoReq
    <3>1. UNCHANGED <<mem, kvs>>
      BY <1>7, <2>2 DEF StashChunked
    <3> QED
      BY <2>1, <3>1, SameTexts DEF mem, kvs
  <2>3. CASE chunked # NoReq
    <3>1. Stash(chunked)
      BY <1>7, <2>3, Zenon DEF StashChunked
    <3>2. chunked \in RowsHeld /\ committed[chunked] = fill[chunked]
      BY <1>0, <2>1, <2>3, ChunkedRow DEF Stage, HeadStages
    <3>3. PICK r \in RowsHeld : r = chunked
      BY <3>2
    <3>4. Stash(r) /\ fill[r] = committed[r]
      BY <3>1, <3>2, <3>3
    <3> QED
      BY <1>0, <2>1, <3>4, FiledTexts
  <2> QED
    BY <2>2, <2>3
<1>8. CASE EvictFromTreeCache
  BY <1>0, <1>8, EvictTexts
<1>9. CASE PrefillForward
  <2>1. /\ kv' = Written(kv, table', Set(adder.list), pre, fill, fill)
        /\ dkv' = Written(dkv, table', Set(adder.list), pre, fill, fill)
    BY <1>0, <1>9 DEF PrefillForward, ForwardExtend
  <2>2. TextsHeld(kv', cache', table', committed')
    BY <1>0, <1>9, <2>1, PrefillTexts
  <2>3. TextsHeld(dkv', cache', table', committed')
    BY <1>0, <1>9, <2>1, PrefillTexts
  <2> QED
    BY <2>2, <2>3 DEF KVInv, TextsHeld, Context
<1>10. CASE PrefillResult
  <2>1. phase = "prefill_result" /\ step <= Len(adder.list) /\ committed' = committed
        /\ (UNCHANGED <<mem, kvs>> \/ Finish(adder.list[step]) \/ Stash(adder.list[step]))
    BY <1>10, Zenon DEF PrefillResult
  <2>2. adder.list[step] \in RowsHeld /\ fill[adder.list[step]] = committed[adder.list[step]]
    BY <1>0, <2>1, PrefillRow
  <2>3. PICK r \in RowsHeld : r = adder.list[step]
    BY <2>2
  <2>4. CASE UNCHANGED <<mem, kvs>>
    BY <2>1, <2>4, SameTexts DEF mem, kvs
  <2>5. CASE Finish(adder.list[step]) \/ Stash(adder.list[step])
    <3>1. Finish(r) \/ (fill[r] = committed[r] /\ Stash(r))
      BY <2>2, <2>3, <2>5
    <3> QED
      BY <1>0, <2>1, <3>1, FiledTexts
  <2> QED
    BY <2>1, <2>4, <2>5
<1>11. CASE Retract
  <2>1. phase = "retract" /\ Drop(running[Len(running)])
    BY <1>11 DEF Retract
  <2>2. Len(running) > 1 /\ running \in Seq(Req)
    BY <1>0, <2>1 DEF Stage, BatchInv, StageInv, SchedTypes
  <2>3. PICK r \in Req : r = running[Len(running)]
    BY <2>2
  <2> QED
    BY <1>0, <2>1, <2>3, DropTexts
<1>12. CASE AbortLast
  <2>1. phase = "abort_last" /\ Drop(running[1])
    BY <1>12 DEF AbortLast
  <2>2. Len(running) = 1 /\ running \in Seq(Req)
    BY <1>0, <2>1 DEF Stage, BatchInv, StageInv, SchedTypes
  <2>3. PICK r \in Req : r = running[1]
    BY <2>2
  <2> QED
    BY <1>0, <2>1, <2>3, DropTexts
<1>13. CASE PauseRelease
  <2>1. phase = "pause_release" /\ step <= Len(running) /\ Drop(running[step])
    BY <1>13 DEF PauseRelease
  <2>2. step >= 1 /\ step \in Nat /\ running \in Seq(Req)
    BY <1>0, <2>1 DEF Stage, BatchInv, StageInv, SchedTypes
  <2>3. PICK r \in Req : r = running[step]
    BY <2>1, <2>2
  <2> QED
    BY <1>0, <2>1, <2>3, DropTexts
<1>14. CASE DraftBlock
  <2>1. UNCHANGED <<kv, cache, table, committed>>
    BY <1>14, Zenon DEF DraftBlock, mem, reqs
  <2>2. TextsHeld(dkv', cache', table', committed')
    BY <1>0, <1>14, DraftTexts
  <2>3. TextsHeld(kv', cache', table', committed')
    BY <1>0, <2>1
  <2> QED
    BY Zenon, <2>2, <2>3 DEF KVInv, TextsHeld, Context
<1>15. CASE PrepareForVerify
  <2>1. kv' = kv /\ dkv' = dkv
    BY <1>15 DEF PrepareForVerify, kvs
  <2>2. TextsHeld(kv', cache', table', committed') /\ TextsHeld(dkv', cache', table', committed')
    BY <1>0, <1>15, <2>1, PrepareTexts
  <2> QED
    BY <2>2 DEF KVInv, TextsHeld, Context
<1>16. CASE Verify
  <2>1. TextsHeld(kv', cache', table', committed') /\ TextsHeld(dkv', cache', table', committed')
    BY <1>0, <1>16, VerifyTexts
  <2> QED
    BY <2>1 DEF KVInv, TextsHeld, Context
<1>17. CASE DecodeResult
  <2>1. phase = "decode_result" /\ step <= Len(running) /\ committed' = committed
        /\ (UNCHANGED <<mem, kvs>> \/ Finish(running[step]))
    BY <1>17, Zenon DEF DecodeResult, reqs
  <2>2. running[step] \in RowsHeld
    BY <1>0, <2>1, DecodeRow
  <2>3. PICK r \in RowsHeld : r = running[step]
    BY <2>2
  <2>4. CASE UNCHANGED <<mem, kvs>>
    BY <2>1, <2>4, SameTexts DEF mem, kvs
  <2>5. CASE Finish(running[step])
    BY <1>0, <2>1, <2>3, <2>5, FiledTexts
  <2> QED
    BY <2>1, <2>4, <2>5
<1> QED
  BY <1>1, <1>2, <1>3, <1>4, <1>5, <1>6, <1>7, <1>8, <1>9, <1>10, <1>11, <1>12, <1>13,
     <1>14, <1>15, <1>16, <1>17
  DEF Next, LoopStep

\* Nothing is cached and nothing committed at the start.
LEMMA KVInit == Init => KVInv
<1> SUFFICES ASSUME Init PROVE KVInv
  OBVIOUS
<1>1. DOMAIN cache = {} /\ table = [r \in Req |-> <<>>]
  BY DEF Init, MemInit
<1> QED
  BY <1>1 DEF KVInv, TextsHeld

\* Every slot of a cached page holds the KV of the cached text, in the target and
\* in the draft model ("so radix cache entries are safe to reuse",
\* dflash_worker.py): no rejected draft, no unfinished block and no page of
\* another request is ever filed, and none is written after it was filed.
THEOREM CachedKVHolds == Spec => []CachedKVCorrect
<1>1. KVInv => CachedKVCorrect
  <2> SUFFICES ASSUME KVInv PROVE CachedKVCorrect
    OBVIOUS
  <2>1. \A p \in Cached : \A o \in 0 .. PageSize - 1 :
          /\ kv[cache[p]][o] = SubSeq(p, 1, Len(p) - PageSize + o + 1)
          /\ dkv[cache[p]][o] = SubSeq(p, 1, Len(p) - PageSize + o + 1)
    BY DEF KVInv, TextsHeld, Cached
  <2> QED
    BY <2>1 DEF CachedKVCorrect
<1> QED
  BY <1>1, KVInit, KVStep, SpecInvHolds, PTL DEF Spec

\* What the next forward of a request attends to is the KV of its own tokens, in
\* both models, through shared prefixes, accepted and rejected blocks, chunks,
\* retractions and evictions (alloc_for_extend, verify, cache_unfinished_req).
THEOREM CommittedKVHolds == Spec => []CommittedKVCorrect
<1>1. KVInv => CommittedKVCorrect
  <2> SUFFICES ASSUME KVInv PROVE CommittedKVCorrect
    OBVIOUS
  <2>1. \A r \in RowsHeld : \A i \in 0 .. committed[r] - 1 :
          /\ kv[table[r][(i \div PageSize) + 1]][i % PageSize] = Context(r, i)
          /\ dkv[table[r][(i \div PageSize) + 1]][i % PageSize] = Context(r, i)
    BY DEF KVInv, TextsHeld, RowsHeld
  <2> QED
    BY <2>1 DEF CommittedKVCorrect
<1> QED
  BY <1>1, KVInit, KVStep, SpecInvHolds, PTL DEF Spec

-----------------------------------------------------------------------------
(* Types of the contents.                                                  *)

KVContents == [Page -> [0 .. PageSize - 1 -> Seq(Nat)]]

LEMMA BlankType == Blank \in [0 .. PageSize - 1 -> Seq(Nat)]
<1>1. Garbage \in Seq(Nat)
  BY DEF Garbage
<1> QED
  BY <1>1 DEF Blank

LEMMA ScrubType ==
  ASSUME NEW f \in KVContents, NEW P
  PROVE  Scrub(f, P) \in KVContents
BY BlankType DEF Scrub, KVContents

LEMMA ContextType ==
  ASSUME NEW r \in Req, NEW i \in Nat, i < NumPages * PageSize
  PROVE  Context(r, i) \in Seq(Nat)
<1>1. Text[r] \in Seq(Nat) /\ NumPages * PageSize <= Len(Text[r]) /\ NumPages * PageSize \in Nat
  BY ConstantsAssumption, MemAssumption, PageTypes
<1>2. i + 1 <= Len(Text[r]) /\ Len(Text[r]) \in Nat
  BY <1>1
<1> DEFINE s == Text[r]
           n == i + 1
<1>3. s \in Seq(Nat) /\ n \in 1 .. Len(s) /\ n \in Nat
  BY <1>1, <1>2
<1> HIDE DEF s, n
<1>4. SubSeq(s, 1, n) \in Seq(Nat)
  <2>1. SubSeq(s, 1, n) = [j \in 1 .. n |-> s[j]]
    BY <1>3
  <2>2. \A j \in 1 .. n : s[j] \in Nat
    BY <1>3
  <2> QED
    BY <1>3, <2>1, <2>2, SeqOfMap
<1> QED
  BY <1>4 DEF Context, s, n

LEMMA WrittenType ==
  ASSUME NEW f \in KVContents, NEW tab, NEW S \in SUBSET Req, NEW lo, NEW hi, NEW ok,
         \A r \in S : ok[r] \in Nat /\ ok[r] <= NumPages * PageSize
  PROVE  Written(f, tab, S, lo, hi, ok) \in KVContents
<1> DEFINE At1(p, o) == {w \in S \X (0 .. NumPages * PageSize) :
                           /\ w[2] \in lo[w[1]] .. hi[w[1]] - 1
                           /\ w[2] % PageSize = o
                           /\ tab[w[1]][(w[2] \div PageSize) + 1] = p}
           val(p, o) == IF At1(p, o) = {} THEN f[p][o]
                        ELSE LET w == CHOOSE w \in At1(p, o) : TRUE
                             IN  IF w[2] < ok[w[1]] THEN Context(w[1], w[2]) ELSE Garbage
<1>1. Written(f, tab, S, lo, hi, ok) = [p \in Page |-> [o \in 0 .. PageSize - 1 |-> val(p, o)]]
  BY Zenon DEF Written
<1>2. ASSUME NEW p \in Page, NEW o \in 0 .. PageSize - 1 PROVE val(p, o) \in Seq(Nat)
  <2>1. f[p][o] \in Seq(Nat) /\ Garbage \in Seq(Nat)
    <3>1. f[p] \in [0 .. PageSize - 1 -> Seq(Nat)]
      BY DEF KVContents
    <3>2. Garbage \in Seq(Nat)
      BY DEF Garbage
    <3> QED
      BY Zenon, <3>1, <3>2
  <2>2. CASE At1(p, o) = {}
    <3>1. val(p, o) = f[p][o]
      BY Zenon, <2>2
    <3> HIDE DEF val
    <3> QED
      BY <2>1, <3>1
  <2>3. CASE At1(p, o) # {}
    <3> DEFINE w == CHOOSE w \in At1(p, o) : TRUE
    <3>1. w \in At1(p, o)
      <4> HIDE DEF At1
      <4> QED
        BY <2>3
    <3> HIDE DEF w
    <3>2. w[1] \in S /\ w[1] \in Req /\ w[2] \in 0 .. NumPages * PageSize
      BY <3>1
    <3>3. w[2] < ok[w[1]] => Context(w[1], w[2]) \in Seq(Nat)
      <4> DEFINE t == NumPages * PageSize
      <4>1. t \in Nat /\ w[2] \in 0 .. t /\ ok[w[1]] \in Nat /\ ok[w[1]] <= t
        BY <3>2, PageTypes
      <4> HIDE DEF t
      <4>2. w[2] \in Nat /\ (w[2] < ok[w[1]] => w[2] < t)
        BY <4>1
      <4> QED
        BY <3>2, <4>2, ContextType DEF t
    <3>4. (IF w[2] < ok[w[1]] THEN Context(w[1], w[2]) ELSE Garbage) \in Seq(Nat)
      BY <2>1, <3>3
    <3>5. val(p, o) = IF w[2] < ok[w[1]] THEN Context(w[1], w[2]) ELSE Garbage
      BY Zenon, <2>3 DEF w
    <3> HIDE DEF val
    <3> QED
      BY Zenon, <3>4, <3>5
  <2> HIDE DEF val
  <2> QED
    BY Zenon, <2>2, <2>3
<1> HIDE DEF val
<1>3. [p \in Page |-> [o \in 0 .. PageSize - 1 |-> val(p, o)]] \in KVContents
  BY <1>2 DEF KVContents
<1> QED
  BY <1>1, <1>3

KVTypes == kv \in KVContents /\ dkv \in KVContents

\* The tokens a verify step writes have a place in the texts.
LEMMA VerifyTypes ==
  ASSUME MemInv, BatchInv, Verify, KVTypes
  PROVE  kv' \in KVContents /\ dkv' \in KVContents
<1> DEFINE S == Set(running)
           hi == Plus(Block)
<1>0. phase = "verify"
  BY DEF Verify
<1>1. PICK acc \in [S -> 0 .. Block - 1] :
        LET app == [r \in Req |-> IF r \in S THEN Appended(r, acc[r]) ELSE 0]
            upto == [r \in Req |-> committed[r] + app[r]]
            right == [r \in S |-> committed[r] + Least(acc[r] + 1, app[r])]
        IN  ForwardVerify(S, upto, right)
  BY Zenon, <1>0 DEF Verify
<1> DEFINE app == [r \in Req |-> IF r \in S THEN Appended(r, acc[r]) ELSE 0]
           upto == [r \in Req |-> committed[r] + app[r]]
           right == [r \in S |-> committed[r] + Least(acc[r] + 1, app[r])]
<1>2. ForwardVerify(S, upto, right)
  BY <1>1
<1>3. SchedTypes /\ LengthsInv /\ S \in SUBSET Req
  BY ListTypes DEF BatchInv
<1>4. ASSUME NEW r \in S
      PROVE  right[r] \in Nat /\ right[r] <= NumPages * PageSize
  <2>1. /\ r \in Req /\ r \notin finished /\ acc[r] \in 0 .. Block - 1
        /\ committed[r] = InputLen(r) - 1 /\ committed[r] \in Nat
    BY <1>0, VerifyRows
  <2>2. app[r] = Appended(r, acc[r]) /\ right[r] = committed[r] + Least(acc[r] + 1, app[r])
    BY <2>1
  <2>3. Appended(r, acc[r]) \in 1 .. Block /\ out[r] + Appended(r, acc[r]) <= FinishLen(r)
    BY <1>3, <2>1, AppendedFacts
  <2>4. Block \in Nat /\ out[r] \in Nat /\ FinishLen(r) \in Nat
    BY <1>3, <2>1, ParamTypes, InputBound
  <2> DEFINE n == Least(acc[r] + 1, app[r])
             m == Appended(r, acc[r])
             l == FinishLen(r)
  <2>5. n = Least(acc[r] + 1, m) /\ m \in 1 .. Block /\ out[r] + m <= l /\ l \in Nat
        /\ right[r] = committed[r] + n
    BY <2>2, <2>3, <2>4
  <2> HIDE DEF n, m, l, right
  <2>6. n \in Nat /\ out[r] + n <= l
    BY <2>1, <2>4, <2>5 DEF Least
  <2>7. committed[r] + n <= NumPages * PageSize
    BY <1>3, <2>1, <2>6, BlockFits DEF l
  <2> QED
    BY <2>1, <2>5, <2>6, <2>7
<1> HIDE DEF S, hi, upto, right, app
<1>5. \A r \in S : right[r] \in Nat /\ right[r] <= NumPages * PageSize
  BY <1>4
<1>6. /\ Written(kv, table, S, committed, hi, right) \in KVContents
      /\ Written(dkv, table, S, committed, upto, right) \in KVContents
  BY <1>3, <1>5, WrittenType DEF KVTypes
<1>7. /\ kv' = Scrub(Written(kv, table, S, committed, hi, right), free' \ free)
      /\ dkv' = Scrub(Written(dkv, table, S, committed, upto, right), free' \ free)
  BY <1>2 DEF ForwardVerify, hi
<1> QED
  BY <1>6, <1>7, ScrubType

\* The same for a prefill and for a draft block.
LEMMA PrefillTypes ==
  ASSUME MemInv, BatchInv, PrefillForward, phase' # "oom", KVTypes
  PROVE  kv' \in KVContents /\ dkv' \in KVContents
<1> DEFINE S == Set(adder.list)
<1>0. /\ phase = "prefill_alloc"
      /\ kv' = Written(kv, table', S, pre, fill, fill)
      /\ dkv' = Written(dkv, table', S, pre, fill, fill)
  BY DEF PrefillForward, ForwardExtend
<1>1. Stage = "prefill_alloc" /\ SchedTypes /\ LengthsInv /\ S \in SUBSET Req
  BY <1>0, ListTypes DEF Stage, BatchInv
<1>2. ASSUME NEW r \in S
      PROVE  fill[r] \in Nat /\ fill[r] <= NumPages * PageSize
  <2>1. r \in Req /\ fill[r] \in Nat /\ InputLen(r) \in Nat /\ fill[r] <= InputLen(r)
    BY <1>1, ListedRow
  <2>2. InputLen(r) < NumPages * PageSize /\ NumPages * PageSize \in Nat
    BY <1>1, <2>1, InputBound
  <2> QED
    BY <2>1, <2>2
<1> DEFINE tab == table'
<1> HIDE DEF S, tab
<1>3. \A r \in S : fill[r] \in Nat /\ fill[r] <= NumPages * PageSize
  BY <1>2
<1>4. /\ Written(kv, tab, S, pre, fill, fill) \in KVContents
      /\ Written(dkv, tab, S, pre, fill, fill) \in KVContents
  BY <1>1, <1>3, WrittenType DEF KVTypes
<1> QED
  BY <1>0, <1>4 DEF tab

LEMMA DraftTypes ==
  ASSUME MemInv, BatchInv, DraftBlock, KVTypes
  PROVE  dkv' \in KVContents
<1> DEFINE S == Set(running)
           own == [r \in Req |-> Least(committed[r] + Block, AlignUp(committed[r]))]
<1>0. /\ phase = "draft"
      /\ dkv' = dkv \/ dkv' = Written(dkv, table, S, committed, own, committed)
  BY Zenon DEF DraftBlock
<1>1. Stage = "draft" /\ SchedTypes /\ LengthsInv /\ S \in SUBSET Req
  BY <1>0, ListTypes DEF Stage, BatchInv
<1>2. RowsHeld = S
  BY <1>1, CleanRows DEF CleanStages
<1>3. \A r \in S : committed[r] \in Nat /\ committed[r] <= NumPages * PageSize
  BY <1>1, <1>2, CommittedFits DEF RowsHeld
<1> HIDE DEF S, own
<1>4. Written(dkv, table, S, committed, own, committed) \in KVContents
  BY <1>1, <1>3, WrittenType DEF KVTypes
<1> QED
  BY <1>0, <1>4 DEF KVTypes

\* Every step writes contexts or garbage.
LEMMA KVTypesStep ==
  ASSUME SpecInv, SpecInv', KVTypes, [Next]_vars
  PROVE  KVTypes'
<1> SUFFICES kv' \in KVContents /\ dkv' \in KVContents
  BY DEF KVTypes, KVContents
<1>0. /\ MemInv /\ BatchInv /\ phase' # "oom"
      /\ kv \in KVContents /\ dkv \in KVContents
  BY DEF SpecInv, NeverOOM, KVTypes
<1>1. ASSUME UNCHANGED kvs \/ ScrubFreed PROVE kv' \in KVContents /\ dkv' \in KVContents
  BY <1>0, <1>1, ScrubType DEF kvs, ScrubFreed
<1>2. CASE UNCHANGED vars \/ PauseInPlace \/ PauseRetract \/ ContinueGeneration
           \/ (\E r \in Req : HandleGenerateRequest(r) \/ AbortRequest(r))
  <2>1. UNCHANGED kvs
    BY <1>2, Zenon DEF vars, PauseInPlace, PauseRetract, ContinueGeneration,
       HandleGenerateRequest, AbortRequest
  <2> QED
    BY <1>1, <2>1
<1>3. CASE MergeLastBatch \/ PlanPrefill \/ AddOneReq \/ FinishAdder \/ PrefillDone
           \/ UpdateRunningBatch \/ CheckDecodeMem \/ RetractCheck
  <2>1. UNCHANGED kvs
    BY <1>3, Zenon DEF MergeLastBatch, PlanPrefill, AddOneReq, FinishAdder, PrefillDone,
       UpdateRunningBatch, CheckDecodeMem, RetractCheck
  <2> QED
    BY <1>1, <2>1
<1>4. CASE PrepareForVerify \/ DecodeDone \/ PauseDone
  <2>1. UNCHANGED kvs
    BY <1>4, Zenon DEF PrepareForVerify, DecodeDone, PauseDone
  <2> QED
    BY <1>1, <2>1
<1>5. CASE StashChunked \/ PrefillResult \/ DecodeResult
  <2>1. UNCHANGED kvs \/ ScrubFreed
    BY <1>5, Zenon DEF StashChunked, PrefillResult, DecodeResult, Stash, Finish
  <2> QED
    BY <1>1, <2>1
<1>6. CASE EvictFromTreeCache \/ Retract \/ AbortLast \/ PauseRelease
  <2>1. UNCHANGED kvs \/ ScrubFreed
    BY <1>6, Zenon DEF EvictFromTreeCache, Retract, AbortLast, PauseRelease, Drop
  <2> QED
    BY <1>1, <2>1
<1>7. CASE PrefillForward
  BY <1>0, <1>7, PrefillTypes
<1>8. CASE DraftBlock
  <2>1. kv' = kv
    BY <1>8 DEF DraftBlock
  <2> QED
    BY <1>0, <1>8, <2>1, DraftTypes
<1>9. CASE Verify
  BY <1>0, <1>9, VerifyTypes
<1> QED
  BY Zenon, <1>2, <1>3, <1>4, <1>5, <1>6, <1>7, <1>8, <1>9 DEF Next, LoopStep

\* The state is well-typed: in particular every slot holds a context or garbage.
THEOREM SpecTyped == Spec => []TypeOK
<1>1. Init => KVTypes
  <2> SUFFICES ASSUME Init PROVE KVTypes
    OBVIOUS
  <2>1. kv = [p \in Page |-> Blank] /\ dkv = [p \in Page |-> Blank]
    BY DEF Init
  <2> QED
    BY <2>1, BlankType DEF KVTypes, KVContents
<1>2. SpecInv /\ KVTypes => TypeOK
  <2> SUFFICES ASSUME SpecInv, KVTypes PROVE TypeOK
    OBVIOUS
  <2>1. MemTypeOK /\ SchedTypes
    BY DEF SpecInv, MemInv, BatchInv
  <2>2. /\ kv \in [Page -> [0 .. PageSize - 1 -> Seq(Nat)]]
        /\ dkv \in [Page -> [0 .. PageSize - 1 -> Seq(Nat)]]
    BY DEF KVTypes, KVContents
  <2> QED
    BY Zenon, <2>1, <2>2 DEF TypeOK, SchedTypes, Adders
<1> QED
  BY <1>1, <1>2, KVTypesStep, SpecInvHolds, PTL DEF Spec

-----------------------------------------------------------------------------
(* Batches, queue and rows agree.                                          *)

\* A list without repetitions holds an element once or not at all.
LEMMA CountOne ==
  ASSUME NEW s \in Seq(Req), IsInjective(s), NEW r
  PROVE  Cardinality({i \in DOMAIN s : s[i] = r}) = IF r \in Set(s) THEN 1 ELSE 0
<1> DEFINE K == {i \in DOMAIN s : s[i] = r}
<1>1. CASE r \in Set(s)
  <2>1. PICK k \in DOMAIN s : s[k] = r
    BY <1>1 DEF Set
  <2>2. K = {k}
    BY <2>1 DEF IsInjective
  <2>3. Cardinality({k}) = 1
    BY Zenon, FS_Singleton
  <2> QED
    BY Zenon, <1>1, <2>2, <2>3
<1>2. CASE r \notin Set(s)
  <2>1. K = {}
    BY <1>2 DEF Set
  <2>2. Cardinality({}) = 0
    BY FS_EmptySet
  <2> QED
    BY Zenon, <1>2, <2>1, <2>2
<1> QED
  BY <1>1, <1>2

LEMMA RowsMatch == SpecInv => RowsMatchBatches
<1> SUFFICES ASSUME SpecInv, phase = "recv"
             PROVE  /\ RowsHeld = (Set(running) \cup Set(last)) \ finished
                    /\ chunked # NoReq => chunked \in RowsHeld
                    /\ \A r \in RowsHeld :
                         /\ Len(table[r]) = PagesFor(committed[r])
                         /\ IF r = chunked THEN committed[r] = fill[r] /\ fill[r] < InputLen(r)
                                           ELSE committed[r] = InputLen(r) - 1
  BY DEF RowsMatchBatches
<1>0. MemInv /\ BatchInv /\ SchedTypes /\ LengthsInv /\ Stage = "recv"
  BY DEF SpecInv, BatchInv, Stage
<1>1. RowsHeld = (Set(running) \cup Set(last)) \ finished
  BY <1>0, HeadRows DEF HeadStages
<1>2. chunked # NoReq => chunked \in RowsHeld
  BY <1>0, ChunkedRow DEF HeadStages
<1>3. ASSUME NEW r \in RowsHeld
      PROVE  /\ Len(table[r]) = PagesFor(committed[r])
             /\ IF r = chunked THEN committed[r] = fill[r] /\ fill[r] < InputLen(r)
                               ELSE committed[r] = InputLen(r) - 1
  <2>1. r \in Req /\ committed[r] \in Nat
    BY <1>0 DEF RowsHeld, SchedTypes
  <2>2. Len(table[r]) = PagesFor(committed[r] + 0)
    BY <1>0 DEF LengthsInv
  <2>3. r = chunked => committed[r] = fill[r] /\ fill[r] < InputLen(r)
    <3>1. \A q \in Chunked : committed[q] = fill[q] /\ fill[q] < InputLen(q)
      BY <1>0 DEF LengthsInv, HeadStages
    <3>2. r # NoReq
      BY <2>1, ParamTypes
    <3> QED
      BY <3>1, <3>2 DEF Chunked
  <2>4. r # chunked => committed[r] = InputLen(r) - 1
    BY <1>0, <1>1 DEF LengthsInv
  <2> QED
    BY <2>1, <2>2, <2>3, <2>4
<1> QED
  BY <1>1, <1>2, <1>3

LEMMA InOnePlace == SpecInv => OnePlace
<1> SUFFICES ASSUME SpecInv, phase = "recv", NEW r \in arrived
             PROVE  IF r \in finished
                      THEN r \notin gone /\ Cardinality({i \in DOMAIN waiting : waiting[i] = r}) = 0
                      ELSE Cardinality({i \in DOMAIN waiting : waiting[i] = r})
                             + Cardinality({i \in DOMAIN running : running[i] = r})
                             + Cardinality({i \in DOMAIN last : last[i] = r})
                             + (IF r \in gone THEN 1 ELSE 0) = 1
  BY Zenon DEF OnePlace
<1>0. BatchInv /\ SchedTypes /\ PlacesInv /\ Stage = "recv"
  BY DEF SpecInv, BatchInv, Stage
<1>1. Set(adder.list) = {} /\ Chunked \subseteq Set(last)
  <2>1. adder = NoAdder /\ Chunked \subseteq Set(last)
    BY <1>0 DEF BatchInv, StageInv, AddStages, HeadStages
  <2> QED
    BY <2>1 DEF NoAdder, Set
<1>2. r \in Set(waiting) \cup Set(running) \cup Set(last) \cup finished \cup gone
  BY <1>0, <1>1 DEF PlacesInv
<1>3. /\ Set(waiting) \cap (Set(running) \cup Set(last) \cup finished \cup gone) = {}
      /\ Set(running) \cap Set(last) = {}
      /\ gone \cap (finished \cup Set(running) \cup Set(last)) = {}
      /\ IsInjective(waiting) /\ IsInjective(running) /\ IsInjective(last)
  BY <1>0 DEF PlacesInv
<1>4. waiting \in Seq(Req) /\ running \in Seq(Req) /\ last \in Seq(Req)
  BY <1>0 DEF SchedTypes
<1> DEFINE w == Cardinality({i \in DOMAIN waiting : waiting[i] = r})
           n == Cardinality({i \in DOMAIN running : running[i] = r})
           l == Cardinality({i \in DOMAIN last : last[i] = r})
<1>5. /\ w = IF r \in Set(waiting) THEN 1 ELSE 0
      /\ n = IF r \in Set(running) THEN 1 ELSE 0
      /\ l = IF r \in Set(last) THEN 1 ELSE 0
  BY <1>3, <1>4, CountOne
<1> HIDE DEF w, n, l
<1>6. IF r \in finished THEN r \notin gone /\ w = 0
                        ELSE w + n + l + (IF r \in gone THEN 1 ELSE 0) = 1
  BY <1>2, <1>3, <1>5
<1> QED
  BY <1>6 DEF w, n, l

\* At the head of the loop a request is in one place, rows belong exactly to the
\* unfinished requests of the batches, and a row has the pages of its committed
\* tokens (get_next_batch_to_run, filter_batch, merge_batch, retract_decode).
THEOREM BatchesExactHolds == Spec => []BatchesExact
BY SpecTyped, SpecInvHolds, RowsMatch, InOnePlace, PTL DEF BatchesExact
=============================================================================
