------------------------------ MODULE KVMemory ------------------------------
(***************************************************************************)
(* The KV memory that requests share: the free pages of the allocator      *)
(* (mem_cache/allocator.py), the prefix cache (mem_cache/radix_cache.py),  *)
(* the rows of req_to_token (mem_cache/memory_pool.py), and the operations *)
(* of mem_cache/common.py that move pages between them.                    *)
(*                                                                         *)
(* The radix tree is its set of cached paths: a path is the token text of  *)
(* whole pages and maps to its last page; the tree splits nodes so that    *)
(* every path can be matched, locked and evicted by itself.                *)
(*                                                                         *)
(* MemSpec says how the scheduler may use the operations.  It is what      *)
(* SpecScheduler is checked to implement, and what the ownership theorems  *)
(* in SpecSchedulerProofs are about.                                       *)
(***************************************************************************)
EXTENDS Integers, Sequences, FiniteSets

CONSTANTS
  Req,       \* request ids
  Text,      \* Text[r]: prompt of r followed by the target's tokens
  NumPages,  \* pages of the KV pool
  PageSize   \* tokens per page

ASSUME MemAssumption ==
  /\ NumPages \in Nat \ {0}
  /\ PageSize \in Nat \ {0}
  /\ DOMAIN Text = Req
  /\ \A r \in Req : NumPages * PageSize <= Len(Text[r])  \* padded to the pool size

VARIABLES
  free,   \* pages of the allocator (free_pages and release_pages)
  cache,  \* cached token path -> its last page
  table,  \* table[r]: pages of r's row of req_to_token, <<>> without a row
  prot,   \* prot[r]: cache_protected_len, in pages
  pin     \* pin[r]: pages of r's path locked through r.last_node

mem == <<free, cache, table, prot, pin>>

Page == 1 .. NumPages

\* The cache key of r's first k pages.
Path(r, k) == [i \in 1 .. k * PageSize |-> Text[r][i]]
PathPrefix(p, q) == DOMAIN p \subseteq DOMAIN q /\ \A i \in DOMAIN p : p[i] = q[i]
Cached == DOMAIN cache

\* match_prefix: m is the number of leading pages of r, at most n, in the cache.
IsMatch(r, n, m) ==
  /\ m \in 0 .. n
  /\ \A j \in 1 .. m : Path(r, j) \in Cached
  /\ m < n => Path(r, m + 1) \notin Cached

\* lock_ref > 0: some request locks a path at or below this one (locks pn).
PinnedPaths(pn) == UNION {{Path(r, j) : j \in 1 .. pn[r]} : r \in Req}

\* Mutant of Evictable: locks are ignored.
EvictableAll(pn) == Cached

\* evictable_size counts, and evict() may take, what no lock covers.
Evictable(pn) == Cached \ PinnedPaths(pn)

\* evict() takes leaves first: a set that holds every cached extension of its
\* members.
UpClosed(E) == \A p \in E, q \in Cached : PathPrefix(p, q) => q \in E

RowPages(r, from, to) == {table[r][j] : j \in from .. to}

MemInit ==
  /\ free = Page
  /\ cache = [p \in {} |-> 0]
  /\ table = [r \in Req |-> <<>>]
  /\ prot = [r \in Req |-> 0]
  /\ pin = [r \in Req |-> 0]

-----------------------------------------------------------------------------
(* The operations.                                                         *)

\* evict(): the pages of E go back to the allocator.
Evict(E) ==
  /\ cache' = [p \in Cached \ E |-> cache[p]]
  /\ free' = free \cup {cache[p] : p \in E}
  /\ UNCHANGED <<table, prot, pin>>

\* _req_inc_lock_ref of a request whose first m pages matched.
Lock(r, m) ==
  /\ pin' = [pin EXCEPT ![r] = m]
  /\ prot' = [prot EXCEPT ![r] = m]
  /\ UNCHANGED <<free, cache, table>>

\* The row alloc_for_extend starts from: r's own, or the matched pages.
Row(r) == IF table[r] = <<>> THEN [j \in 1 .. prot[r] |-> cache[Path(r, j)]]
                             ELSE table[r]

\* What alloc_extend may return (PagedAllocator): a[r] is a list of pages of S
\* for request r, and no page is given twice.
IsAssignment(a, S) ==
  /\ a \in [Req -> Seq(S)]
  /\ \A q, r \in Req : \A i \in DOMAIN a[q], j \in DOMAIN a[r] :
       a[q][i] = a[r][j] => q = r /\ i = j

\* alloc_extend for the requests S, and the write of the new pages to their rows.
Grow(S, a) ==
  /\ table' = [r \in Req |-> IF r \in S THEN Row(r) \o a[r] ELSE table[r]]
  /\ free' = free \ UNION {{a[r][i] : i \in DOMAIN a[r]} : r \in S}
  /\ UNCHANGED <<cache, prot, pin>>

\* verify(): the rows of S keep keep[r] pages, the others are freed.
Trim(S, keep) ==
  /\ table' = [r \in Req |-> IF r \in S THEN [j \in 1 .. keep[r] |-> table[r][j]]
                                        ELSE table[r]]
  /\ free' = free \cup UNION {RowPages(r, keep[r] + 1, Len(table[r])) : r \in S}
  /\ UNCHANGED <<cache, prot, pin>>

\* insert() of r's first K pages: what is cached stays, the rest is filed.
Inserted(r, K) ==
  [p \in Cached \cup {Path(r, j) : j \in 1 .. K} |->
     IF p \in Cached THEN cache[p]
                     ELSE table[r][CHOOSE j \in 1 .. K : p = Path(r, j)]]

\* cache_unfinished_req with K whole pages computed: file them, free the
\* duplicates of pages another request filed first (m match), read the row back
\* from the cache and move the lock to the new path.
CacheUnfinished(r, K, m) ==
  /\ IsMatch(r, K, m)
  /\ cache' = Inserted(r, K)
  /\ free' = free \cup RowPages(r, prot[r] + 1, m)
  /\ table' = [table EXCEPT ![r] =
       [j \in 1 .. Len(table[r]) |->
          IF j <= K THEN Inserted(r, K)[Path(r, j)] ELSE table[r][j]]]
  /\ prot' = [prot EXCEPT ![r] = K]
  /\ pin' = [pin EXCEPT ![r] = K]

\* The row and the lock of r are given up.
Forget(r) ==
  /\ table' = [table EXCEPT ![r] = <<>>]
  /\ prot' = [prot EXCEPT ![r] = 0]
  /\ pin' = [pin EXCEPT ![r] = 0]

\* release_kv_cache(is_insert=True): file the first K pages, free the
\* duplicates and the rest of the row.
ReleaseInsert(r, K, m) ==
  /\ IsMatch(r, K, m)
  /\ cache' = Inserted(r, K)
  /\ free' = free \cup RowPages(r, prot[r] + 1, m) \cup RowPages(r, K + 1, Len(table[r]))
  /\ Forget(r)

\* Mutant of ReleaseDrop: the protected pages are freed too.
ReleaseDropAll(r) ==
  /\ free' = free \cup RowPages(r, 1, Len(table[r]))
  /\ Forget(r)
  /\ UNCHANGED cache

\* release_kv_cache(is_insert=False): free everything the cache does not own.
ReleaseDrop(r) ==
  /\ free' = free \cup RowPages(r, prot[r] + 1, Len(table[r]))
  /\ Forget(r)
  /\ UNCHANGED cache

-----------------------------------------------------------------------------
(* How the operations may be used.                                         *)

\* A row is filed up to a page that is neither protected already nor missing.
Whole(r, K) == K \in prot[r] .. Len(table[r])

\* The pages a Grow step gave: what the new row has behind the old one.
Taken == [r \in Req |-> SubSeq(table'[r], Len(Row(r)) + 1, Len(table'[r]))]

MemGrow ==
  \E S \in SUBSET Req : IsAssignment(Taken, free) /\ Grow(S, Taken)

\* A verify step never cuts into the protected part of a row.
MemTrim ==
  LET keep == [r \in Req |-> Len(table'[r])]
  IN  \E S \in SUBSET Req :
        /\ \A r \in S : keep[r] \in prot[r] .. Len(table[r])
        /\ Trim(S, keep)

MemNext ==
  \/ \E E \in SUBSET Evictable(pin) : UpClosed(E) /\ Evict(E)
  \/ \E r \in Req, m \in 0 .. NumPages :
       /\ table[r] = <<>>
       /\ \A j \in 1 .. m : Path(r, j) \in Cached
       /\ Lock(r, m)
  \/ MemGrow
  \/ MemTrim
  \/ \E r \in Req, K \in 0 .. NumPages, m \in 0 .. NumPages :
       Whole(r, K) /\ (CacheUnfinished(r, K, m) \/ ReleaseInsert(r, K, m))
  \/ \E r \in Req : ReleaseDrop(r)

\* The memory protocol: what the scheduler's steps do to the memory.
MemSpec == MemInit /\ [][MemNext]_mem

-----------------------------------------------------------------------------
(* Properties.                                                             *)

MemTypeOK ==
  /\ free \subseteq Page
  /\ \A p \in Cached : cache[p] \in Page
  /\ table \in [Req -> Seq(Page)]
  /\ prot \in [Req -> Nat]
  /\ pin \in [Req -> Nat]

\* Pages of r's row that the cache does not own (behind cache_protected_len).
Private(r) == prot[r] + 1 .. Len(table[r])

\* No page has two owners: a cached page is not free and belongs to one path, a
\* private page of a row is neither free nor cached nor in another place of any
\* row.  A double free, a page given out twice and a page freed while cached
\* all break it.
NoSharing ==
  /\ \A p \in Cached : cache[p] \notin free
  /\ \A p, q \in Cached : cache[p] = cache[q] => p = q
  /\ \A r \in Req : \A j \in Private(r) :
       /\ table[r][j] \notin free
       /\ \A p \in Cached : table[r][j] # cache[p]
  /\ \A q, r \in Req : \A i \in Private(q), j \in Private(r) :
       table[q][i] = table[r][j] => q = r /\ i = j

\* No page is lost: each is free, cached or private to a row.
NoLeak ==
  \A g \in Page :
    \/ g \in free
    \/ \E p \in Cached : cache[p] = g
    \/ \E r \in Req : \E j \in Private(r) : table[r][j] = g

\* Every page of the pool has exactly one owner, whatever sequence of finishes,
\* retractions, aborts, evictions, chunks and verify trims moved it.
PageOwnership == NoSharing /\ NoLeak

\* The cache is closed under prefixes: match_prefix, which walks from the root,
\* reaches every cached page, so a page is never filed or kept where no request
\* can find it again.
PrefixClosed ==
  \A r \in Req, j \in 1 .. NumPages : Path(r, j) \in Cached =>
    \A i \in 1 .. j : Path(r, i) \in Cached

\* The protected part of every row is a cached path, locked against eviction,
\* and the row reads exactly the cache's pages: a match that is not yet locked,
\* a lock dropped too early or a duplicate that is freed but not re-read from
\* the cache would break it.
ProtectedIsCached ==
  \A r \in Req :
    /\ pin[r] = prot[r]
    /\ table[r] # <<>> => prot[r] <= Len(table[r])
    /\ \A j \in 1 .. prot[r] :
         /\ Path(r, j) \in Cached
         /\ table[r] # <<>> => table[r][j] = cache[Path(r, j)]
=============================================================================
