----------------------------- MODULE RadixTree -----------------------------
(***************************************************************************)
(* The radix tree behind the prefix cache, node by node                    *)
(* (mem_cache/radix_cache.py): splitting, reference counted locks, the     *)
(* incrementally kept sizes and set of evictable leaves, the eviction      *)
(* loop, and the KV events from which an outside router rebuilds the set   *)
(* of cached blocks.                                                       *)
(*                                                                         *)
(* A node is named by the token path from the root to its end.  A split    *)
(* keeps that name for the lower node, which is the TreeNode object that   *)
(* survives in the code, and names the new upper node by the shorter path. *)
(* An extra_key only makes tokens of different namespaces differ, and the  *)
(* bigram view of EAGLE only changes what a token is.                      *)
(*                                                                         *)
(* The tree is checked to implement KVMemory, in which the cache is just a *)
(* map from cached paths to pages.                                         *)
(***************************************************************************)
EXTENDS Integers, Sequences, FiniteSets, FiniteSetsExt, Collections

CONSTANTS
  Req,          \* request ids
  Text,         \* Text[r]: the tokens of r
  NumPages,     \* pages of the KV pool
  PageSize,     \* tokens per page
  Allocs(_, _)  \* Allocs(S, n): the lists of n pages of S alloc_extend may return

ASSUME TreeAssumption ==
  /\ NumPages \in Nat \ {0}
  /\ PageSize \in Nat \ {0}
  /\ DOMAIN Text = Req
  /\ IsFiniteSet(Req)
  /\ \A r \in Req : NumPages * PageSize <= Len(Text[r])  \* padded to the pool size
  /\ \A S \in SUBSET (1 .. NumPages), n \in 1 .. NumPages : \A a \in Allocs(S, n) :
       a \in Seq(S) /\ Len(a) = n /\ IsInjective(a)

VARIABLES
  rc,     \* the RadixCache object, see Fresh
  free,   \* pages of the allocator
  table,  \* table[r]: r's row of req_to_token, <<>> without a row
  prefix, \* prefix[r]: prefix_indices of an admitted request without a row
  prot,   \* prot[r]: cache_protected_len, in pages
  last,   \* last[r]: req.last_node, locked; Root when r holds no lock
  evict   \* the evict() call in progress: [want, heap]

vars == <<rc, free, table, prefix, prot, last, evict>>

Root == <<>>
NoCall == [want |-> 0, heap |-> {}]

Path(r, k) == SubSeq(Text[r], 1, k * PageSize)
Pages(key) == Len(key) \div PageSize
Block(key, i) == SubSeq(key, (i - 1) * PageSize + 1, i * PageSize)

-----------------------------------------------------------------------------
(* Reading the tree.  t maps every node to its fields.                     *)

Children(t, n) == {c \in DOMAIN t \ {Root} : t[c].parent = n}
KeyLen(t, n) == Len(n) - Len(t[n].parent)

\* The nodes the loops of inc_lock_ref and dec_lock_ref visit from n.
Chain(t, n) ==
  LET up == Iterated([x \in DOMAIN t |-> t[x].parent], n, Pages(n))
  IN  {up[i] : i \in 0 .. Pages(n)} \ {Root}

\* child_key: the child of n whose first page is the next page of key.
Branch(t, n, key) ==
  {c \in Children(t, n) : Len(key) > Len(n) /\ Block(c, Pages(n) + 1) = Block(key, Pages(n) + 1)}

\* RadixKey.match, counted from the root: the common pages of two paths.
Common(c, key) ==
  Max({m \in 0 .. Min({Pages(c), Pages(key)}) : \A i \in 1 .. m : Block(c, i) = Block(key, i)})

\* The loop of _match_prefix_helper and _insert_helper over fully matched nodes.
Descend(t, key) ==
  LET whole(n) == {c \in Branch(t, n, key) : Common(c, key) = Pages(c)}
      turn == [n \in DOMAIN t |-> IF whole(n) = {} THEN n ELSE CHOOSE c \in whole(n) : TRUE]
  IN  Iterated(turn, Root, Pages(key))[Pages(key)]

\* The KV indices on the way to n.
ValueOf(t, n) ==
  [j \in 1 .. Pages(n) |->
     LET c == CHOOSE x \in Chain(t, n) : Len(t[x].parent) < j * PageSize /\ j * PageSize <= Len(x)
     IN  t[c].value[j - Pages(t[c].parent)]]

-----------------------------------------------------------------------------
(* Changing the tree.  s is the RadixCache object: its nodes, leaves        *)
(* (evictable_leaves), evictable and protected (the two sizes, in tokens)   *)
(* and blocks, what a subscriber of the KV events has.                     *)

Fresh ==
  [node |-> [n \in {Root} |-> [parent |-> Root, value |-> <<>>, lock |-> 1, hash |-> <<>>]],
   leaves |-> {}, evictable |-> 0, protected |-> 0, blocks |-> {}]

\* The tree t with fields as node n.
With(t, n, fields) == [x \in DOMAIN t \cup {n} |-> IF x = n THEN fields ELSE t[x]]

\* Mutant of SplitLock: the new upper node starts unlocked.
SplitLockZero(child) == 0

\* lock_ref of the node a split puts above child.
SplitLock(child) == child.lock

\* Mutant of SplitPages: the node's pages are counted from the root of the tree.
SplitPagesFromRoot(t, c, upper) == Min({Pages(upper), Len(t[c].hash)})

\* split_node_hash_value: how many of the hashes of c go to the upper node.
SplitPages(t, c, upper) == Pages(upper) - Pages(t[c].parent)

\* _split_node: upper takes the first pages of node c and becomes its parent.
SplitNode(t, c, upper) ==
  LET n == t[c]
      k == Pages(upper) - Pages(n.parent)
      h == SplitPages(t, c, upper)
      top == [parent |-> n.parent, value |-> SubSeq(n.value, 1, k),
              lock |-> SplitLock(n), hash |-> SubSeq(n.hash, 1, h)]
      low == [parent |-> upper, value |-> SubSeq(n.value, k + 1, Len(n.value)),
              lock |-> n.lock, hash |-> SubSeq(n.hash, h + 1, Len(n.hash))]
  IN  With(With(t, c, low), upper, top)

\* _match_prefix_helper: descend, and split the node the key leaves half-way.
\* The last node of the match is Descend of the result.
Matched(s, key) ==
  LET n == Descend(s.node, key)
      part == Branch(s.node, n, key)
  IN  IF part = {} THEN s
      ELSE LET c == CHOOSE x \in part : TRUE
           IN  [s EXCEPT !.node = SplitNode(s.node, c, SubSeq(key, 1, Common(c, key) * PageSize))]

\* _update_leaf_status of the nodes ns.
LeafStatus(t, leaves, ns) ==
  (leaves \ ns) \cup {n \in ns : t[n].lock <= 0 /\ Children(t, n) = {}}

\* The last hash of a node; its children's hashes go on from it.
LastHash(t, n) == LET h == t[n].hash IN IF h = <<>> THEN <<>> ELSE h[Len(h)]

\* compute_node_hash_values: the hash of a page is taken over its tokens and the
\* hash of the page before it; SHA256 is modelled as injective, so that a hash is
\* the tokens that went into it.
Hashes(t, parent, key) ==
  [i \in 1 .. Pages(key) - Pages(parent) |->
     LastHash(t, parent) \o SubSeq(key, Len(parent) + 1, (Pages(parent) + i) * PageSize)]

\* _record_store_event: one BlockStored per page, linked to the page before.
Stored(t, parent, hs) ==
  {[hash |-> hs[i], parent |-> IF i = 1 THEN LastHash(t, parent) ELSE hs[i - 1]] : i \in DOMAIN hs}

\* _insert_helper: what is cached stays, the rest of the key becomes a new leaf.
Insert(s, key, value) ==
  LET m == Matched(s, key)
      n == Descend(m.node, key)
      hs == Hashes(m.node, n, key)
      t == With(m.node, key, [parent |-> n, value |-> SubSeq(value, Pages(n) + 1, Pages(key)),
                              lock |-> 0, hash |-> hs])
  IN  IF n = key THEN m
      ELSE [m EXCEPT !.node = t,
                     !.evictable = @ + Len(key) - Len(n),
                     !.leaves = LeafStatus(t, @, {n, key}),
                     !.blocks = @ \cup Stored(m.node, n, hs)]

\* The prefix_len that insert returns, in pages.
PrefixLen(s, key) == Pages(Descend(Matched(s, key).node, key))

TokensOf(t, ns) == Total([n \in DOMAIN t |-> KeyLen(t, n)], ns)

\* Mutant of IncLockRef: nodes that are locked already are counted again.
IncLockRefAgain(s, node) ==
  LET C == Chain(s.node, node)
      d == TokensOf(s.node, C)
      t == [n \in DOMAIN s.node |-> IF n \in C THEN [s.node[n] EXCEPT !.lock = @ + 1] ELSE s.node[n]]
  IN  [s EXCEPT !.node = t, !.evictable = @ - d, !.protected = @ + d,
                !.leaves = LeafStatus(t, @, C)]

\* inc_lock_ref: a node that was unlocked moves to the protected size.
IncLockRef(s, node) ==
  LET C == Chain(s.node, node)
      d == TokensOf(s.node, {n \in C : s.node[n].lock = 0})
      t == [n \in DOMAIN s.node |-> IF n \in C THEN [s.node[n] EXCEPT !.lock = @ + 1] ELSE s.node[n]]
  IN  [s EXCEPT !.node = t, !.evictable = @ - d, !.protected = @ + d,
                !.leaves = LeafStatus(t, @, C)]

\* dec_lock_ref: a node whose last lock goes moves to the evictable size.
DecLockRef(s, node) ==
  LET C == Chain(s.node, node)
      d == TokensOf(s.node, {n \in C : s.node[n].lock = 1})
      t == [n \in DOMAIN s.node |-> IF n \in C THEN [s.node[n] EXCEPT !.lock = @ - 1] ELSE s.node[n]]
  IN  [s EXCEPT !.node = t, !.evictable = @ + d, !.protected = @ - d,
                !.leaves = LeafStatus(t, @, C)]

\* _delete_leaf and _record_remove_event.
DeleteLeaf(s, x) ==
  LET t == [n \in DOMAIN s.node \ {x} |-> s.node[n]]
      h == s.node[x].hash
  IN  [s EXCEPT !.node = t,
                !.evictable = @ - KeyLen(s.node, x),
                !.leaves = LeafStatus(t, @ \ {x}, {s.node[x].parent}),
                !.blocks = {b \in @ : \A i \in DOMAIN h : b.hash # h[i]}]

-----------------------------------------------------------------------------
(* The operations.  The scheduler is one thread, so nothing runs during an  *)
(* evict() call.                                                            *)

Init ==
  /\ rc = Fresh
  /\ free = 1 .. NumPages
  /\ table = [r \in Req |-> <<>>]
  /\ prefix = [r \in Req |-> <<>>]
  /\ prot = [r \in Req |-> 0]
  /\ last = [r \in Req |-> Root]
  /\ evict = NoCall

Idle == evict = NoCall

\* A request without row or lock waits.
Waiting(r) == table[r] = <<>> /\ last[r] = Root

\* match_prefix for a request that is not admitted (calc_priority): it may
\* split a node all the same.
MatchPrefix(r, n) ==
  /\ Idle /\ Waiting(r)
  /\ rc' = Matched(rc, Path(r, n))
  /\ UNCHANGED <<free, table, prefix, prot, last, evict>>

\* init_next_round_input and _req_inc_lock_ref of an admitted request.
Admit(r, n) ==
  /\ Idle /\ Waiting(r)
  /\ LET m == Matched(rc, Path(r, n))
         node == Descend(m.node, Path(r, n))
     IN  /\ rc' = IncLockRef(m, node)
         /\ last' = [last EXCEPT ![r] = node]
         /\ prefix' = [prefix EXCEPT ![r] = ValueOf(m.node, node)]
         /\ prot' = [prot EXCEPT ![r] = Pages(node)]
  /\ UNCHANGED <<free, table, evict>>

\* alloc_for_extend of n pages: the row of a new request starts with its prefix.
Extend(r, n) ==
  /\ Idle
  /\ \E a \in Allocs(free, n) :
       /\ table' = [table EXCEPT ![r] =
                      (IF table[r] = <<>> THEN prefix[r] ELSE table[r]) \o a]
       /\ free' = free \ {a[i] : i \in 1 .. n}
  /\ prefix' = [prefix EXCEPT ![r] = <<>>]
  /\ UNCHANGED <<rc, prot, last, evict>>

RowPages(r, from, to) == {table[r][j] : j \in from .. to}

\* Mutant of ReadBack: the row keeps the pages that were freed as duplicates.
ReadBackNot(r, K, new) == table[r]

\* req_to_token_pool.write of the matched indices behind the protected ones.
ReadBack(r, K, new) ==
  [j \in DOMAIN table[r] |-> IF j \in prot[r] + 1 .. K THEN new[j] ELSE table[r][j]]

\* cache_unfinished_req with K whole pages computed: insert, free the pages
\* another request filed first, read the row back, move the lock.
CacheUnfinishedReq(r, K) ==
  /\ Idle /\ table[r] # <<>>
  /\ LET key == Path(r, K)
         s == Matched(Insert(rc, key, table[r]), key)
         node == Descend(s.node, key)
         new == ValueOf(s.node, node)
     IN  /\ free' = free \cup RowPages(r, prot[r] + 1, PrefixLen(rc, key))
         /\ table' = [table EXCEPT ![r] = ReadBack(r, K, new)]
         /\ prot' = [prot EXCEPT ![r] = Pages(node)]
         /\ rc' = IncLockRef(DecLockRef(s, last[r]), node)
         /\ last' = [last EXCEPT ![r] = node]
  /\ UNCHANGED <<prefix, evict>>

\* cache_finished_req with K whole pages committed, and the release of the row.
CacheFinishedReq(r, K, isInsert) ==
  /\ Idle /\ table[r] # <<>>
  /\ LET key == Path(r, K)
         dup == IF isInsert THEN PrefixLen(rc, key) ELSE K
         s == IF isInsert THEN Insert(rc, key, table[r]) ELSE rc
     IN  /\ free' = free \cup RowPages(r, prot[r] + 1, dup) \cup RowPages(r, K + 1, Len(table[r]))
         /\ rc' = DecLockRef(s, last[r])
  /\ table' = [table EXCEPT ![r] = <<>>]
  /\ prot' = [prot EXCEPT ![r] = 0]
  /\ last' = [last EXCEPT ![r] = Root]
  /\ UNCHANGED <<prefix, evict>>

\* evict(num_tokens): the heap starts with the evictable leaves.
EvictBegin(tokens) ==
  /\ Idle
  /\ evict' = [want |-> tokens, heap |-> rc.leaves]
  /\ UNCHANGED <<rc, free, table, prefix, prot, last>>

\* Mutant of PushParent: a parent that becomes a leaf waits for the next call.
PushParentNever(t, p) == {}

\* A parent that lost its last child and is not locked joins the heap.
PushParent(t, p) == IF Children(t, p) = {} /\ t[p].lock = 0 THEN {p} ELSE {}

\* One round of the loop; any node may be the least under the eviction strategy.
EvictPop ==
  /\ evict.want > 0
  /\ \E x \in evict.heap :
       LET s == DeleteLeaf(rc, x)
           p == rc.node[x].parent
           v == rc.node[x].value
       IN  /\ free' = free \cup {v[i] : i \in DOMAIN v}
           /\ rc' = s
           /\ evict' = [want |-> Max({0, evict.want - KeyLen(rc.node, x)}),
                        heap |-> (evict.heap \ {x}) \cup PushParent(s.node, p)]
  /\ UNCHANGED <<table, prefix, prot, last>>

\* The loop ends with enough evicted or an empty heap.
EvictEnd ==
  /\ ~Idle
  /\ evict.want = 0 \/ evict.heap = {}
  /\ evict' = NoCall
  /\ UNCHANGED <<rc, free, table, prefix, prot, last>>

\* flush_cache of an idle scheduler.
Reset ==
  /\ Idle /\ \A r \in Req : Waiting(r)
  /\ rc' = Fresh
  /\ free' = 1 .. NumPages
  /\ UNCHANGED <<table, prefix, prot, last, evict>>

Next ==
  \/ \E r \in Req, n \in 1 .. NumPages : MatchPrefix(r, n) \/ Admit(r, n) \/ Extend(r, n)
  \/ \E r \in Req : \E K \in prot[r] .. Len(table[r]) :
       \/ CacheUnfinishedReq(r, K)
       \/ \E isInsert \in BOOLEAN : CacheFinishedReq(r, K, isInsert)
  \/ \E n \in 1 .. NumPages : EvictBegin(n * PageSize)
  \/ EvictPop
  \/ EvictEnd
  \/ Reset

Spec == Init /\ [][Next]_vars

-----------------------------------------------------------------------------
(* The tree as KVMemory sees it.                                           *)

Nodes == DOMAIN rc.node \ {Root}

\* Cached path -> its page.
CacheView ==
  LET paths == UNION {{SubSeq(n, 1, j * PageSize) :
                         j \in Pages(rc.node[n].parent) + 1 .. Pages(n)} : n \in Nodes}
      owner(p) == CHOOSE n \in Nodes : /\ Len(rc.node[n].parent) < Len(p)
                                       /\ Len(p) <= Len(n)
                                       /\ SubSeq(n, 1, Len(p)) = p
  IN  [p \in paths |-> rc.node[owner(p)].value[Pages(p) - Pages(rc.node[owner(p)].parent)]]

M == INSTANCE KVMemory WITH cache <- CacheView, pin <- [r \in Req |-> Pages(last[r])]

-----------------------------------------------------------------------------
(* Properties.                                                             *)

TypeOK ==
  /\ Root \in DOMAIN rc.node
  /\ \A n \in Nodes : /\ Len(n) % PageSize = 0
                      /\ rc.node[n].parent \in DOMAIN rc.node
                      /\ rc.node[n].value \in Seq(1 .. NumPages)
                      /\ rc.node[n].lock \in Nat
  /\ rc.leaves \subseteq Nodes
  /\ rc.evictable \in Int /\ rc.protected \in Int
  /\ free \subseteq 1 .. NumPages
  /\ \A r \in Req : last[r] \in DOMAIN rc.node
  /\ evict.heap \subseteq Nodes

\* The tree stays a radix tree through every split, insert and delete: a node
\* extends its parent by one page per KV page it holds, and two children of a
\* node differ in their first page, so a lookup is never ambiguous.
TreeShape ==
  /\ \A n \in Nodes :
       LET p == rc.node[n].parent
       IN  /\ Len(p) < Len(n) /\ SubSeq(n, 1, Len(p)) = p
           /\ Len(rc.node[n].value) = Pages(n) - Pages(p)
  /\ \A n, c \in Nodes :
       n # c /\ rc.node[n].parent = rc.node[c].parent =>
         LET i == Pages(rc.node[n].parent) + 1 IN Block(n, i) # Block(c, i)

\* lock_ref of a node is the number of requests whose last_node is that node or
\* below it: splits of locked nodes, moved locks and releases in any order
\* leave a radix tree with no lock left behind (a leak) and none released that
\* is still needed.
LockRefExact ==
  /\ TypeOK
  /\ TreeShape
  /\ \A n \in Nodes :
       rc.node[n].lock = Cardinality({r \in Req : /\ Len(n) <= Len(last[r])
                                                  /\ SubSeq(last[r], 1, Len(n)) = n})

\* evictable_leaves, which evict() starts from, is exactly the unlocked leaves:
\* a node missing from it is never evicted, a stale one is evicted while a
\* request reads it.
LeavesExact ==
  rc.leaves = {n \in Nodes : rc.node[n].lock = 0 /\ Children(rc.node, n) = {}}

\* What admission, retraction and evict() trust is what the tree really holds:
\* the counters are the tokens without and with a lock, and evictable_leaves
\* has every leaf that may go and no other.
SizesExact ==
  /\ rc.evictable = TokensOf(rc.node, {n \in Nodes : rc.node[n].lock = 0})
  /\ rc.protected = TokensOf(rc.node, {n \in Nodes : rc.node[n].lock > 0})
  /\ LeavesExact

\* evict() gives up before it freed what was asked only when nothing evictable
\* is left: evictable_size is a promise that evict() keeps in one call.
EvictComplete == evict.want > 0 /\ evict.heap = {} => rc.evictable = 0

\* A subscriber that replays the KV events holds one block per cached page, under
\* the hash of its whole path and linked to the page before it, although nodes
\* are split and deleted after their blocks were announced.
EventsMirrorCache ==
  rc.blocks = {[hash |-> p, parent |-> SubSeq(p, 1, Len(p) - PageSize)] : p \in DOMAIN CacheView}

\* Every operation on nodes is an operation of KVMemory on cached paths or does
\* not change them: splits are invisible, evict() takes unlocked paths leaves
\* first, and inserts, locks and frees are those the page ownership theorems
\* are about.
ImplementsMemory == M!MemSpec
=============================================================================
