------------------------------ MODULE HiCache ------------------------------
(***************************************************************************)
(* The hierarchical prefix cache (mem_cache/hiradix_cache.py with          *)
(* managers/cache_controller.py): a radix tree whose nodes hold KV on the  *)
(* device, on the host or on both, under the write-through policies.       *)
(*                                                                         *)
(* A node is copied to the host asynchronously when it has been hit often  *)
(* enough, loses its device value to eviction, and is loaded back, again   *)
(* asynchronously, when a request matches it.  Locks keep what a copy      *)
(* still reads or writes from being evicted.  The scheduler's loop around  *)
(* it is event_loop_normal without speculation, one token per page.        *)
(*                                                                         *)
(* A node is named by the path from the root to its end, as in RadixTree.  *)
(* The content of a page is the path whose last token's KV it holds.       *)
(***************************************************************************)
EXTENDS Integers, Sequences, FiniteSets, FiniteSetsExt, SequencesExt, TLC

CONSTANTS
  MaxBatch,  \* requests of a prefill batch, at most
  Settings   \* servers and their requests, see IsSetting

\* write_through_threshold (1, or 2 for write_through_selective), load_back_threshold,
\* chunked_prefill_size, the two pools, and for each request the text of its prompt and
\* answer, without the last token, and the length of the prompt.  HostKVCache refuses a
\* host pool that is not larger than the device pool.  Bound: the requests in once are
\* sent once, the others again and again.
IsSetting(s) ==
  /\ s.hits \in {1, 2} /\ s.load \in Nat /\ s.chunk \in Nat \ {0}
  /\ s.device \in Nat /\ s.host \in Nat /\ s.host > s.device
  /\ s.once \subseteq DOMAIN s.text
  /\ \A r \in DOMAIN s.text : /\ s.prompt[r] \in 1 .. Len(s.text[r])
                              /\ Len(s.text[r]) < s.device

ASSUME SettingsAssumption ==
  /\ MaxBatch \in Nat \ {0}
  /\ \A s \in Settings : IsSetting(s)

VARIABLES
  set,    \* the setting of this behaviour
  hc,     \* the cache and its controller, see Fresh
  dkv,    \* dkv[p]: the content of device page p
  hkv,    \* hkv[p]: the content of host page p
  stage,  \* stage[r]: "done", "waiting", "batch", "chunked", "running" or "gone"
  out,    \* out[r]: tokens answered
  upto,   \* upto[r]: len(fill_ids) in the current prefill batch
  row,    \* row[r]: the device pages of r
  prot,   \* prot[r]: cache_protected_len
  last,   \* last[r]: last_node
  phase,  \* where the loop is
  todo,   \* requests of the batch whose result is to be processed
  ins,    \* the insert() in progress
  oom     \* an allocation failed

reqs == <<stage, out, upto, row, prot, last>>
vars == <<set, hc, dkv, hkv, reqs, phase, todo, ins, oom>>

Req == DOMAIN set.text
Text(r) == set.text[r]
Prompt(r) == set.prompt[r]

Root == <<>>
Garbage == <<>>   \* a page whose content nobody may use
NoInsert == [req |-> 0, at |-> Root, prefix |-> 0, chunked |-> FALSE]

MaxNew(r) == Len(Text(r)) - Prompt(r) + 1
FillIds(r) == SubSeq(Text(r), 1, Prompt(r) + out[r])

Total(S, w(_)) == MapThenSumSet(w, S)

\* n of the free pages.  Free pages do not differ: the lowest stand for any.
Alloc(free, n) ==
  [i \in 1 .. n |-> CHOOSE p \in free : Cardinality({q \in free : q < p}) = i - 1]

-----------------------------------------------------------------------------
(* Reading the tree.                                                       *)

\* The cache after reset(): its nodes with parent, device value, host value, lock_ref
\* and hit_count; the sets of leaves eviction starts from; evictable_size_; the free
\* pages of both pools; and the copies under way, oldest first.
Fresh ==
  [node |-> (Root :> [parent |-> Root, value |-> <<>>, host |-> <<>>, lock |-> 1, hits |-> 0]),
   leaves |-> {}, hostLeaves |-> {}, evictable |-> 0,
   device |-> 1 .. set.device, host |-> 1 .. set.host,
   writes |-> <<>>, loads |-> <<>>]

Nodes(c) == DOMAIN c.node \ {Root}
Children(c, n) == {m \in Nodes(c) : c.node[m].parent = n}
KeyLen(c, n) == Len(n) - Len(c.node[n].parent)
Evicted(c, n) == n # Root /\ c.node[n].value = <<>>
Backuped(c, n) == n = Root \/ c.node[n].host # <<>>

\* n and its ancestors below the root.
Chain(c, n) == {m \in Nodes(c) : IsPrefix(m, n)}

\* Walking up from n: the first node with a device value, the first with a backup.
Deepest(S) == CHOOSE m \in S : \A k \in S : Len(k) <= Len(m)
LastDevice(c, n) == Deepest({m \in Chain(c, n) \cup {Root} : ~Evicted(c, m)})
LastHost(c, n) == Deepest({m \in Chain(c, n) \cup {Root} : Backuped(c, m)})

\* The field f of the nodes on the way to n, one after the other.
Along(n, S, f(_)) ==
  FlattenSeq([i \in 1 .. Len(n) |-> IF SubSeq(n, 1, i) \in S THEN f(SubSeq(n, 1, i)) ELSE <<>>])
DeviceIndices(c, n) == Along(n, Chain(c, n), LAMBDA m : c.node[m].value)

\* RadixKey.match from the root, and where the descent along key ends.
Common(m, key) ==
  Max({i \in 0 .. Min({Len(m), Len(key)}) : SubSeq(m, 1, i) = SubSeq(key, 1, i)})
MatchedLen(c, key) == Max({Common(m, key) : m \in DOMAIN c.node})

-----------------------------------------------------------------------------
(* Changing the tree.                                                      *)

\* _update_leaf_status and _update_host_leaf_status of the nodes in S.
LeafStatus(c, S) ==
  [c EXCEPT !.leaves = (@ \ S) \cup
     {n \in S \cap Nodes(c) : /\ ~Evicted(c, n) /\ c.node[n].lock = 0
                              /\ \A m \in Children(c, n) : Evicted(c, m)}]
HostLeafStatus(c, S) ==
  [c EXCEPT !.hostLeaves = (@ \ S) \cup
     {n \in S \cap Nodes(c) : /\ Evicted(c, n) /\ c.node[n].lock = 0
                              /\ \A m \in Children(c, n) : ~Backuped(c, m)}]

Relocked(c, S, d) ==
  HostLeafStatus(LeafStatus([c EXCEPT !.node = [n \in DOMAIN @ |->
    IF n \in S THEN [@[n] EXCEPT !.lock = @ + d] ELSE @[n]]], S), S)

IncLockRef(c, n) ==
  LET S == Chain(c, n)
      first == {m \in S : c.node[m].lock = 0}
  IN  Relocked([c EXCEPT !.evictable = @ - Total(first, LAMBDA m : KeyLen(c, m))], S, 1)

DecLockRef(c, n) ==
  LET S == Chain(c, n)
      final == {m \in S : c.node[m].lock = 1}
  IN  Relocked([c EXCEPT !.evictable = @ + Total(final, LAMBDA m : KeyLen(c, m))], S, -1)

\* _split_node: upper takes the first part of node m, its values, lock and hits.
SplitNode(c, m, upper) ==
  LET x == c.node[m]
      k == Len(upper) - Len(x.parent)
      rest(v) == SubSeq(v, k + 1, Len(v))
  IN  [c EXCEPT !.node =
         (m :> [x EXCEPT !.parent = upper, !.value = rest(@), !.host = rest(@)])
         @@ (upper :> [x EXCEPT !.value = SubSeq(@, 1, Min({k, Len(@)})),
                                !.host = SubSeq(@, 1, Min({k, Len(@)}))])
         @@ @]

\* The tree with a node that ends at path n, which lies on some node's key.
NodeAt(c, n) ==
  IF n \in DOMAIN c.node THEN c
  ELSE SplitNode(c, CHOOSE m \in Nodes(c) : /\ IsStrictPrefix(n, m)
                                            /\ IsPrefix(c.node[m].parent, n), n)

\* What a loop over a heap may have taken when it stops: opens(x, V) says that x is in
\* the heap at some time if V is taken, weight(x) what taking x counts, and k what is
\* asked for.  The priorities of the eviction strategies are any order.
Taken(S, opens(_, _), weight(_), k) ==
  LET sum(V) == Total(V, weight)
      legal(V) == \A x \in V : opens(x, V)
  IN  {V \in SUBSET S :
         /\ legal(V)
         /\ IF sum(V) >= k THEN \E x \in V : sum(V \ {x}) < k /\ legal(V \ {x})
            ELSE \A x \in S \ V : ~opens(x, V)}

\* Mutant of Touched: the parents' places among the leaves are not looked at again.
TouchedOnly(c, V) == V

\* The nodes whose place among the leaves changes with an eviction of V.
Touched(c, V) == V \cup {c.node[x].parent : x \in V}

\* _evict_regular and _evict_backuped of the nodes in V.
EvictNodes(c, V) ==
  LET lost == {x \in V : ~Backuped(c, x)}
      d == [c EXCEPT
             !.node = [n \in DOMAIN @ \ lost |-> IF n \in V THEN [@[n] EXCEPT !.value = <<>>] ELSE @[n]],
             !.device = @ \cup UNION {ToSet(c.node[x].value) : x \in V},
             !.evictable = @ - Total(V, LAMBDA x : KeyLen(c, x))]
  IN  HostLeafStatus(LeafStatus(d, Touched(c, V)), V)

\* evict(k): the caches it may leave.
Evict(c, k) ==
  {EvictNodes(c, V) :
     V \in Taken({n \in Nodes(c) : ~Evicted(c, n) /\ c.node[n].lock = 0},
                 LAMBDA x, W : \/ x \in c.leaves
                               \/ /\ Children(c, x) \cap W # {}
                                  /\ \A m \in Children(c, x) : m \in W \/ Evicted(c, m),
                 LAMBDA x : Len(c.node[x].value), k)}

\* evict_from_tree_cache, and the second try of load_back.
EvictFor(c, k) == IF Cardinality(c.device) >= k THEN {c} ELSE Evict(c, k)

\* evict_host(k).
EvictHost(c, k) ==
  {HostLeafStatus([c EXCEPT
      !.node = [n \in DOMAIN @ \ V |-> @[n]],
      !.host = @ \cup UNION {ToSet(c.node[x].host) : x \in V}],
     Touched(c, V)) :
     V \in Taken({n \in Nodes(c) : Evicted(c, n)},
                 LAMBDA x, W : \/ x \in c.hostLeaves
                               \/ Children(c, x) # {} /\ Children(c, x) \subseteq W,
                 LAMBDA x : Len(c.node[x].host), k)}

-----------------------------------------------------------------------------
(* Copies between the pools.                                               *)

\* Backed-up nodes form a prefix of the tree.
MayBackup(c, n) == Backuped(c, c.node[n].parent)

\* CacheController.write: the copy is launched at once and n stays locked until
\* writing_check sees that it has ended.
Written(c, n) ==
  LET from == c.node[n].value
      to == Alloc(c.host, Len(from))
  IN  IF Cardinality(c.host) < Len(from) THEN c
      ELSE IncLockRef([c EXCEPT !.node[n].host = to, !.host = @ \ ToSet(to),
                                !.writes = Append(@, [node |-> n, from |-> from, to |-> to, done |-> FALSE])], n)

WriteBackup(c, n) ==
  IF ~MayBackup(c, n) THEN {c}
  ELSE IF Cardinality(c.host) >= KeyLen(c, n) THEN {Written(c, n)}
  ELSE {Written(d, n) : d \in EvictHost(c, KeyLen(c, n))}

\* _inc_hit_count.  hits saturates at the threshold it is compared with.
IncHitCount(c, n, chunked) ==
  IF chunked THEN {c}
  ELSE LET d == [c EXCEPT !.node[n].hits = Min({@ + 1, set.hits})]
       IN  IF ~Backuped(d, n) /\ d.node[n].hits >= set.hits THEN WriteBackup(d, n) ELSE {d}

\* load_back of the evicted nodes on the way to n: the cache, the pages and the node
\* the request goes on with.
LoadBack(c, n) ==
  LET anc == LastDevice(c, n)
      path == {m \in Chain(c, n) : Len(m) > Len(anc)}
      from == Along(n, path, LAMBDA m : c.node[m].host)
      k == Len(from)
      none(d) == [cache |-> DecLockRef(d, anc), pages |-> <<>>, node |-> anc]
      loaded(d) ==
        LET to == Alloc(d.device, k)
            e == DecLockRef([d EXCEPT !.device = @ \ ToSet(to)], anc)
        IN  [cache |-> IncLockRef([e EXCEPT
                         !.node = [m \in DOMAIN @ |-> IF m \notin path THEN @[m]
                                     ELSE [@[m] EXCEPT !.value = SubSeq(to,
                                             Len(e.node[m].parent) - Len(anc) + 1, Len(m) - Len(anc))]],
                         !.evictable = @ + k,
                         !.loads = Append(@, [node |-> n, from |-> from, to |-> to, state |-> "queued"])], n),
             pages |-> to, node |-> n]
      locked == IncLockRef(c, anc)
  IN  IF k < set.load THEN {none(locked)}
      ELSE {IF Cardinality(d.device) < k THEN none(d) ELSE loaded(d) : d \in EvictFor(locked, k)}

\* writing_check: every ended write at the head of the queue gives its lock back.
WritingCheck(c) ==
  LET n == Max({k \in 0 .. Len(c.writes) : \A i \in 1 .. k : c.writes[i].done})
  IN  FoldLeft(LAMBDA d, w : DecLockRef(d, w.node),
               [c EXCEPT !.writes = SubSeq(@, n + 1, Len(@))], SubSeq(c.writes, 1, n))

\* loading_check.
LoadingCheck(c) ==
  LET n == Max({k \in 0 .. Len(c.loads) : \A i \in 1 .. k : c.loads[i].state = "done"})
  IN  FoldLeft(LAMBDA d, l : DecLockRef(d, l.node),
               [c EXCEPT !.loads = SubSeq(@, n + 1, Len(@))], SubSeq(c.loads, 1, n))

-----------------------------------------------------------------------------
(* The event loop: requests, admission, batches.                           *)

Init ==
  /\ set \in Settings
  /\ hc = Fresh
  /\ dkv = [p \in 1 .. set.device |-> Garbage] /\ hkv = [p \in 1 .. set.host |-> Garbage]
  /\ stage = [r \in Req |-> "done"] /\ out = [r \in Req |-> 0] /\ upto = [r \in Req |-> 0]
  /\ row = [r \in Req |-> <<>>] /\ prot = [r \in Req |-> 0] /\ last = [r \in Req |-> Root]
  /\ phase = "idle" /\ todo = {} /\ ins = NoInsert /\ oom = FALSE

Ended(r) == IF r \in set.once THEN "gone" ELSE "done"
In(s) == {r \in Req : stage[r] = s}

\* The contents of free pages are of no use to anybody.
Scrub(kv, free) == [p \in DOMAIN kv |-> IF p \in free THEN Garbage ELSE kv[p]]
CacheIs(c) == hc' = c /\ dkv' = Scrub(dkv, c.device) /\ hkv' = Scrub(hkv, c.host)

\* A request comes in, for the first time or again.
HandleGenerateRequest(r) ==
  /\ phase = "idle" /\ stage[r] = "done"
  /\ stage' = [stage EXCEPT ![r] = "waiting"]
  /\ out' = [out EXCEPT ![r] = 0]
  /\ UNCHANGED <<set, hc, dkv, hkv, upto, row, prot, last, phase, todo, ins, oom>>

\* flush_cache on an idle server: copies to the host that are already launched
\* still run, without anybody waiting for them (Root in place of their node).
\* Bound: the copies of one flush have run before the next.
FlushCache ==
  /\ phase = "idle" /\ In("done") \cup In("gone") = Req
  /\ \A i \in DOMAIN hc.writes : hc.writes[i].node # Root
  /\ LET launched == SelectSeq(hc.writes, LAMBDA w : ~w.done)
     IN  CacheIs([Fresh EXCEPT !.writes =
           [i \in DOMAIN launched |-> [launched[i] EXCEPT !.node = Root]]])
  /\ UNCHANGED <<set, reqs, phase, todo, ins, oom>>

\* check_hicache_events at the head of _get_new_batch_prefill_raw.
CheckHicacheEvents ==
  /\ phase = "idle"
  /\ CacheIs(LoadingCheck(WritingCheck(hc)))
  /\ phase' = "admit"
  /\ UNCHANGED <<set, reqs, todo, ins, oom>>

\* rem_total_tokens, with the share of the running requests' future tokens at its least.
RemTotal(c) ==
  Cardinality(c.device) + c.evictable
    - Total(In("batch"), LAMBDA r : upto[r] - Len(row[r]) + 1
                                    + (IF upto[r] = Len(FillIds(r)) THEN MaxNew(r) ELSE 0))

\* rem_chunk_tokens.
RemChunk == set.chunk - Total(In("batch"), LAMBDA r : upto[r] - Len(row[r]))

\* Joining the batch with n more tokens; a spent chunk budget ends the round.
Joined(r, len, n) ==
  /\ stage' = [stage EXCEPT ![r] = "batch"]
  /\ upto' = [upto EXCEPT ![r] = len + n]
  /\ phase' = IF n >= RemChunk THEN "launch" ELSE phase

\* add_chunked_req: the prompt that was cut goes on, whatever memory is left.
AddChunkedReq(r) ==
  /\ phase = "admit" /\ stage[r] = "chunked"
  /\ LET room == Min({RemChunk, RemTotal(hc)})
     IN  Joined(r, Len(row[r]),
                Min({Len(FillIds(r)) - Len(row[r]), IF room > 0 THEN room ELSE RemChunk}))
  /\ UNCHANGED <<set, hc, dkv, hkv, out, row, prot, last, todo, ins, oom>>

\* init_next_round_input and add_one_req: match, lock, load back, admit.  A request
\* that is refused ends the round; when nothing could be loaded the prompt may be too
\* long after all for a batch that has other requests (rem_input_tokens).
AddOneReq(r) ==
  /\ phase = "admit" /\ stage[r] = "waiting"
  /\ In("chunked") = {} /\ Cardinality(In("batch")) < MaxBatch
  /\ LET key == SubSeq(Text(r), 1, Len(FillIds(r)) - 1)
         n == SubSeq(key, 1, MatchedLen(hc, key))
         c == NodeAt(hc, n)
         dev == LastDevice(c, n)
         prefix == DeviceIndices(c, n)
         locked == IncLockRef(c, dev)
         total == Len(FillIds(r)) - Len(prefix) + MaxNew(r) - out[r] + 1
     IN  IF total >= RemTotal(c) \/ total >= RemTotal(locked)
         THEN CacheIs(c) /\ phase' = "launch" /\ UNCHANGED reqs
         ELSE \E l \in IF Evicted(c, n) THEN LoadBack(locked, LastHost(c, n))
                       ELSE {[cache |-> locked, pages |-> <<>>, node |-> dev]} :
                \/ /\ Evicted(c, n) /\ l.pages = <<>> /\ In("batch") # {}
                   /\ CacheIs(DecLockRef(l.cache, dev)) /\ phase' = "launch" /\ UNCHANGED reqs
                \/ /\ CacheIs(DecLockRef(IncLockRef(l.cache, l.node), dev))
                   /\ row' = [row EXCEPT ![r] = prefix \o l.pages]
                   /\ prot' = [prot EXCEPT ![r] = Len(row'[r])]
                   /\ last' = [last EXCEPT ![r] = l.node]
                   /\ Joined(r, Len(row'[r]), Min({Len(FillIds(r)) - Len(row'[r]), RemChunk}))
                   /\ UNCHANGED out
  /\ UNCHANGED <<set, todo, ins, oom>>

\* Pages for the requests of R, need[r] each, in the order of the batch.
Grown(c, R, need) ==
  LET sum(Q) == Total(Q, LAMBDA q : need[q])
      pages == Alloc(c.device, sum(R))
      before(r) == sum({q \in R : q < r})
  IN  [r \in Req |-> IF r \in R THEN row[r] \o SubSeq(pages, before(r) + 1, before(r) + need[r])
                     ELSE row[r]]

\* The end of _get_new_batch_prefill_raw: start_loading, then alloc_for_extend.
PrepareForExtend ==
  /\ phase \in {"admit", "launch"} /\ In("chunked") = {}
  /\ LET need == [r \in Req |-> upto[r] - Len(row[r])]
         k == Total(In("batch"), LAMBDA r : need[r])
         c == [hc EXCEPT !.loads = [i \in DOMAIN @ |-> IF @[i].state = "queued"
                                       THEN [@[i] EXCEPT !.state = "started"] ELSE @[i]]]
     IN  IF In("batch") = {} THEN phase' = "decode" /\ UNCHANGED <<hc, dkv, hkv, row, oom>>
         ELSE \E d \in EvictFor(c, k) :
                IF Cardinality(d.device) < k THEN oom' = TRUE /\ UNCHANGED <<hc, dkv, hkv, row, phase>>
                ELSE /\ row' = Grown(d, In("batch"), need)
                     /\ CacheIs([d EXCEPT !.device = @ \ ToSet(Alloc(@, k))])
                     /\ phase' = "forward" /\ UNCHANGED oom
  /\ UNCHANGED <<set, stage, out, upto, prot, last, todo, ins>>

\* Mutant of LoadsDone: the forward pass does not wait for its layers.
LoadsDoneNot == TRUE

\* The forward pass waits for the loads of its batch, layer by layer.
LoadsDone == \A i \in DOMAIN hc.loads : hc.loads[i].state # "started"

\* The KV a forward pass of r computes behind the first n tokens of its row.
Computed(r, n, rw, kv) ==
  LET right == \A j \in 1 .. n : kv[rw[j]] = SubSeq(Text(r), 1, j)
  IN  [i \in n + 1 .. Len(rw) |-> IF right THEN SubSeq(Text(r), 1, i) ELSE Garbage]

\* The pages after a forward pass of R, whose rows hold KV up to from[r].
AfterForward(R, from, rw, kv) ==
  LET new == UNION {{r} \X (from[r] + 1 .. Len(rw[r])) : r \in R}
  IN  [p \in DOMAIN kv |->
         IF \E x \in new : rw[x[1]][x[2]] = p
         THEN LET x == CHOOSE x \in new : rw[x[1]][x[2]] = p
              IN  Computed(x[1], from[x[1]], rw[x[1]], kv)[x[2]]
         ELSE kv[p]]

ForwardExtend ==
  /\ phase = "forward" /\ LoadsDone
  /\ dkv' = AfterForward(In("batch"), prot, row, dkv)
  /\ phase' = "result" /\ todo' = In("batch")
  /\ UNCHANGED <<set, hc, hkv, reqs, ins, oom>>

Finished(r, n) == n = MaxNew(r)

\* process_batch_result: a token, unless the prompt was cut, and the call of
\* cache_finished_req, or of cache_unfinished_req after a prefill.
ProcessResult(r) ==
  /\ phase = "result" /\ ins = NoInsert /\ r \in todo
  /\ LET cut == upto[r] < Len(FillIds(r))
     IN  /\ out' = [out EXCEPT ![r] = IF cut THEN @ ELSE @ + 1]
         /\ ins' = IF stage[r] = "running" /\ ~Finished(r, out'[r]) THEN NoInsert
                   ELSE [req |-> r, at |-> Root, prefix |-> 0, chunked |-> cut]
  /\ todo' = todo \ {r}
  /\ UNCHANGED <<set, hc, dkv, hkv, stage, upto, row, prot, last, phase, oom>>

ResultsDone ==
  /\ phase = "result" /\ ins = NoInsert /\ todo = {}
  /\ phase' = "idle"
  /\ UNCHANGED <<set, hc, dkv, hkv, reqs, todo, ins, oom>>

-----------------------------------------------------------------------------
(* insert(), and what cache_unfinished_req and cache_finished_req do with it. *)

Key(r) == SubSeq(Text(r), 1, upto[r])

\* Mutant of Matched: a node that was refilled counts as found.
MatchedAll(c, n) == KeyLen(c, n)

\* What a node on the way adds to prefix_len, whose pages the request gives back.
Matched(c, n) == IF Evicted(c, n) THEN 0 ELSE KeyLen(c, n)

\* One turn of the loop of insert(): the next node on the way is refilled when it is
\* evicted, and hit otherwise; behind the last one a leaf takes the rest.
InsertStep ==
  /\ ins # NoInsert /\ ins.at # Key(ins.req)
  /\ LET r == ins.req
         next == {m \in Children(hc, ins.at) : Common(m, Key(r)) > Len(ins.at)}
         n == IF next = {} THEN Key(r)
              ELSE SubSeq(Key(r), 1, Common(CHOOSE m \in next : TRUE, Key(r)))
         c == IF next = {} THEN hc ELSE NodeAt(hc, n)
         pages == SubSeq(row[r], Len(ins.at) + 1, Len(n))
         leaf == [parent |-> ins.at, value |-> pages, host |-> <<>>, lock |-> 0, hits |-> 0]
         refilled == HostLeafStatus(LeafStatus(
                       [c EXCEPT !.node[n].value = pages, !.evictable = @ + Len(pages)],
                       {n, ins.at}), {n})
         added == LeafStatus([c EXCEPT !.node = (n :> leaf) @@ @, !.evictable = @ + Len(pages)],
                             {n, ins.at})
     IN  /\ \E d \in IF next = {} THEN IncHitCount(added, n, ins.chunked)
                     ELSE IF Evicted(c, n) THEN {refilled}
                     ELSE IncHitCount(c, n, ins.chunked) : CacheIs(d)
         /\ ins' = [ins EXCEPT !.at = n, !.prefix = @ + IF next = {} THEN 0 ELSE Matched(c, n)]
  /\ UNCHANGED <<set, reqs, phase, todo, oom>>

\* The rest of cache_finished_req and cache_unfinished_req: the duplicates are freed,
\* and a request that goes on reads its row from the tree and moves its lock.
InsertEnd ==
  /\ ins # NoInsert /\ ins.at = Key(ins.req)
  /\ LET r == ins.req
         c == [hc EXCEPT !.device = @ \cup ToSet(SubSeq(row[r], prot[r] + 1, ins.prefix))]
         node == LastDevice(c, Key(r))
     IN  IF Finished(r, out[r])
         THEN /\ CacheIs(DecLockRef(c, last[r]))
              /\ row' = [row EXCEPT ![r] = <<>>] /\ prot' = [prot EXCEPT ![r] = 0]
              /\ last' = [last EXCEPT ![r] = Root]
              /\ upto' = [upto EXCEPT ![r] = 0]
              /\ stage' = [stage EXCEPT ![r] = Ended(r)]
         ELSE /\ CacheIs(IncLockRef(DecLockRef(c, last[r]), node))
              /\ row' = [row EXCEPT ![r] = DeviceIndices(c, Key(r))]
              /\ prot' = [prot EXCEPT ![r] = Len(row'[r])]
              /\ last' = [last EXCEPT ![r] = node]
              /\ stage' = [stage EXCEPT ![r] = IF ins.chunked THEN "chunked" ELSE "running"]
              /\ UNCHANGED upto
  /\ ins' = NoInsert
  /\ UNCHANGED <<set, out, phase, todo, oom>>

-----------------------------------------------------------------------------
(* Decode, and the copies.                                                 *)

\* release_req: cache_finished_req without insert.
ReleaseReq(c, r) ==
  DecLockRef([c EXCEPT !.device = @ \cup ToSet(SubSeq(row[r], prot[r] + 1, Len(row[r])))], last[r])

\* update_running_batch: writing_check, check_decode_mem, and a step of every running
\* request; or a request is retracted, the last one aborted.
UpdateRunningBatch ==
  /\ phase = "decode"
  /\ LET R == In("running")
         k == Cardinality(R)
     IN  IF R = {} THEN phase' = "idle" /\ UNCHANGED <<hc, dkv, hkv, reqs, todo>>
         ELSE \E d \in EvictFor(WritingCheck(hc), k) :
                IF Cardinality(d.device) >= k
                THEN LET rw == Grown(d, R, [r \in Req |-> 1])
                     IN  /\ row' = rw
                         /\ hc' = [d EXCEPT !.device = @ \ ToSet(Alloc(@, k))]
                         /\ dkv' = Scrub(AfterForward(R, [r \in Req |-> Len(row[r])], rw, dkv), hc'.device)
                         /\ hkv' = Scrub(hkv, hc'.host)
                         /\ upto' = [r \in Req |-> IF r \in R THEN Len(rw[r]) ELSE upto[r]]
                         /\ phase' = "result" /\ todo' = R
                         /\ UNCHANGED <<stage, out, prot, last>>
                ELSE \E r \in R :
                         /\ CacheIs(ReleaseReq(d, r))
                         /\ stage' = [stage EXCEPT ![r] = IF k = 1 THEN Ended(r) ELSE "waiting"]
                         /\ row' = [row EXCEPT ![r] = <<>>] /\ prot' = [prot EXCEPT ![r] = 0]
                         /\ last' = [last EXCEPT ![r] = Root]
                         /\ upto' = [upto EXCEPT ![r] = 0]
                         /\ UNCHANGED <<out, phase, todo>>
  /\ UNCHANGED <<set, ins, oom>>

Copied(kv, to, from, src) ==
  [p \in DOMAIN kv |-> IF \E i \in DOMAIN to : to[i] = p
                       THEN src[from[CHOOSE i \in DOMAIN to : to[i] = p]] ELSE kv[p]]

\* The write stream runs its oldest copy.
WriteStream ==
  \E i \in DOMAIN hc.writes :
    /\ ~hc.writes[i].done /\ \A j \in 1 .. i - 1 : hc.writes[j].done
    /\ LET w == hc.writes[i]
       IN  /\ hkv' = Copied(hkv, w.to, w.from, dkv)
           /\ hc' = [hc EXCEPT !.writes = IF w.node = Root THEN Tail(@) ELSE [@ EXCEPT ![i].done = TRUE]]
    /\ UNCHANGED <<set, dkv, reqs, phase, todo, ins, oom>>

\* The load stream ends the loads of a batch.
LoadStream ==
  /\ ~LoadsDone
  /\ LET started == SelectSeq(hc.loads, LAMBDA l : l.state = "started")
     IN  dkv' = FoldLeft(LAMBDA kv, l : Copied(kv, l.to, l.from, hkv), dkv, started)
  /\ hc' = [hc EXCEPT !.loads = [i \in DOMAIN @ |-> IF @[i].state = "started"
                                   THEN [@[i] EXCEPT !.state = "done"] ELSE @[i]]]
  /\ UNCHANGED <<set, hkv, reqs, phase, todo, ins, oom>>

Next ==
  \/ \E r \in Req : HandleGenerateRequest(r) \/ AddChunkedReq(r) \/ AddOneReq(r) \/ ProcessResult(r)
  \/ FlushCache \/ CheckHicacheEvents \/ PrepareForExtend \/ ForwardExtend \/ ResultsDone
  \/ InsertStep \/ InsertEnd \/ UpdateRunningBatch
  \/ WriteStream \/ LoadStream

Spec == Init /\ [][Next]_vars

-----------------------------------------------------------------------------
(* Properties.                                                             *)

Stages == {"done", "waiting", "batch", "chunked", "running", "gone"}
Phases == {"idle", "admit", "launch", "forward", "result", "decode"}

TypeOK ==
  /\ hc.node \in [DOMAIN hc.node -> [parent : DOMAIN hc.node, value : Seq(1 .. set.device),
                                     host : Seq(1 .. set.host), lock : Nat, hits : 0 .. 2]]
  /\ hc.leaves \cup hc.hostLeaves \subseteq Nodes(hc) /\ hc.evictable \in 0 .. set.device
  /\ stage \in [Req -> Stages] /\ phase \in Phases /\ todo \subseteq Req
  /\ \A r \in Req : /\ row[r] \in Seq(1 .. set.device) /\ prot[r] \in 0 .. Len(row[r])
                    /\ last[r] \in DOMAIN hc.node

\* Private pages of a request.
Private(r) == SubSeq(row[r], prot[r] + 1, Len(row[r]))

\* The pages of a pool are the free ones, those in nodes and those of requests,
\* without overlap: counted one by one, they are as many as the pool has.
Partition(pages, free, value, private) ==
  LET union(f) == UNION {ToSet(f[x]) : x \in DOMAIN f}
      count(f) == Total(DOMAIN f, LAMBDA x : Len(f[x]))
  IN  /\ free \cup union(value) \cup union(private) = pages
      /\ Cardinality(free) + count(value) + count(private) = Cardinality(pages)

\* Every device page is free, in one node or private to one request, and every host
\* page is free or in one node, whatever was evicted, refilled, split, loaded and freed
\* as a duplicate meanwhile; and no copy under way touches a free page, unless
\* the cache was flushed under it.
PoolsExact ==
  /\ TypeOK
  /\ ins = NoInsert =>
       Partition(1 .. set.device, hc.device, [n \in Nodes(hc) |-> hc.node[n].value],
                 [r \in Req |-> Private(r)])
  /\ Partition(1 .. set.host, hc.host, [n \in Nodes(hc) |-> hc.node[n].host], <<>>)
  /\ \A i \in DOMAIN hc.writes : hc.writes[i].node # Root =>
       /\ ToSet(hc.writes[i].from) \cap hc.device = {}
       /\ ToSet(hc.writes[i].to) \cap hc.host = {}
  /\ \A i \in DOMAIN hc.loads : /\ ToSet(hc.loads[i].to) \cap hc.device = {}
                                /\ ToSet(hc.loads[i].from) \cap hc.host = {}

\* Pages a copy has still to fill.
Arriving(copies, done(_)) ==
  UNION {ToSet(copies[i].to) : i \in {j \in DOMAIN copies : ~done(copies[j])}}

\* Device and host values hold the KV of the node's own path once the copy that fills
\* them has ended, and so does every page a request reads: asynchronous copies,
\* eviction, reuse of pages and flushes never let a request attend to another text.
KVCorrect ==
  LET loading == Arriving(hc.loads, LAMBDA l : l.state = "done")
      writing == Arriving(hc.writes, LAMBDA w : w.done)
      right(kv, pages, late, path, n) ==
        \A i \in DOMAIN pages : pages[i] \in late \/ kv[pages[i]] = SubSeq(path, 1, n + i)
  IN  /\ \A n \in Nodes(hc) :
           /\ right(dkv, hc.node[n].value, loading, n, Len(hc.node[n].parent))
           /\ right(hkv, hc.node[n].host, writing, n, Len(hc.node[n].parent))
      /\ \A r \in In("running") \cup In("chunked") : right(dkv, row[r], {}, Text(r), 0)
      /\ \A r \in In("batch") :
           right(dkv, SubSeq(row[r], 1, prot[r]), IF phase = "result" THEN {} ELSE loading, Text(r), 0)

\* The tree stays one whose evicted nodes can be loaded back and whose memory can be
\* evicted: a node without device value has a backup, no lock, and no descendant on the
\* device; backups have no gap above them; lock_ref counts the requests and
\* the copies below; the leaf sets and the evictable size are what they stand for;
\* and no allocation fails that the admission counted on.
TreeExact ==
  /\ \A n \in Nodes(hc) :
       /\ Evicted(hc, n) => Backuped(hc, n) /\ hc.node[n].lock = 0
       /\ Evicted(hc, n) => \A m \in Children(hc, n) : Evicted(hc, m)
       /\ Backuped(hc, n) => Backuped(hc, hc.node[n].parent)
       /\ hc.node[n].lock =
            Cardinality({r \in Req : stage[r] \in {"batch", "chunked", "running"} /\ IsPrefix(n, last[r])})
            + Cardinality({i \in DOMAIN hc.writes : IsPrefix(n, hc.writes[i].node)})
            + Cardinality({i \in DOMAIN hc.loads : IsPrefix(n, hc.loads[i].node)})
  /\ hc = HostLeafStatus(LeafStatus(hc, Nodes(hc)), Nodes(hc))
  /\ hc.evictable = Total({n \in Nodes(hc) : hc.node[n].lock = 0}, LAMBDA n : Len(hc.node[n].value))
  /\ ~oom
=============================================================================
