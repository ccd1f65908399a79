# Speculative decoding on paged KV memory: TLA+ models and proofs

The repository serves language models with speculative decoding on Ascend NPUs
and GPUs: a fork of SGLang (`src/sglang`) with block speculation (DFLASH), the
NPU kernels it calls (`src/sgl-kernel-npu`) and the training of the draft models
(`src/SpecForge`). What can go silently wrong in it is the bookkeeping around
the numeric code: which request owns which KV page, what a page holds, who is
in which batch, whose result is applied to whom, and whether every request is
served. This project models that bookkeeping. Paths below are relative to
`src/sglang/python/sglang/srt/`.

## 1. Inventory

| Component | State | Operations | Interacts with |
|---|---|---|---|
| Paged allocator, `mem_cache/allocator.py`, `hardware_backend/npu/allocator_npu.py` | `free_pages`, `release_pages`, `free_group` | `alloc_extend`, `alloc_decode`, `free`, `free_group_begin/end`, `backup_state`, `restore_state`, `clear` | called by the slot helpers, the prefix cache and the DFLASH worker |
| Radix prefix cache, `mem_cache/radix_cache.py` | tree of token paths with KV indices, `lock_ref`, `evictable_size_`, `evictable_leaves`, KV events | `match_prefix`, `insert`, `cache_unfinished_req`, `cache_finished_req`, `evict`, `inc/dec_lock_ref`, `reset` | takes over pages of rows, gives pages back to the allocator |
| Hierarchical cache, `mem_cache/hiradix_cache.py`, `managers/cache_controller.py` | the tree with host values and hit counts, the host pool, copies under way | `write_backup`, `load_back`, `writing_check`, `loading_check`, `evict`, `evict_host`, `insert` | replaces the radix cache; copies run on their own streams |
| Slot helpers and rows, `mem_cache/common.py`, `mem_cache/memory_pool.py` | `req_to_token` | `alloc_for_extend`, `evict_from_tree_cache`, `release_kv_cache` | glue of scheduler, cache and allocator |
| Prefill admission, `managers/schedule_policy.py` | `PrefillAdder`'s budgets and `can_run_list` | `add_chunked_req`, `add_one_req`, `budget_state` | locks cache nodes, reads the available and evictable size |
| Scheduler, `managers/scheduler.py` | `waiting_queue`, `running_batch`, `last_batch`, `chunked_req`, `batch_is_full`, `result_queue`, `_engine_paused` | `handle_generate_request`, `abort_request`, `pause_generation`, `continue_generation`, `get_next_batch_to_run`, `update_running_batch`, the event loops | everything above |
| Batches and requests, `managers/schedule_batch.py`, `scheduler_output_processor_mixin.py` | `prefix_indices`, `fill_ids`, `output_ids`, `kv_committed_len`, `kv_allocated_len`, `cache_protected_len`, `to_finish` | `prepare_for_extend`, `filter_batch`, `merge_batch`, `retract_decode`, `retract_all`, `process_batch_result_*` | scheduler, cache |
| DFLASH, `speculative/dflash_worker.py`, `dflash_info.py` | `DFlashDraftInput` (draft state per batch index), draft KV that shares the slots of the target KV | draft block, `prepare_for_verify`, `verify`, draft KV append | allocator, rows |
| Overlap scheduling, `managers/overlap_utils.py` and the scheduler | ring of future tokens, results still to be processed | `alloc_future_indices`, `resolve_future`, `store_to_map`, `event_loop_overlap` | a batch is launched before the results of the last one are known |
| Adaptive speculation, `speculative/adaptive_*.py`, `eagle_worker.py` | smoothed accepted length, current tier, a runtime state per tier | `update`, `on_verify_complete`, `build_adaptive_runtime_state`, `apply_runtime_state` | changes the draft length that memory check, draft, verify and rows read |
| Prefill/decode disaggregation, `disaggregation/` | bootstrap, in-flight, prealloc, transfer and retracted queues; `request_status`, metadata slots | `pop_bootstrapped`, `send_kv_chunk`, `pop_preallocated`, `pop_transferred`, transfer worker, bootstrap and decode threads, heartbeats | two servers, several threads, messages and RDMA writes |
| Not modelled | | | see section 9 |

Hard to test are the orders in which many legal steps meet: arrivals, aborts and
pauses between any two iterations; prompts that share prefixes and finish at
different times; chunked prefills; retraction and eviction when the pool is full;
an end of text in the middle of an accepted block; draft allocations that
are rolled back; results applied one iteration late; copies that run while the
tree changes; threads, lost messages, timeouts and crashes between two servers.
`PROJECT.json` lists these hazards at their lines with the properties that
would catch them.

What makes each component correct:

* allocator: every page in one place, rows in page layout, `None` only when the
  pool is really exhausted, no index outside the free list;
* memory (cache, rows, allocator): one owner per page, no leak, what a row reads
  from the cache is cached and locked, the cache is closed under prefixes;
* trees: locks, sizes and leaf sets equal what they count; eviction is complete;
  asynchronous copies never show a request another text's KV;
* admission and retraction: no allocation ever fails, one chunked request, FCFS;
* speculation: the KV of committed and of cached tokens is that of the text, in the
  target and in the draft model; draft states stay with their requests; all
  stages of a round agree on the number of drafts;
* overlap: every result is applied once, to the request it belongs to, and a
  launched batch writes only into slots its requests own;
* disaggregation: slots and pages come back, no thread reads a room that is
  gone, one answer per request and server, own KV only;
* scheduler: a request is in one place, rows belong to batched requests, every
  request is answered.

## 2. Modules

* **PagedAllocator** - the allocator at slot level. `free_pages` and
  `release_pages` are lists, since the kernel addresses them by offset.
  `NewPages`, `ExtendSlots`, `DecodeSlot` are the arithmetic of
  `get_num_new_pages`, `alloc_extend_kernel` and `alloc_decode_kernel`.
  The variable `backend` selects the merge tests and the gather of the Ascend
  variant. `Ascending` is `torch.sort` (and `torch.unique`, of a set), by rank.
* **KVMemory** - the memory the requests share, at page level: `free`, `cache`,
  `table` (rows), `prot` (`cache_protected_len`), `pin` (`last_node` locks). The
  radix tree is the set of its cached paths. `MemSpec` is the abstract
  specification of how a scheduler may use `Evict`, `Lock`, `Grow`, `Trim`,
  `CacheUnfinished`, `ReleaseInsert` and `ReleaseDrop`.
* **SpecScheduler** - `event_loop_normal` with DFLASH over KVMemory. `phase` is the
  place in the loop body: `StashChunked`, `MergeLastBatch`, `PlanPrefill`,
  `AddOneReq`, `FinishAdder`, `PrefillForward`, `PrefillResult` for a prefill;
  `UpdateRunningBatch`, `CheckDecodeMem`, `Retract`, `AbortLast`, `DraftBlock`,
  `PrepareForVerify`, `Verify`, `DecodeResult` for a speculative decode step.
  `EvictFromTreeCache` is a call inside another operation: the caller's next
  step is in `goal.then`, nothing can happen in between. `kv` and `dkv` say what text
  each slot's target and draft KV was computed from. It implements `MemSpec`.
* **RadixTree** - the tree itself: nodes with keys, values and `lock_ref`, splits,
  the incremental `evictable_size_` and `protected_size_`, the set of evictable
  leaves, `evict()` as a loop over the heap it fills at its start, the KV events
  with their block hashes. `ImplementsMemory` instantiates KVMemory with the
  paths of the nodes (`CacheView`): every behaviour of the tree is one of
  `MemSpec`, so the theorems hold of it.
* **OverlapLoop** - `event_loop_overlap` with spec v2: `results` is
  `result_queue`, processed after the next batch is launched; `committed` and
  `alloc` lag and lead (`kv_committed_len`, `kv_allocated_len`); both pause
  modes, abort, retraction, chunked prefill, batches that must not overlap
  (grammar, consecutive prefills). `PrepareForExtend` and `PrepareForDecode` are
  what a new batch takes from the pool.
* **FutureMap** - the ring of future tokens: `alloc_future_indices`,
  `store_to_map`, `resolve_future`, with filter and merge of the batches that
  carry the indices.
* **AdaptiveSpec** - the controller of the number of drafts: smoothed accepted
  length in quarters of a draft, warm-up, interval, hysteresis; start-up that captures each
  tier under an override of worker state; a round as memory check, draft and verify.
  `sharp` selects `ema_alpha = 1`; otherwise any value between old and new is taken.
* **Disagg** - a prefill and a decode server of the mooncake backend: both
  schedulers' queues, the status tables, the transfer worker, the bootstrap,
  decode and heartbeat threads, messages in flight, aborts and faults. No thread takes a
  lock for these tables, so each access to one is a step: `wk`, `bt`, `dt` and `hb`
  say where a thread is, and `UpdateStep` is `update_status` in a thread, as its test whether
  the room is there, its read of the old status and its store. A read that meets a
  room cleared since its test raises, and the thread ends (`"dead"`). The schedulers
  call the same function (`UpdateStatus`) in one step: they alone clear rooms,
  so the room cannot go away under them. What another thread stores in between matters in
  one place, `PrefillAdd`, which has it. `Unreached` is a receiver whose
  bootstrap information does not come. `scen` fixes which faults a behaviour may have.
* **DecodeQueues** - the decode server's memory budget: preallocation, transfer,
  prebuilt batches, retraction and resumption. `Polled` are the requests of the queue that
  are polled for an outcome: none while all of them are ready.
* **HiCache** - the hierarchical cache in the scheduler's loop, see its header.
  `WriteStream` and `LoadStream` are the copy streams; `dkv` and `hkv` say what
  each device and host page holds. `insert()` is one step per turn of its loop, so that
  the streams interleave with it.
* **Collections** - queues, loops and sums written as functions (`Set`, `Only`, `Without`,
  `Iterated`, `Total`), so that the modules that use them can be proved about.
* **CollectionProofs** - lemmas about them: what a filter keeps, what a sum is
  after one term changes or a set is split, cardinalities, rounding up to pages.
* **PagedAllocatorProofs, SpecSchedulerProofs, RadixTreeProofs, DisaggProofs,
  DecodeQueuesProofs, OverlapLoopProofs** - theorems about the module of that name
  (section 6); SpecSchedulerProofs begins with those about KVMemory.
* **WorkerProofs** - theorems about FutureMap and AdaptiveSpec, what a worker keeps from
  one batch to the next.
* **MC...** - instances for TLC. **MCWorker** composes AdaptiveSpec and FutureMap: tiers
  move under the normal loop, futures exist under the overlap loop, so a server
  (`overlap`) has one of them.

Page numbers instead of slots above the allocator are justified by `RowLayout`
and `PageConservation` of PagedAllocator: position `i` of a row sits in slot
`i % PageSize` of the row's page `i \div PageSize`.

Choices left open: how many drafts are accepted (any number per request), the
admission estimate (`new_token_ratio` in 0..1 gives any sum between 0 and the
clipped remaining tokens), which unlocked leaves an eviction takes (any policy),
when clients act. Which free pages an allocation takes is a parameter or the
lowest ones, to which the properties are indifferent; the theorems cover every
choice. Contents of freed pages are reset to garbage (`Scrub`), the worst case
for the KV properties. An allocation that fails raises in the code and ends the
scheduler process; the models stop in a state the properties exclude.

## 3. Runs

| Run | Bounds | States | Shows |
|---|---|---|---|
| `alloc` | 4 pages of 2 slots, 2 rows up to 5 tokens, up to 3 tokens per call, `need_sort`, both backends | 81 134 | `PageConservation`, `RowLayout`, `NoSpuriousNone`, `DraftBlockPrivate` |
| `alloc_npu_gather` | the same without `need_sort`, Ascend | | **violation** of `DecodeGatherInRange` (section 4) |
| `spec_memory` | 3 requests with shared prefixes, 6 pages of 2, block 5, chunk 4, an abort, pauses that retract | 492 795 | `BatchesExact`, `PageOwnership`, `ProtectedIsCached`, `CachedKVCorrect`, `CommittedKVCorrect`, `NeverOOM`, `SpecAligned`, and `MemSpec` |
| `spec_live` | prompts of 3, 5 and 9, 17 pages of 1, block 9, chunk 4, an abort, pauses in place | 10 380 | `PrefixClosed`, `OneChunkedReq`, `FirstComeFirstServed`, `EventuallyAnswered` |
| `spec_full` | 2 requests, 5 pages of 2 | | **violation** of `EventuallyAnswered` (section 4) |
| `radix` | 2 requests that share a page and a half, 4 pages of 2 | 87 289 | `LockRefExact`, `SizesExact`, `EvictComplete`, `EventsMirrorCache`, `ImplementsMemory` |
| `overlap` | 3 requests, 6 pages of 2, 2 drafts, chunk 2, 2 rows, one abort, one grammar, both pauses | 310 577 | `CommittedLags`, `ResultsApplied`, `WritesAllocated`, `PoolExact`, `EventuallyAnswered` |
| `worker` | ring: 3 requests, 2 running, prompts in up to 4 chunks; tiers 1, 3 and 7 started at, between and above them, 2 requests | 1 140 561 | `ResolvesOwnToken`, `StagesAgree`, `Adapts` |
| `disagg` | 2 requests, 1 slot per side, 6 fault scenarios | 188 103 | `Ownership`, `PollSafe`, `AnsweredOnce`, `TransfersIntact`, `Answers` |
| `decode` | 3 requests, 6 pages of 2, reserve 1, 2 loads, an abort | 21 446 | `PoolExact`, `NeverFull`, `EventuallyAnswered` |
| `decode_stuck` | 3 requests, 15 pages of 1, reserve 4 | | **violation** of `EventuallyAnswered` (section 4) |
| `hicache` | 3 servers with 2 or 3 requests sent again and again, pools of 6 and 7 or 9 and 10 pages | 309 470 | `PoolsExact`, `KVCorrect`, `TreeExact` |

Why the bounds are enough to be interesting. `alloc`: a row of 5 tokens on pages
of 2 has full pages, a partial one, and every crossing; 4 pages are exhausted by
two rows, and 3 tokens span all three parts of the extend kernel.
`spec_memory`: request 2 continues the text of request 1 (a second turn),
request 3 shares one page with them, the pool holds neither all three nor the
blocks of two requests at all times, so retraction, eviction, duplicates in the
cache, cut prompts and the abort of the last request all occur. `spec_live`: a
block of 9 makes two running requests exceed the pool. `radix`: the
common page and a half forces splits under locks. `overlap`: the pool holds less than
two requests with two blocks in flight; two rows for three requests make rows change hands.
`worker` has the exact ring size the code computes. `disagg`: with
one slot and one page per side a request takes over what the other one left, and
one request alone meets every fault in every order with the accesses of the threads.
`decode`: in the first load (prompts 3, 3, 1, answers 2, 6, 1) a request is retracted
while another is in transfer, so that `process_decode_queue` returns early beside a
transfer that ends; in the second the prompts fill the pool and wait for each other.
`hicache`: the first server's texts share a beginning and exceed both pools
(eviction on both tiers, reload, split), the second one batches a request whose
load is refused with others, the third retracts.

Every action of every next-state relation is taken in a passing run. Requests
are finitely many and generate at most their maximum, except in `radix` and
`hicache`, where they come again without end and the state space is finite all
the same. Configuration values (`ClipMaxNew`, `RetractSteps`, `ChunkSize`,
`MaxPrefillTokens`, the load threshold, intervals) are scaled to the pools.
`AcceptedAssumption` of SpecScheduler is what `validate_input_length` and
`init_req_max_new_tokens` let into the queue.

Every property of a passing run has a mutant in `PROJECT.json`: a version of a
mapped definition, next to it in its module, with a plausible bug that breaks
the property.

**Fairness.** Weak fairness of the loop's steps: the scheduler process keeps running
its loop, and no step blocks. `spec_live` and `overlap` have pauses; nobody is
obliged to end one, and the properties do not ask a paused server for an
answer. `WorkerSpec` assumes that requests keep coming to the adaptive server. Disagg assumes
in addition that the threads of prefill go on until they raise, that the metadata
messages that are not lost are handled and that timers expire where the scenario has timeouts.
It assumes nothing of the decode server's threads, which may be dead, nor of clients, faults
and losses: the timeouts end what they leave. DecodeQueues assumes that
each handshake and transfer ends, well or not, which is what Disagg shows. No
fairness is assumed of accepted lengths (each verify yields at least one token)
or of estimates.

## 4. Findings

1. **Ascend `alloc_decode` may index past the free list**
   (`hardware_backend/npu/allocator_npu.py:129`). It gathers
   `free_pages[start_new_pages]` for every request and multiplies by 0 where no
   page is needed. If the requests before it in the batch take the last free pages,
   the index of such a request is `len(free_pages)`. The guard above (`if
   num_new_pages > len(self.free_pages): return None`) admits this, and
   `mem_cache/common.py:504` ("assume each request needs a new page") only evicts;
   it guarantees nothing when nothing is evictable.
2. **`batch_is_full` may stay set with an empty running batch**
   (`managers/scheduler.py:2719`). A request that validation accepts, but whose
   estimate (input, clipped new tokens, one page) is not below the whole pool, gets
   `NO_TOKEN`. The flag is then set although nothing runs, and all resets need a
   request to leave a batch; that request and all later ones are never served. The
   comment at `scheduler.py:2714` states the condition that the
   hierarchical-cache branch alone implements. It needs a request that nearly fills
   the pool; `spec_live` shows the property for requests that retract one another.
3. **A retracted request and a finished transfer may wait for each other**
   (`disaggregation/decode.py:1512`). While a request is retracted, `process_decode_queue`
   returns before `pop_preallocated` ("we do not allocate new requests") and with it
   before `pop_transferred`; `resume_retracted_reqs` keeps a reserve for each request
   in transfer. In `decode_stuck` a retracted request needs 1 + 6 + 4 tokens of 14 that are
   free, 4 of which are kept for a request in transfer; that transfer has ended, but is not looked
   at. Nothing runs any more and neither moves. Admission is meant to
   exclude that (`decode.py:671`), but looks at running requests only. The run `decode`, with a reserve
   that is small against the pool, has retractions beside transfers too and shows that every
   request is answered.

## 5. Observed while modelling

Not kept as runs; most are reproduced by other constants of the same modules.

* Adaptive speculation: `rise_threshold = step - 0.5 + up_hysteresis`
  (`adaptive_spec_params.py:165`) is never exceeded when `up_hysteresis >= 0.5`, so
  the tier never rises: `Adapts` fails in `worker` with `UpHyst = 2` (in quarters) and
  holds with 1; the run has the default, 0, and says nothing of a hysteresis of one half or more. Rows are sized for the initial
  number of drafts (`model_runner_kv_cache_mixin.py:208`); a tier beyond that slack lets
  a verify near the context limit run past its row (`StagesAgree` with tiers
  1 and 12, initial 1).
* Disaggregation: on an abort or timeout the decode server frees pages and slot
  without telling the prefill server (`decode.py:1288`), whose worker may then
  write into pages another request owns; the room check at `decode.py:1156` looks at the metadata
  slot only. `TransfersIntact` therefore has the proviso `~cut`.
* Disaggregation, unlocked tables: four threads may raise a `KeyError` and end when the
  scheduler clears a room between two accesses. The transfer worker in its lookup of
  the destination (`mooncake/conn.py:1171`), in `update_status` or in its clean-up test (`:1341`);
  `Answers` therefore excepts a prefill server with a dead worker. The bootstrap thread
  (`:1430`), after which no later request gets its indices; the decode thread (`:1496`), after
  which no status arrives; the heartbeat thread (`:1639`), after which no failed server is noticed. Only the
  timeouts end the requests that depend on them.
* Disaggregation, late failures: the comment at `common/conn.py:187` has it that a cleared room
  is not resurrected with Failed. A thread that tested before `clear()` stores after it all the same, so
  the claim needs the conditions of `PollSafe`: `NoStaleFailure` fails without any one of `alive`,
  `~cut` and `~broken`. A request that reuses such a room finds the Failed entry. In the same way
  `PrefillAdd` may overwrite a WaitingForInput of the bootstrap thread with Bootstrapping; that request is
  ended by the bootstrap timeout although decode waits for it.
* Decode queues: `need_space_for_single_req` looks at running requests only
  (`decode.py:671`): with pages of 1, 10 pages, reserve 1, prompts 1 and 5, answers 7 and
  2, the first request is aborted for want of memory while the second is in
  transfer. A resumed request may be retracted again at once.
* `pause_generation(retract)` resets `batch_is_full` (`scheduler.py:3646`) only if the
  running batch is not empty after it has merged the last one. When nothing runs and all of
  the last batch has finished, the flag stays, though `get_next_batch_to_run`, which no longer sees
  that batch, would have reset it (`scheduler.py:2494`); then the queue is never served.
* Hierarchical cache, outside what is modelled: `_insert_helper_host` may put a host-only
  child under a node without backup; a retracted request that prefetches again under the
  same id may meet its old revocation; with `write_back`, the eviction
  `load_back` calls may in turn evict host pages of the nodes being loaded, of which only the
  ancestor is locked; `reset()` keeps `ongoing_write_through` and
  `ongoing_load_back` while node ids restart. Inside the model: pages locked by copies
  in flight can force a retraction, or the abort of the last request; a node that is split
  while it is copied, or refilled by `insert()`, leaves no event for the
  half or the tier concerned.

## 6. Proofs

Each theorem holds for every value of the constants that satisfies the module's
`ASSUME`, whatever the number of requests, pages, slots, tiers or drafts. The
pattern is the same everywhere: an inductive invariant in named parts, one lemma
per action (and per part, where a part is hard), then `Spec => []Inv` and the
checked properties as its consequences.

| Module | Theorems |
|---|---|
| `PagedAllocatorProofs` | `PageConservation`, `RowLayout`, `NoSpuriousNone`, `DraftBlockPrivate` |
| `SpecSchedulerProofs` | of KVMemory: `PageOwnership`, `ProtectedIsCached`, `PrefixClosed`, types; of SpecScheduler: `MemSpec` (refinement), `PageOwnership`, `ProtectedIsCached`, `PrefixClosed`, `NeverOOM`, `CachedKVCorrect`, `CommittedKVCorrect`, `BatchesExact`, `SpecAligned`, `OneChunkedReq`, `FirstComeFirstServed` |
| `OverlapLoopProofs` | `CommittedLags`, `ResultsApplied`, `WritesAllocated`, `PoolExact` |
| `DisaggProofs` | `Ownership`, `PollSafe`, `AnsweredOnce`, `TransfersIntact` |
| `DecodeQueuesProofs` | `PoolExact`, `NeverFull` |
| `RadixTreeProofs` | `LockRefExact`, `SizesExact`, `EvictComplete`, `EventsMirrorCache` |
| `WorkerProofs` | of FutureMap: `ResolvesOwnToken`; of AdaptiveSpec: `StagesAgree`, under two conditions |

### PagedAllocator

`PagedAllocatorProofs` proves the four safety properties of the run `alloc` for
any pool, page size above 1, rows and bounds, with and without `need_sort`, on
both back ends. That the gather of the Ascend variant can leave the list
(section 4) does not touch them: what it returns for those requests is multiplied by 0.

`AllocInv` is the types, `NoSpuriousNone` and `DraftBlockPrivate`, with

* `Laid(rows[r], Table(rows[r]))`: the row is the first `Len` slots of the pages of its
  page table, in order, and the table repeats no page and has no page too many;
* `Parted`: the list of the pool repeats no page, and the list, the deferred group and the
  rows are disjoint and make up the pool. While a draft block is out, the list is the
  saved one (`PoolList`);
* `Idle`: which lists are empty when. `NoSpuriousNone` depends on it: without
  `need_sort` nothing waits in `release_pages`.

The heart is the arithmetic of `alloc_extend_kernel`. `ExtendFits` shows that its three
parts together are the slots that continue the row over its own last page and the
`NewPages` pages of the list behind `StartPage` (`Onward`), whatever the old and new
length are within their pages; `DecodeIsExtend` that `alloc_decode_kernel` is the case
of one token. `Growth` then keeps `Laid`. `Handout` shows that the parts of the list
given to different requests, and the rest, are disjoint (sums of `need` over `1 .. i - 1`),
which keeps `Parted`. `Shrink` is the converse, for `free()`: from the first page boundary at
or behind the kept tokens on, the slots are those of whole pages that no kept token is in.
`AscendingFacts` shows that sorting (`torch.sort`, `torch.unique`) rearranges a list and loses
nothing. `NeedBound` and `DecodeBound` show that the estimates that decide on merging
(`tokens // page_size + bs + 1`, and `bs`) are never below the pages needed: so a call
that is refused has merged before (`NoneIsReal`). `ContinuedApart` gives
`DraftBlockPrivate`: the block continues the rows of that moment on pages no row has.

### KVMemory

The first part of `SpecSchedulerProofs` proves, for every set of requests, texts, pool
and page size that satisfy `MemAssumption`, of every behaviour of `MemSpec`:

* `PageOwnershipHolds`: no page is shared and none is lost;
* `ProtectedIsCachedHolds`: the protected part of each row is a cached, locked
  path and the row reads the cache's pages;
* `PrefixClosedHolds`: the cache is closed under prefixes;
* `MemTypeCorrect`, and `MemInvHolds` for their conjunction.

The inductive invariant is `MemInv == MemTypeOK /\ PrefixClosed /\
ProtectedIsCached /\ NoSharing /\ NoLeak`. None of the parts is inductive alone.
`NoSharing` needs `ProtectedIsCached`: a release frees a row behind
`cache_protected_len`, which is right only because what lies before it belongs to
the cache. `ProtectedIsCached` needs to know that an evicted set is disjoint from
the locked paths, and that insertion keeps the pages already cached. An insert
frees the duplicates up to the *match* `m` and files the pages from `m + 1` to `K`;
that no page between is forgotten or freed twice is `PrefixClosed`, by which
nothing beyond the match is cached. `NoLeak` needs that private parts of
different rows are disjoint.

There is one lemma per operation, and lemmas on paths: equal paths have the same
number of pages (`PathLength`, from monotonicity of multiplication by the page
size, which the SMT solver must be led to), agree page by page, and contain their
prefixes. `InsertOwnership` is the common core of `cache_finished_req` and
`cache_unfinished_req`, `ReleaseOwnership` that of trimming and dropping.

### SpecScheduler

`SpecSchedulerProofs` proves every safety property of the scheduler that the
runs `spec_memory` and `spec_live` check, and that it implements `MemSpec`, for
any requests, prompts, texts, pool, page size, block, chunk size and batch limits that
satisfy the assumptions on the constants: chunks are whole pages, and the requests let into the
queue are those `validate_input_length` and `init_req_max_new_tokens` accept.
The theorems on the memory carry over from KVMemory.

The inductive invariant is `SpecInv == MemInv /\ BatchInv /\ SpecAligned /\
RoomInv /\ NeverOOM`. It speaks of `Stage`: the phase, or while an eviction runs,
the phase that it returns to.

* `PlacesInv`, `StageInv`: the lists repeat no request and are disjoint, which
  batches exist at each stage, and how far a loop over a batch has come.
* `RowsInv`: who has a row. Inside the two loops that release rows one by one
  (results, retraction of all) it is the part of the batch not yet visited.
* `LengthsInv`: a row has the pages of its committed tokens (and of the block
  between allocation and verify), these are all tokens but the newest, or the chunks done.
* `AddingInv`: while requests are admitted, the list is the resumed chunk and then
  the front of the queue. `OneChunkedReq` follows, because a cut leaves less than
  a page of chunk budget; so does `FirstComeFirstServed`.
* `RoomInv` says why no allocation fails, in five parts. `AddRoom`: free and evictable
  pages cover all that the listed requests have not computed, which is
  inductive only with `adder.off` counting it, since a lock turns evictable pages into
  locked ones in the middle of an addition; the second budget test is what
  saves it. `ChunkRoom`: the rest of a cut prompt stays covered until it is resumed,
  over whatever decode step or eviction comes first. A resumed chunk runs although the budget
  may be negative (`add_chunked_req` replaces it by the chunk size), so its room cannot come from
  the budget and has to be kept from the iteration that cut it. `AllocRoom`: the
  amount asked of `evict_from_tree_cache` is enough pages, not only enough
  tokens. `DecodeRoom`: the memory check covers the draft block and the verify block of
  every request, also after retractions. `RowRoom`: a row for each.

`MemInv'` comes from the protocol: `LoopIsMem` shows that the step is one of
`MemNext` (`BatchInv` gives the guards), and `StepInv` does the rest; only then
can the other parts use the memory of the next state. `OOMStep` derives from `RowRoom`,
`AllocRoom` and `DecodeRoom` that no allocation of this step fails, `BatchStep` and
`AlignedStep` keep the lists, and one lemma per part of `RoomInv` keeps the
room, on top of lemmas on how an operation changes the number of free and evictable
pages (`EvictReserve`, `StashReserve`, `GrowReserve`).

What the pages hold is a second invariant, `KVInv`, inductive under `SpecInv`:
`TextsHeld` for the target and for the draft KV says that every slot of a cached page
and every committed position of a row holds its text. A forward writes behind
the committed tokens of its rows, so it disturbs neither (`WrittenTexts`), because
positions of different rows, or of a row and the cache, behind the protected
part are different slots (`PagesAreApart`, from `NoSharing`). Filing a row is
right because it files committed whole pages only; verify commits only tokens that
are the target's own (`BlockFits`, `VerifyTexts`). `CommittedKVCorrect` alone is not inductive, since
a row is filed, and `CachedKVCorrect` alone is not, since a row is matched from the cache.

### RadixTree

`RadixTreeProofs` proves the four invariants of the run `radix` for any requests, texts,
page size and pool, and for whatever lists of pages the allocator returns. The
requests may match, be admitted, extend, be cached and released in any order, and the
eviction loop may pop in any order.

The inductive invariant is `RadixInv == Object(rc, last) /\ Rows /\ Calls`. `Rows` is types
and `prot[r] = Pages(last[r])`; `Calls` says that the heap of an eviction that runs is the
set of evictable leaves, which gives `EvictComplete`. `Object(s, l)` speaks of one
`RadixCache` object `s` and of the last nodes `l` that requests hold:

* `Tree(t)`: a node is a path of whole pages, a proper extension of its parent, and
  two children of one node differ in their first page;
* `Fields(t)`: a node has a page and a hash for each page of its edge, and the hash is the
  path up to that page, also after the node was split;
* `Locks(t, l)`: `lock` is the number of requests whose last node is at or below;
* `Sums`, `Frontier`: sizes and leaves, kept incrementally in the code, are those of
  the nodes;
* `blocks`: one announced block per path from the root to any page of any node.

Parts of it fail between two calls of one operation, so there is one lemma per call
and not per action: a split (`Matched`), an insert, a lock, an unlock, a deleted
leaf each take an `Object` to an `Object`, and an action composes them.
`cache_unfinished_req` inserts, matches, unlocks the old and locks the new node: between
the last two the request is at the root in `l`.

The order of paths carries it. `Pre(m, n)`, `m` is `n` up to one of its pages, is a partial
order on names, and the names before a given one are linear (`PreFacts`). In a `Tree` the chain of
parents of `n`, which the loops of `inc_lock_ref` and `dec_lock_ref` walk, is exactly the
nodes before `n`, and the descent of `match_prefix` ends at the longest
node before the key; what leaves half-way is one child. A split adds one
name between two that are ordered, so it changes no path, no lock count, no sum and no
block. Loops are `Iterated`: `IteratedEquation` gives its equations, and the walks are shown
to arrive because every turn shortens or lengthens the path.

Locks count requests, so moving one from a node changes `Cardinality(Below(l, n))` by one
exactly on the chain; `evictable` and `protected` then move by the tokens of the nodes whose
lock begins or ends there. `DeleteLeaf` removes by hash. That it removes the blocks of
this leaf only is a consequence of hashes being whole paths.

### OverlapLoop

`OverlapInv` relates what the scheduler knows to what the device has done.

* `Queue` gives the shape of `results` at each place of the loop: nothing, the
  result of `last`, or the results of `last` and `cur`. It makes every sum over
  pending results a sum of two terms, and `ResultsApplied` follows from it.
* `Places` and `Fresh`: where a request can be, and that a request holds memory
  exactly when it is running, or being prefilled, and not finished.
* `Tallies` is the heart. For a request that holds memory, `committed` plus the
  tokens of the pending results is the device's `seq` plus one for each pending
  step (whose bonus token `prepare_for_decode` has counted already); the outputs
  lag likewise; the device never writes beyond `alloc`; `alloc` is at most two
  drafts beyond `committed`; `chunks` counts the pending prefills that will not
  end the prompt. `CommittedLags` is a consequence, and so is that the memory
  check is right: with `alloc <= committed + 2 * Draft` the pages the check
  estimates are the pages the batch takes (`DecodeNeed`).
* `Pool`: the free pages and those of all rows make up the pool. `PoolExact`
  needs nothing else once the estimate is known to cover what is taken.
* `RowsExact`, `RowsOwn`, `RowsLast`: rows are free or one request's, and no
  launched batch has a row of another request. That is not inductive as it
  stands: a request that finishes gives its row back while the batch launched
  after it still writes to it. It is safe because `free_slots` is a queue: such
  rows are at its end (`RowsLast`), a prefill takes from the front, and the
  requests that just finished still count as running in the admission test
  (`FrontNotStale`), so the front never reaches them.

### FutureMap

`FutureInv` bounds how far back the slots in use reach. `Window` charges each
running request `MaxParts` slots and the chunked one as many as it has had
batches; each launch raises it by at least the slots it hands out
(`WindowGrows`), and it never exceeds `MaxRunning * MaxParts`. The ring is longer
by `MaxRunning`, so a slot in use is always younger than one round, and its
age can be read off the pointer although batches that start just below the limit
run past it (`Ages`, `NewAges`). Different ages are different slots (`Ring`),
from which a store overwrites no other request's token (`Tokens`).

### Disagg

`DisaggInv` has the types of both servers, the states a sender and a receiver
can be in at each place (`Senders`, `Receivers`: the polls of `PollSafe`), who holds
slots and pages (`PrefillSlots`, `DecodeSlots`, `PrefillPages`, `DecodePages`:
`Ownership`), that a request is answered when it leaves (`Answered`), and the
shape of what is under way (`Traffic`): decode sends the indices of a request
once; chunks are queued only for a request that was sent, the last chunk last;
the transfer thread takes an entry out of `transfer_infos` only after the
status is final.

`Delivery` holds as long as no request has been given up in mid-transfer
(`~cut`): whatever prefill may still write (`Pend`), for a message, a queued
chunk or the one in the worker's hands, is for a request that still waits with the
very pages and slot it sent, the source pages still hold what was computed, each
chunk has landed or is coming, and a success that is on its way or recorded is
about KV that is all there. `TransfersIntact` follows. After a request was given
up there is no such guarantee (section 5).

`Threads` says where the bootstrap, decode and heartbeat threads can be and what they may
still store, whatever was cleared since their test; `Senders` and `Receivers` need it, for
a store that comes late must still be one of a state the queue handles.

`Results` is the part of `PollSafe` about late failures. `NoStaleFailure` alone is not inductive:
a thread that has tested the room and holds Failed may store it whenever it likes. While
prefill lives, nothing is given up in mid-transfer and the engine has not failed, there is one result per
transfer, of its last chunk, and whoever holds it holds the only way in which
the request can end: in the worker's hands the request is still in flight at prefill (`Live`), in a
message or in the decode thread's hands it still waits at decode (`Expects`). So neither scheduler can
clear the room before the store. Each condition is needed: a request that is given up
ends without the result, a failed engine fails every chunk and so a room more than once, and
the failures of a server that died come from the heartbeat thread, beside the result.
The proof is about any mix of faults, not only the scenarios of the run.

### DecodeQueues

`QueuesInv`: the queues are disjoint and repeat no request (`Apart`), the
number of outputs and of KV entries of a request is fixed by the queue it is in
(`Lengths`), and free pages and pages of requests make up the pool (`Pool`).
`NeverFull` is about a loop that admits several requests against a budget in
tokens while the pages are taken in whole: the reserve of at least `PageSize - 1`
per request pays for the rounding.

### AdaptiveSpec

`AdaptInv` says that the worker is of one registered tier and `server_args` name
the same one, even between the capture of two tiers, that requests are below
their limit outside of the step that finishes them, and that the memory check
was made for the tier that runs. `StagesAgreeTheorem` assumes two facts about
the configuration that the code does not check and its defaults satisfy:
`RowsWide`, the highest tier is at most eight above the configured number of steps
(the rows are sized before the tiers are known), and `HystOrdered`, the
threshold for going down does not exceed the one for going up. `AdaptInvariant`
needs neither.

### Collections

The provers do no induction over data, so a filter or a sum by recursion would be
opaque. `Only`, `Iterated` and `Total` are functions whose value at a prefix, a turn or a subset
depends on the one before; `CollectionProofs` does induction for *sets* of numbers
and *sets* of subsets (`NatSetInduction` and its like, from the well-foundedness
of `<`), which needs no operator parameter. From that: a filter keeps order,
membership and injectivity; a sum changes by the change of one term, splits over
disjoint sets, and is monotone.

### Only model-checked

* That RadixTree implements `MemSpec` (`ImplementsMemory` in `radix`). The theorems
  about the tree are about its nodes; that the pages on the paths are those KVMemory has is
  only checked.
* HiCache. What it computes by loops over nodes, `SelectSeq`, folds and sorting would have
  to be written as the filters, loops and sums of the other modules are.
* All liveness properties (`EventuallyAnswered`, `Answers`, `Adapts`), which are out of
  the provers' reach.

## 7. Assumptions on the environment

One scheduler rank (tensor parallel ranks run the same deterministic loop), the
default FCFS policy, radix cache enabled, greedy or sampled verification
(acceptance is open), no LoRA, session or multimodal input. Two requests whose
texts agree have the same KV for the common prefix. In particular:

* SpecScheduler: DFLASH in spec v1, which runs in `event_loop_normal`.
* OverlapLoop: no shared prefixes (RadixTree and KVMemory have them); the device
  runs batches in the order of their launch.
* FutureMap: the ring bound relies on the last prefill being merged before its
  result is processed, as the loop does.
* AdaptiveSpec: for `ema_alpha < 1` the average is any value between old and new;
  `Adapts` is stated for `ema_alpha = 1`.
* Disagg: one rank per side, one prefill server that does not come back after a
  crash; a metadata slot is copied in one step; the worker's test of the session before
  a transfer is one step (it holds `session_lock`); requests of one loop call are handled in any
  order. The schedulers' own accesses to the tables are grouped: `clear()` pops a room's entries in one step, a
  receiver's constructor and `init()` are one (`DecodeAdd`), and so is `_ensure_prefill_info` with the
  resolution of all pending receivers. The heartbeat thread forgets ended rooms in one step
  (`HeartbeatOK`), and the bootstrap thread enters a room's indices in one. The connection pool is not
  modelled: where messages may be lost, any receiver may miss its bootstrap information.
* DecodeQueues: the non-overlapping loop, no prefix cache and no speculation on
  the decode server, a reserve of at least `PageSize - 1`, and prompts that fit in the
  pool with it.
* HiCache: write-through policies, `page_size` 1, no storage tier, no speculation,
  the running requests' share of the estimate at its least, the load threshold
  scaled from 10, hit counts saturated at the threshold. A host pool larger than
  the device pool is what `memory_pool_host.py:187` asserts.

## 8. Plan

1. *(done)* PagedAllocator, KVMemory, SpecScheduler, the memory theorems.
2. *(done)* RadixTree with its refinement, OverlapLoop, FutureMap,
   AdaptiveSpec, Disagg, DecodeQueues, HiCache.
3. *(done)* Theorems for Disagg, AdaptiveSpec, DecodeQueues, OverlapLoop,
   FutureMap and SpecScheduler, with the refinement `Spec => MemSpec`.
4. *(done)* Theorems for PagedAllocator: the layout of an extend and the conservation
   of pages.
5. *(done)* Theorems for RadixTree: its shape, locks, sizes, leaves and events after any number
   of splits. Left: that it implements `MemSpec`, its nodes' paths and locks being the
   cached paths and pins.
6. EagleVerify: tree acceptance against the definition "longest accepted path",
   and page-aligned moves of accepted KV.
7. Preemption by priority (`preempt_to_schedule`); the storage tier and
   `write_back` of the hierarchical cache; the SWA and Mamba caches.

## 9. Not modelled

* EAGLE's token tree and masks, ngram and multi-layer workers; the compact draft
  window of DFLASH;
* SWA, Mamba and unified caches; the storage tier and `write_back`; pipeline and
  data parallel scheduling; several ranks, staging buffers and the other
  transports of disaggregation;
* pause mode `abort`, which aborts all requests with `abort_request` from the
  tokenizer process first, and the waiting and running timeouts (off by default);
* HTTP, tokenizer and detokenizer processes, metrics, SpecForge's training.

By far the largest part of the source tree is of another kind: model
definitions, layers, attention backends, kernels, quantisation, weight loaders,
argument parsing, benchmarks. It is numeric or declarative code without protocol
state, so the mapped lines, which lie in the scheduling, memory, speculation and
transfer code of section 1, are a small share of the whole tree.
