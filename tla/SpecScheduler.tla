---------------------------- MODULE SpecScheduler ----------------------------
(***************************************************************************)
(* The life of a request's KV pages under block-speculative decoding        *)
(* (DFLASH, spec v1): the event loop of managers/scheduler.py composed     *)
(* with the prefill admission of schedule_policy.py, the batch operations  *)
(* of schedule_batch.py, the slot helpers of mem_cache/common.py, the      *)
(* prefix cache and the DFLASH draft/verify step.                          *)
(*                                                                         *)
(* The scheduler is one thread, so the steps of one loop iteration run in  *)
(* a fixed order, kept in `phase`; requests and aborts arrive between two  *)
(* iterations.  What is open is what the tokens decide (how many drafts    *)
(* are accepted), what the clients do, the admission estimate, which       *)
(* unlocked cache entries are evicted and which free pages are taken.      *)
(*                                                                         *)
(* Pages, not slots, are tracked: PagedAllocator shows that position i of  *)
(* a row is slot i % PageSize of the row's page i \div PageSize.           *)
(***************************************************************************)
EXTENDS KVMemory, Collections

CONSTANTS
  NoReq,             \* not a request
  PromptLen,         \* PromptLen[r]: len(origin_input_ids)
  MaxNew,            \* MaxNew[r]: max_new_tokens
  StopLen,           \* StopLen[r]: output length at which a stop token appears
  Block,             \* speculative_num_draft_tokens (the block size)
  ChunkSize,         \* chunked_prefill_size
  MaxPrefillTokens,  \* max_prefill_tokens
  MaxRunning,        \* rows of req_to_token
  RetractSteps,      \* SGLANG_RETRACT_DECODE_STEPS
  ClipMaxNew,        \* CLIP_MAX_NEW_TOKENS
  Abortable,         \* requests a client may abort
  PauseModes,        \* pause_generation modes in use
  PageAssignments(_, _)  \* PageAssignments(S, need): page choices offered to a call

ASSUME ConstantsAssumption ==
  /\ Block \in Nat \ {0} /\ ChunkSize \in Nat \ {0}
  /\ MaxPrefillTokens \in Nat \ {0} /\ MaxRunning \in Nat \ {0}
  /\ ChunkSize % PageSize = 0
  /\ RetractSteps \in Nat /\ ClipMaxNew \in Nat
  /\ NoReq \notin Req /\ Abortable \subseteq Req
  /\ PauseModes \subseteq {"in_place", "retract"}
  /\ PromptLen \in [Req -> Nat \ {0}]
  /\ MaxNew \in [Req -> Nat \ {0}] /\ StopLen \in [Req -> Nat \ {0}]
  /\ \A r \in Req : Text[r] \in Seq(Nat)

\* validate_input_length (max_req_len is the pool size - 1, max_req_input_len
\* is 5 less).
AcceptedInput(r) == PromptLen[r] < NumPages * PageSize - 6

\* init_req_max_new_tokens.
AcceptedMaxNew(r) == MaxNew[r] <= NumPages * PageSize - 2 - PromptLen[r]

\* The requests that are let into the queue.
ASSUME AcceptedAssumption == \A r \in Req : AcceptedInput(r) /\ AcceptedMaxNew(r)

VARIABLES
  \* contents of the pages
  kv,         \* kv[p][o]: the context whose target KV slot o of page p holds
  dkv,        \* the same for the draft model's KV, which shares the slots
  \* requests
  out,        \* out[r]: len(output_ids)
  pre,        \* pre[r]: len(prefix_indices)
  fill,       \* fill[r]: len(fill_ids) of the current prefill
  committed,  \* committed[r]: kv_committed_len (= kv_allocated_len = seq_len)
  finished,   \* requests with a finished_reason
  to_finish,  \* requests with an abort to be noticed by check_finished
  gone,       \* requests answered and dropped: aborted in queue or for memory
  \* scheduler
  arrived,    \* requests received so far
  waiting,    \* waiting_queue
  running,    \* running_batch.reqs
  spec,       \* running_batch.spec_info: whose draft state sits at each index
  last,       \* last_batch.reqs if the last batch was a prefill, else <<>>
  chunked,    \* chunked_req
  full,       \* running_batch.batch_is_full
  adder,      \* PrefillAdder of the current iteration
  goal,       \* tokens evict_from_tree_cache must make available, what follows
  step,       \* index in the batch whose results are being processed
  phase,
  paused      \* _engine_paused

kvs == <<kv, dkv>>
reqs == <<out, pre, fill, committed, finished, to_finish, gone>>
sched == <<arrived, waiting, running, spec, last, chunked, full, adder>>
ctl == <<goal, step, phase, paused>>
vars == <<mem, kvs, reqs, sched, ctl>>

-----------------------------------------------------------------------------
(* Lengths, lists, contents.                                               *)

CeilDiv(n, d) == (n + d - 1) \div d
PagesFor(n) == CeilDiv(n, PageSize)
AlignUp(n) == PagesFor(n) * PageSize
AlignDown(n) == (n \div PageSize) * PageSize
Least(a, b) == IF a < b THEN a ELSE b

\* The list keep_indices of the members of s that are not in S (filter_batch):
\* a set with this one list.
KeepIndices(s, S) ==
  LET K == {i \in DOMAIN s : s[i] \notin S}
  IN  {k \in [1 .. Cardinality(K) -> K] :
         \A a, b \in DOMAIN k : a < b => k[a] < k[b]}
At(s, k) == [n \in DOMAIN k |-> s[k[n]]]

\* Mutant of FilteredSpec: the front of the list is kept.
FilteredSpecFront(s, k) == SubSeq(s, 1, Len(k))

\* DFlashDraftInput.filter_batch keeps the entries at keep_indices.
FilteredSpec(s, k) == At(s, k)

InputLen(r) == PromptLen[r] + out[r]

\* The KV of token i is that of the text up to and including it.
Garbage == <<>>
Context(r, i) == SubSeq(Text[r], 1, i + 1)
Blank == [o \in 0 .. PageSize - 1 |-> Garbage]

Available == Cardinality(free) * PageSize
AvailableAndEvictable(pn) == Available + Cardinality(Evictable(pn)) * PageSize

\* Contents of freed pages no longer matter; they count as garbage.
Scrub(f, pages) == [p \in Page |-> IF p \in pages THEN Blank ELSE f[p]]
ScrubFreed == kv' = Scrub(kv, free' \ free) /\ dkv' = Scrub(dkv, free' \ free)

\* KV content f after a forward that writes, for each r of S, the positions
\* lo[r] .. hi[r]-1 through the rows tab; positions from ok[r] on are garbage.
Written(f, tab, S, lo, hi, ok) ==
  [p \in Page |-> [o \in 0 .. PageSize - 1 |->
     LET at == {w \in S \X (0 .. NumPages * PageSize) :
                  /\ w[2] \in lo[w[1]] .. hi[w[1]] - 1
                  /\ w[2] % PageSize = o
                  /\ tab[w[1]][(w[2] \div PageSize) + 1] = p}
     IN  IF at = {} THEN f[p][o]
         ELSE LET w == CHOOSE w \in at : TRUE
              IN  IF w[2] < ok[w[1]] THEN Context(w[1], w[2]) ELSE Garbage]]

NoAdder == [list |-> <<>>, idx |-> 1, off |-> 0, cur |-> 0, inp |-> 0,
            chunk |-> 0, new |-> NoReq]
NoGoal == [need |-> 0, then |-> "recv"]

Init ==
  /\ MemInit
  /\ kv = [p \in Page |-> Blank] /\ dkv = [p \in Page |-> Blank]
  /\ out = [r \in Req |-> 0] /\ pre = [r \in Req |-> 0]
  /\ fill = [r \in Req |-> 0] /\ committed = [r \in Req |-> 0]
  /\ finished = {} /\ to_finish = {} /\ gone = {}
  /\ arrived = {} /\ waiting = <<>> /\ running = <<>> /\ spec = <<>>
  /\ last = <<>> /\ chunked = NoReq /\ full = FALSE
  /\ adder = NoAdder /\ goal = NoGoal /\ step = 1
  /\ phase = "recv" /\ paused = FALSE

-----------------------------------------------------------------------------
(* Releasing and evicting.                                                 *)

\* reset_for_retract.
ResetForRetract(r) ==
  /\ pre' = [pre EXCEPT ![r] = 0]
  /\ committed' = [committed EXCEPT ![r] = 0]

\* Mutant of Finish: the partly filled last page is filed too.
FinishPartial(r) ==
  /\ \E m \in 0 .. NumPages : ReleaseInsert(r, PagesFor(committed[r]), m)
  /\ ScrubFreed

\* A finished request: release_kv_cache files its committed whole pages.
Finish(r) ==
  /\ \E m \in 0 .. NumPages : ReleaseInsert(r, committed[r] \div PageSize, m)
  /\ ScrubFreed

\* maybe_cache_unfinished_req with the tokens fill[r] computed; the uncached
\* tail of them stays in prefix_indices.
Stash(r) ==
  /\ \E m \in 0 .. NumPages : CacheUnfinished(r, fill[r] \div PageSize, m)
  /\ ScrubFreed
  /\ pre' = [pre EXCEPT ![r] = fill[r]]

\* release_req.
Drop(r) == ReleaseDrop(r) /\ ScrubFreed /\ ResetForRetract(r)

Enter(ph) == phase' = ph /\ UNCHANGED <<goal, step, paused>>
EvictThen(n, ph) ==
  phase' = "evict" /\ goal' = [need |-> n, then |-> ph] /\ UNCHANGED <<step, paused>>

\* Mutant of Evictions: inner nodes are taken before their children.
EvictionsAnyNode(n) ==
  {E \in SUBSET Evictable(pin) :
     Cardinality(E) * PageSize >= n \/ E = Evictable(pin)}

\* What evict(n) may take: leaves first, n tokens or else all that is unlocked.
Evictions(n) ==
  {E \in SUBSET Evictable(pin) :
     UpClosed(E) /\ (Cardinality(E) * PageSize >= n \/ E = Evictable(pin))}

\* evict_from_tree_cache: only when too little is available, and then for the
\* whole amount.
EvictFromTreeCache ==
  /\ phase = "evict"
  /\ IF Available < goal.need
       THEN (\E E \in Evictions(goal.need) : Evict(E)) /\ ScrubFreed
       ELSE UNCHANGED <<mem, kvs>>
  /\ phase' = goal.then /\ goal' = NoGoal
  /\ UNCHANGED <<reqs, sched, step, paused>>

-----------------------------------------------------------------------------
(* Between two iterations: process_input_requests.                         *)

\* _add_request_to_queue.
Queued(r) == Append(waiting, r)

\* handle_generate_request of a request the validation accepts.
HandleGenerateRequest(r) ==
  /\ phase = "recv" /\ r \notin arrived
  /\ arrived' = arrived \cup {r}
  /\ waiting' = Queued(r)
  /\ UNCHANGED <<mem, kvs, reqs, running, spec, last, chunked, full, adder, ctl>>

\* abort_request: a queued request is popped and answered, a batched one is
\* marked and leaves through check_finished.
AbortRequest(r) ==
  /\ phase = "recv" /\ r \in Abortable
  /\ \/ /\ r \in Set(waiting)
        /\ \E k \in KeepIndices(waiting, {r}) : waiting' = At(waiting, k)
        /\ gone' = gone \cup {r}
        /\ UNCHANGED to_finish
     \/ /\ r \in (Set(running) \cup Set(last)) \ (finished \cup to_finish)
        /\ to_finish' = to_finish \cup {r}
        /\ UNCHANGED <<waiting, gone>>
  /\ UNCHANGED <<mem, kvs, out, pre, fill, committed, finished>>
  /\ UNCHANGED <<arrived, running, spec, last, chunked, full, adder, ctl>>

PauseInPlace ==
  /\ phase = "recv" /\ ~paused /\ "in_place" \in PauseModes
  /\ paused' = TRUE
  /\ UNCHANGED <<mem, kvs, reqs, sched, goal, step, phase>>

\* The draft state of the running batch after `more` joins it: merge_batch, or
\* the new batch object when the running one is empty (its spec_info is stale).
MergedSpec(more) == IF running = <<>> THEN more ELSE spec \o more

\* pause_generation clears chunked_req when it retracts a batch.
ChunkedAfter(merged) == IF merged = <<>> THEN chunked ELSE NoReq

\* pause_generation(mode="retract"): the last prefill batch, its chunked request
\* included, joins the running batch, and the whole batch is retracted.
PauseRetract ==
  \E k \in KeepIndices(last, finished) :
    LET more == At(last, k)
        merged == running \o more
        mergedSpec == IF more = <<>> THEN spec ELSE MergedSpec(more)
    IN  /\ phase = "recv" /\ "retract" \in PauseModes
        /\ ~paused \/ merged # <<>>
        /\ \E kept \in KeepIndices(merged, finished) :
             /\ running' = At(merged, kept)
             /\ spec' = IF kept = <<>> THEN mergedSpec ELSE FilteredSpec(mergedSpec, kept)
             /\ phase' = IF kept = <<>> THEN "recv" ELSE "pause_release"
        /\ paused' = TRUE
        /\ last' = <<>>
        /\ full' = (full /\ merged = <<>>)
        /\ chunked' = ChunkedAfter(merged)
        /\ step' = 1
        /\ UNCHANGED <<mem, kvs, reqs, arrived, waiting, adder, goal>>

\* retract_all: release_req for each request, from the front; then the batch is
\* emptied and its requests are queued again.
PauseRelease ==
  /\ phase = "pause_release" /\ step <= Len(running)
  /\ Drop(running[step])
  /\ step' = step + 1
  /\ phase' = "evict"
  /\ goal' = [need |-> (Len(running) - step + 1) * RetractSteps, then |-> "pause_release"]
  /\ UNCHANGED <<out, fill, finished, to_finish, gone, sched, paused>>

PauseDone ==
  /\ phase = "pause_release" /\ step > Len(running)
  /\ waiting' = waiting \o running
  /\ running' = <<>>
  /\ full' = FALSE
  /\ step' = 1 /\ phase' = "recv"
  /\ UNCHANGED <<mem, kvs, reqs, arrived, spec, last, chunked, adder, goal, paused>>

ContinueGeneration ==
  /\ phase = "recv" /\ paused
  /\ paused' = FALSE
  /\ UNCHANGED <<mem, kvs, reqs, sched, goal, step, phase>>

-----------------------------------------------------------------------------
(* get_next_batch_to_run: the prefill side.                                *)

\* stash_chunked_request: the chunk computed in the last iteration is cached.
StashChunked ==
  /\ phase = "recv" /\ ~paused
  /\ IF chunked = NoReq THEN UNCHANGED <<mem, kvs, pre>> ELSE Stash(chunked)
  /\ Enter("merge")
  /\ UNCHANGED <<out, fill, committed, finished, to_finish, gone, sched>>

\* Mutant of FullAfter: requests that leave do not clear batch_is_full.
FullAfterSticky(k, n) == full

\* batch_is_full is cleared when a batch of n requests is left with fewer.
FullAfter(k, n) == full /\ Len(k) = n

\* The last prefill batch, without finished requests and the chunked one,
\* joins the running batch, or becomes it when that is empty.
MergeLastBatch ==
  /\ phase = "merge"
  /\ \E k \in KeepIndices(last, finished \cup {chunked}) :
       LET more == At(last, k)
       IN  /\ running' = running \o more
           /\ spec' = IF more = <<>> THEN spec ELSE MergedSpec(more)
           /\ full' = (FullAfter(k, Len(last)) /\ (more = <<>> \/ running # <<>>))
  /\ last' = <<>>
  /\ Enter("plan")
  /\ UNCHANGED <<mem, kvs, reqs, arrived, waiting, chunked, adder>>

\* get_num_allocatable_reqs.
RowsHeld == {r \in Req : table[r] # <<>>}
Allocatable == Least(MaxRunning - Len(running), MaxRunning - Cardinality(RowsHeld))

\* rem_total_tokens and cur_rem_tokens of adder a under the locks pn.
RemTotal(a, pn) == AvailableAndEvictable(pn) - a.off
CurRem(a, pn) == AvailableAndEvictable(pn) - a.cur

\* Mutant of Charged: rem_chunk_tokens is not charged.
ChargedNoChunk(a, r, len, new) ==
  LET e == AlignUp(len)
  IN  [a EXCEPT !.list = Append(@, r), !.off = @ + e + new + PageSize,
                !.cur = @ + e + PageSize, !.inp = @ - e]

\* can_run_list.append and _update_prefill_budget.
Charged(a, r, len, new) ==
  LET e == AlignUp(len)
  IN  [a EXCEPT !.list = Append(@, r), !.off = @ + e + new + PageSize,
                !.cur = @ + e + PageSize, !.inp = @ - e, !.chunk = @ - e]

\* Most a running request is expected to generate (new_token_ratio <= 1).
Expected(r) == Least(MaxNew[r] - out[r], ClipMaxNew)

\* add_chunked_req with int(rem_total_tokens) = rem: the chunk must run, so a
\* non-positive budget is replaced by the chunk size.
ChunkedLen(r, rem) ==
  LET budget == IF Least(ChunkSize, rem) <= 0 THEN ChunkSize ELSE Least(ChunkSize, rem)
  IN  Least(InputLen(r) - pre[r], budget)

\* _get_new_batch_prefill_raw up to the loop over the queue.  `est` is the
\* running requests' estimate under some new_token_ratio in 0..1, `up` its
\* rounding in int().
PlanPrefill ==
  /\ phase = "plan"
  /\ IF (full \/ waiting = <<>>) /\ chunked = NoReq
       THEN Enter("update") /\ UNCHANGED <<fill, chunked, full, adder>>
     ELSE IF Allocatable <= 0 /\ chunked = NoReq
       THEN Enter("update") /\ full' = TRUE /\ UNCHANGED <<fill, chunked, adder>>
     ELSE
       LET most == Total([r \in Req |-> Expected(r)], Set(running))
       IN  \E est \in 0 .. most, up \in {0, 1} :
             LET a0 == [NoAdder EXCEPT !.off = est, !.inp = MaxPrefillTokens,
                                       !.chunk = ChunkSize]
                 n == ChunkedLen(chunked, RemTotal(a0, pin) - up)
                 cut == n < InputLen(chunked) - pre[chunked]
             IN  /\ est + up <= most
                 /\ IF chunked = NoReq
                      THEN up = 0 /\ adder' = a0 /\ UNCHANGED <<fill, chunked>>
                      ELSE /\ fill' = [fill EXCEPT ![chunked] = pre[chunked] + n]
                           /\ adder' = Charged(a0, chunked, n,
                                IF cut THEN 0 ELSE Least(MaxNew[chunked], ClipMaxNew))
                           /\ chunked' = IF cut THEN chunked ELSE NoReq
                 /\ Enter("adding") /\ UNCHANGED full
  /\ UNCHANGED <<mem, kvs, out, pre, committed, finished, to_finish, gone>>
  /\ UNCHANGED <<arrived, waiting, running, spec, last>>

\* Mutant of Break: the loop goes on with the next request.
Continue == adder.idx + 1

\* The loop over waiting_queue breaks.
Break == Len(waiting) + 1

\* add_one_req of r with m cached pages: the result, and how many tokens run
\* (0: not added).  total_tokens is checked before and after the lock.
AddResult(r, m) ==
  LET ext == InputLen(r) - m * PageSize
      left == MaxNew[r] - out[r]
      total == ext + Least(IF left < 0 THEN 0 ELSE left, ClipMaxNew) + PageSize
      locked == [pin EXCEPT ![r] = m]
      trunc == AlignDown(adder.chunk)
  IN  IF total >= RemTotal(adder, pin) THEN [res |-> "NO_TOKEN", run |-> 0]
      ELSE IF AlignUp(ext) >= adder.inp /\ adder.list # <<>>
        THEN [res |-> "OTHER", run |-> 0]
      ELSE IF total >= RemTotal(adder, locked) THEN [res |-> "NO_TOKEN", run |-> 0]
      ELSE IF AlignUp(ext) <= adder.chunk THEN [res |-> "ADDED", run |-> ext]
      ELSE IF trunc <= 0 THEN [res |-> "OTHER", run |-> 0]
      ELSE [res |-> "ADDED", run |-> trunc]

\* budget_state after an addition.
BudgetState(a, pn) ==
  IF RemTotal(a, pn) <= 0 \/ CurRem(a, pn) <= 0 THEN "NO_TOKEN"
  ELSE IF a.inp <= 0 \/ a.chunk <= 0 THEN "OTHER" ELSE "CONTINUE"

\* init_next_round_input: pages that may be matched, one token is always left to
\* compute.
MatchLimit(r) == (InputLen(r) - 1) \div PageSize

\* One turn of the loop over waiting_queue: match the prefix, then add_one_req.
AddOneReq ==
  /\ phase = "adding" /\ adder.idx <= Len(waiting)
  /\ IF full \/ Len(adder.list) >= Allocatable
       THEN /\ full' = TRUE
            /\ adder' = [adder EXCEPT !.idx = Break]
            /\ UNCHANGED <<mem, pre, fill>>
       ELSE LET r == waiting[adder.idx] IN
            \E m \in 0 .. MatchLimit(r) :
              LET add == AddResult(r, m)
                  whole == m * PageSize + add.run = InputLen(r)
                  locked == [pin EXCEPT ![r] = m]
                  charged == Charged(adder, r, add.run,
                               IF whole THEN Least(MaxNew[r], ClipMaxNew) ELSE 0)
                  state == BudgetState(charged, locked)
              IN  /\ IsMatch(r, MatchLimit(r), m)
                  /\ IF add.run = 0
                       THEN /\ adder' = [adder EXCEPT !.idx = Break]
                            /\ full' = (add.res = "NO_TOKEN")
                            /\ UNCHANGED <<mem, pre, fill>>
                       ELSE /\ adder' = [charged EXCEPT
                                 !.new = IF whole THEN @ ELSE r,
                                 !.idx = IF state = "CONTINUE" THEN @ + 1 ELSE Break]
                            /\ full' = (state = "NO_TOKEN")
                            /\ Lock(r, m)
                            /\ pre' = [pre EXCEPT ![r] = m * PageSize]
                            /\ fill' = [fill EXCEPT ![r] = m * PageSize + add.run]
  /\ UNCHANGED <<kvs, out, committed, finished, to_finish, gone>>
  /\ UNCHANGED <<arrived, waiting, running, spec, last, chunked, ctl>>

\* What alloc_paged_token_slots_extend asks the cache for.
EvictTokens(tokens, bs) == IF PageSize = 1 THEN tokens ELSE tokens + bs * PageSize

\* Mutant of Unadmitted: admitted requests stay in the queue.
UnadmittedNone == KeepIndices(waiting, {})

\* The queue without can_run_list.
Unadmitted == KeepIndices(waiting, Set(adder.list))

\* The rest of _get_new_batch_prefill_raw, into prepare_for_extend.
FinishAdder ==
  /\ phase = "adding" /\ adder.idx > Len(waiting)
  /\ IF adder.list = <<>>
       THEN adder' = NoAdder /\ Enter("update") /\ UNCHANGED <<waiting, chunked>>
       ELSE /\ \E k \in Unadmitted : waiting' = At(waiting, k)
            /\ chunked' = IF adder.new = NoReq THEN chunked ELSE adder.new
            /\ EvictThen(EvictTokens(Total([r \in Req |-> fill[r] - pre[r]], Set(adder.list)),
                                     Len(adder.list)),
                         "prefill_alloc")
            /\ UNCHANGED adder
  /\ UNCHANGED <<mem, kvs, reqs, arrived, running, spec, last, full>>

-----------------------------------------------------------------------------
(* A prefill batch: alloc_for_extend, the forward, and its results.        *)

\* get_num_new_pages for one request.
NewPages(from, to) == PagesFor(to) - PagesFor(from)

\* alloc_extend: the rows of S grow from from[r] to to[r] tokens.  None (too
\* few pages) is an exception that ends the scheduler: phase "oom".
Extend(S, from, to, ph) ==
  LET need == [r \in Req |-> IF r \in S THEN NewPages(from[r], to[r]) ELSE 0]
  IN  IF Total(need, S) > Cardinality(free)
        THEN phase' = "oom" /\ UNCHANGED mem
        ELSE /\ \E a \in PageAssignments(free, need) :
                  /\ IsAssignment(a, free) /\ \A r \in Req : Len(a[r]) = need[r]
                  /\ Grow(S, a)
             /\ phase' = ph

\* forward_batch_generation of a prefill: the target forward, and its hidden
\* states materialized in the draft KV.
ForwardExtend(S) ==
  /\ kv' = Written(kv, table', S, pre, fill, fill)
  /\ dkv' = Written(dkv, table', S, pre, fill, fill)

\* prepare_for_extend with alloc_for_extend, then the forward.
PrefillForward ==
  LET S == Set(adder.list)
  IN  /\ phase = "prefill_alloc"
      /\ IF Cardinality(S \cup RowsHeld) > MaxRunning
           THEN phase' = "oom" /\ UNCHANGED mem
           ELSE Extend(S, pre, fill, "prefill_result")
      /\ IF phase' = "oom"
           THEN UNCHANGED <<kvs, committed>>
           ELSE /\ committed' = [r \in Req |-> IF r \in S THEN fill[r] ELSE committed[r]]
                /\ ForwardExtend(S)
      /\ step' = 1
      /\ UNCHANGED <<out, pre, fill, finished, to_finish, gone, sched, goal, paused>>

\* Output length at which check_finished ends r (an abort ends it at once).
FinishLen(r) == Least(MaxNew[r], StopLen[r])

\* process_batch_result_prefill, one request: a chunk in progress has no
\* output; a request that is done is released, another one is cached.
PrefillResult ==
  LET r == adder.list[step]
      done == r \in to_finish \/ out[r] + 1 >= FinishLen(r)
  IN  /\ phase = "prefill_result" /\ step <= Len(adder.list)
      /\ step' = step + 1
      /\ IF r = chunked
           THEN UNCHANGED <<mem, kvs, out, pre, finished>>
           ELSE /\ out' = [out EXCEPT ![r] = @ + 1]
                /\ IF done
                     THEN Finish(r) /\ finished' = finished \cup {r} /\ UNCHANGED pre
                     ELSE Stash(r) /\ UNCHANGED finished
      /\ UNCHANGED <<fill, committed, to_finish, gone, sched, goal, phase, paused>>

PrefillDone ==
  /\ phase = "prefill_result" /\ step > Len(adder.list)
  /\ last' = adder.list
  /\ adder' = NoAdder
  /\ step' = 1
  /\ phase' = "recv"
  /\ UNCHANGED <<mem, kvs, reqs, arrived, waiting, running, spec, chunked, full>>
  /\ UNCHANGED <<goal, paused>>

-----------------------------------------------------------------------------
(* A decode batch: update_running_batch, memory check and retraction.      *)

\* Mutant of DecodeTokens: one block for the whole batch.
DecodeTokensOne(n) == AlignUp(Block)

\* new_tokens_required_next_decode for n requests (spec v1).
DecodeTokens(n) == AlignUp(Block) * n

\* update_running_batch up to check_decode_mem: finished requests leave, and
\* their draft state leaves at the same indices.
UpdateRunningBatch ==
  /\ phase = "update"
  /\ \E k \in KeepIndices(running, finished) :
       /\ running' = At(running, k)
       /\ full' = FullAfter(k, Len(running))
       /\ IF k = <<>>
            THEN Enter("recv") /\ UNCHANGED spec
            ELSE /\ spec' = FilteredSpec(spec, k)
                 /\ EvictThen(DecodeTokens(Len(k)), "mem_check")
  /\ UNCHANGED <<mem, kvs, reqs, arrived, waiting, last, chunked, adder>>

\* check_decode_mem after its eviction.  "recheck" is the test of the
\* retraction loop, "last_check" the one after it.
CheckDecodeMem ==
  LET enough == Available >= DecodeTokens(Len(running))
  IN  /\ phase \in {"mem_check", "recheck", "last_check"}
      /\ IF enough THEN Enter("draft")
         ELSE IF phase = "last_check" THEN Enter("abort_last")
         ELSE IF Len(running) = 1
           THEN EvictThen(DecodeTokens(1), "last_check")
           ELSE Enter("retract")
      /\ UNCHANGED <<mem, kvs, reqs, sched>>

\* One turn of retract_decode: release_req of the last request.
Retract ==
  LET r == running[Len(running)]
      n == Len(running) - 1
  IN  /\ phase = "retract"
      /\ Drop(r)
      /\ running' = SubSeq(running, 1, n)
      /\ spec' = SubSeq(spec, 1, n)
      /\ waiting' = Queued(r)
      /\ full' = FALSE
      /\ EvictThen(n * RetractSteps, "retract_check")
      /\ UNCHANGED <<out, fill, finished, to_finish, gone, arrived, last, chunked, adder>>

\* The while condition of retract_decode calls check_decode_mem again.
RetractCheck ==
  /\ phase = "retract_check"
  /\ EvictThen(DecodeTokens(Len(running)), "recheck")
  /\ UNCHANGED <<mem, kvs, reqs, sched>>

\* Even the last request does not fit: it is aborted.
AbortLast ==
  LET r == running[1]
  IN  /\ phase = "abort_last"
      /\ Drop(r)
      /\ to_finish' = to_finish \cup {r}
      /\ gone' = gone \cup {r}
      /\ running' = <<>>
      /\ full' = FALSE
      /\ Enter("recv")
      /\ UNCHANGED <<out, fill, finished, arrived, waiting, spec, last, chunked, adder>>

-----------------------------------------------------------------------------
(* The DFLASH step (spec v1) on the running batch.                         *)

Plus(n) == [r \in Req |-> committed[r] + n]

\* _prepare_for_speculative_decoding up to restore_state: the draft block is
\* written behind the committed tokens, into the rest of the last page and into
\* pages that restore_state gives back; no cache entry is evicted for it.
DraftBlock ==
  LET S == Set(running)
      own == [r \in Req |-> Least(committed[r] + Block, AlignUp(committed[r]))]
  IN  /\ phase = "draft"
      /\ IF Total([r \in Req |-> NewPages(committed[r], committed[r] + Block)], S)
              > Cardinality(free)
           THEN Enter("oom") /\ UNCHANGED dkv
           ELSE /\ dkv' = Written(dkv, table, S, committed, own, committed)
                /\ EvictThen(EvictTokens(Len(running) * Block, Len(running)), "verify_alloc")
      /\ UNCHANGED <<mem, kv, reqs, sched>>

\* prepare_for_verify: slots for the whole block.
PrepareForVerify ==
  /\ phase = "verify_alloc"
  /\ Extend(Set(running), committed, Plus(Block), "verify")
  /\ UNCHANGED <<kvs, reqs, sched, goal, step, paused>>

\* Mutant of Appended: one rejected draft is committed.
AppendedOneMore(r, acc) ==
  IF r \in to_finish THEN 1 ELSE Least(acc + 2, Least(Block, FinishLen(r) - out[r]))

\* Tokens appended when acc drafts are accepted: the drafts and the target's
\* own token, up to the token that ends the request (an abort ends it at once).
Appended(r, acc) ==
  IF r \in to_finish THEN 1 ELSE Least(acc + 1, FinishLen(r) - out[r])

\* _compute_paged_keep_slots: pages a row keeps when n of its ext tokens are
\* committed.
KeepPages(n, ext) == PagesFor(Least(AlignUp(n), ext))

\* forward_batch_generation of a block: the target writes all of it, and the
\* committed tokens, those before upto[r], go into the draft KV; before right[r]
\* the tokens are the target's own.
ForwardVerify(S, upto, right) ==
  /\ kv' = Scrub(Written(kv, table, S, committed, Plus(Block), right), free' \ free)
  /\ dkv' = Scrub(Written(dkv, table, S, committed, upto, right), free' \ free)

\* The target forward over the block and DFlashVerifyInput.verify.
Verify ==
  LET S == Set(running)
      hi == Plus(Block)
  IN  /\ phase = "verify"
      /\ \E acc \in [S -> 0 .. Block - 1] :
           LET app == [r \in Req |-> IF r \in S THEN Appended(r, acc[r]) ELSE 0]
               upto == [r \in Req |-> committed[r] + app[r]]
               right == [r \in S |-> committed[r] + Least(acc[r] + 1, app[r])]
           IN  /\ Trim(S, [r \in S |-> KeepPages(upto[r], hi[r])])
               /\ ForwardVerify(S, upto, right)
               /\ committed' = upto
               /\ out' = [r \in Req |-> out[r] + app[r]]
               /\ finished' = finished \cup
                    {r \in S : r \in to_finish \/ out[r] + app[r] >= FinishLen(r)}
      /\ step' = 1
      /\ phase' = "decode_result"
      /\ UNCHANGED <<pre, fill, to_finish, gone, sched, goal, paused>>

\* process_batch_result_decode, one request of the batch.
DecodeResult ==
  LET r == running[step]
  IN  /\ phase = "decode_result" /\ step <= Len(running)
      /\ IF r \in finished THEN Finish(r) ELSE UNCHANGED <<mem, kvs>>
      /\ step' = step + 1
      /\ UNCHANGED <<reqs, sched, goal, phase, paused>>

DecodeDone ==
  /\ phase = "decode_result" /\ step > Len(running)
  /\ step' = 1
  /\ phase' = "recv"
  /\ UNCHANGED <<mem, kvs, reqs, sched, goal, paused>>

-----------------------------------------------------------------------------
\* One step of the event loop (event_loop_normal).
LoopStep ==
  \/ StashChunked \/ MergeLastBatch \/ PlanPrefill \/ AddOneReq \/ FinishAdder
  \/ EvictFromTreeCache \/ PrefillForward \/ PrefillResult \/ PrefillDone
  \/ UpdateRunningBatch \/ CheckDecodeMem \/ Retract \/ RetractCheck \/ AbortLast
  \/ DraftBlock \/ PrepareForVerify \/ Verify \/ DecodeResult \/ DecodeDone
  \/ PauseRelease \/ PauseDone

Next ==
  \/ LoopStep
  \/ \E r \in Req : HandleGenerateRequest(r) \/ AbortRequest(r)
  \/ PauseInPlace \/ PauseRetract \/ ContinueGeneration

Spec == Init /\ [][Next]_vars

\* The scheduler process keeps running its loop; a pause may last for ever.
FairSpec == Spec /\ WF_vars(LoopStep)

-----------------------------------------------------------------------------
(* Properties.                                                             *)

Phases == {"recv", "merge", "plan", "adding", "evict", "prefill_alloc",
           "prefill_result", "update", "mem_check", "recheck", "last_check",
           "retract", "retract_check", "abort_last", "draft", "verify_alloc",
           "verify", "decode_result", "pause_release", "oom"}

TypeOK ==
  /\ MemTypeOK
  /\ kv \in [Page -> [0 .. PageSize - 1 -> Seq(Nat)]]
  /\ dkv \in [Page -> [0 .. PageSize - 1 -> Seq(Nat)]]
  /\ out \in [Req -> Nat] /\ pre \in [Req -> Nat]
  /\ fill \in [Req -> Nat] /\ committed \in [Req -> Nat]
  /\ finished \subseteq Req /\ to_finish \subseteq Req /\ gone \subseteq Req
  /\ arrived \subseteq Req
  /\ waiting \in Seq(Req) /\ running \in Seq(Req)
  /\ spec \in Seq(Req) /\ last \in Seq(Req)
  /\ chunked \in Req \cup {NoReq} /\ full \in BOOLEAN
  /\ adder.list \in Seq(Req) /\ adder.new \in Req \cup {NoReq}
  /\ adder.off \in Nat /\ adder.cur \in Nat /\ adder.idx \in Nat
  /\ goal.need \in Nat /\ goal.then \in Phases
  /\ step \in Nat /\ phase \in Phases /\ paused \in BOOLEAN

\* What the cache promises to the next request with that prefix: every slot of
\* a cached page holds the target KV of the cached text, and the draft KV too
\* ("so radix cache entries are safe to reuse", dflash_worker.py).  Rejected
\* drafts and unfinished draft blocks must never be filed.
CachedKVCorrect ==
  \A p \in Cached : \A o \in 0 .. PageSize - 1 :
    LET text == SubSeq(p, 1, Len(p) - PageSize + o + 1)
    IN  kv[cache[p]][o] = text /\ dkv[cache[p]][o] = text

\* The KV the next forward of a request attends to is that of its own tokens,
\* in both models, whatever was accepted, rejected, retracted or shared.
CommittedKVCorrect ==
  \A r \in RowsHeld : \A i \in 0 .. committed[r] - 1 :
    LET p == table[r][(i \div PageSize) + 1]
        o == i % PageSize
    IN  kv[p][o] = Context(r, i) /\ dkv[p][o] = Context(r, i)

\* Admission, eviction and retraction keep the pool sufficient: no allocation
\* of a prefill, a draft block or a verify block ever fails, which would end
\* the scheduler process.
NeverOOM == phase # "oom"

\* At the head of the loop, rows belong exactly to the unfinished requests of
\* the batches, the chunked one among them; a row has exactly the pages of its
\* committed tokens, and these are all tokens but the newest (for the chunked
\* request: the chunks done so far).
RowsMatchBatches ==
  phase = "recv" =>
    /\ RowsHeld = (Set(running) \cup Set(last)) \ finished
    /\ chunked # NoReq => chunked \in RowsHeld
    /\ \A r \in RowsHeld :
         /\ Len(table[r]) = PagesFor(committed[r])
         /\ IF r = chunked THEN committed[r] = fill[r] /\ fill[r] < InputLen(r)
                           ELSE committed[r] = InputLen(r) - 1

\* A request is in one place only: queued, batched or answered, and only once.
OnePlace ==
  phase = "recv" =>
    LET count(s, r) == Cardinality({i \in DOMAIN s : s[i] = r})
    IN  \A r \in arrived :
          IF r \in finished THEN r \notin gone /\ count(waiting, r) = 0
          ELSE count(waiting, r) + count(running, r) + count(last, r)
               + (IF r \in gone THEN 1 ELSE 0) = 1

\* The state is well-typed, and batches, queue and rows agree.
BatchesExact == TypeOK /\ RowsMatchBatches /\ OnePlace

\* The draft state used for index i of the batch is that of request i: merges,
\* filters, retractions and the stale spec_info of an emptied batch never shift it.
SpecAligned == running # <<>> => spec = running

\* Prompts are cut one at a time ("assert self.chunked_req is None" in
\* _get_new_batch_prefill_raw): of the requests admitted so far at most one is
\* not computed to its end, and it is the one chunked_req will track; another cut
\* prompt would be taken for a finished prefill.
OneChunkedReq ==
  phase = "adding" =>
    /\ chunked = NoReq \/ adder.new = NoReq
    /\ {r \in Set(adder.list) : fill[r] < InputLen(r)} = {chunked, adder.new} \ {NoReq}

\* FCFS: one round admits a prefix of the queue; no request overtakes one that
\* was refused, whatever the sizes and cache hits of the requests behind it.
FirstComeFirstServed ==
  [][phase = "adding" /\ waiting' # waiting =>
       \E n \in 1 .. Len(waiting) : waiting' = SubSeq(waiting, n + 1, Len(waiting))]_vars

\* Every received request is answered, unless generation is paused (the
\* operator may leave it so).
EventuallyAnswered ==
  \A r \in Req : r \in arrived ~> r \in finished \cup gone \/ paused
=============================================================================
