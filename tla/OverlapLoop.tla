---------------------------- MODULE OverlapLoop ----------------------------
(***************************************************************************)
(* event_loop_overlap with EAGLE speculation (spec v2): a batch is launched *)
(* before the result of the batch before it is known to the scheduler.     *)
(* The scheduler therefore works with lengths that lag behind those of the  *)
(* device, allocates twice what a step can write, launches requests that    *)
(* turn out to be finished, and gives back memory and rows of requests a    *)
(* launched batch still uses (managers/scheduler.py,                        *)
(* scheduler_output_processor_mixin.py, schedule_batch.py,                  *)
(* speculative/eagle_info_v2.py).                                           *)
(*                                                                         *)
(* Memory is counted in pages.  Prompts are disjoint, so a page is free,    *)
(* evictable or held by the one request whose row it is in; pool counts the *)
(* first two.  Which pages these are is KVMemory's subject, the admission   *)
(* budgets are SpecScheduler's.                                            *)
(***************************************************************************)
EXTENDS Integers, Sequences, FiniteSets, FiniteSetsExt, SequencesExt, Collections

CONSTANTS
  Req,         \* request ids
  NoReq,       \* chunked_req = None
  PromptLen,   \* PromptLen[r]: len(origin_input_ids)
  MaxNew,      \* MaxNew[r]: max_new_tokens
  Draft,       \* speculative_num_draft_tokens, the tokens a step may write
  PageSize,    \* tokens per page
  NumPages,    \* pages of the KV pool
  ChunkSize,   \* chunked_prefill_size
  MaxRunning,  \* max_running_requests, also the rows of req_to_token
  Abortable,   \* requests an AbortReq may arrive for
  PauseModes,  \* pause_generation modes in use
  SyncPrefill, \* SGLANG_DISABLE_CONSECUTIVE_PREFILL_OVERLAP
  Grammar      \* requests with a grammar

ASSUME OverlapAssumption ==
  /\ IsFiniteSet(Req)
  /\ PromptLen \in [Req -> Nat \ {0}] /\ MaxNew \in [Req -> Nat \ {0}]
  /\ Draft \in Nat \ {0} /\ PageSize \in Nat \ {0} /\ NumPages \in Nat \ {0}
  /\ ChunkSize \in Nat \ {0} /\ ChunkSize % PageSize = 0
  /\ MaxRunning \in Nat \ {0}
  /\ NoReq \notin Req /\ Abortable \subseteq Req /\ Grammar \subseteq Req
  /\ PauseModes \subseteq {"in_place", "retract"}
  /\ SyncPrefill \in BOOLEAN

VARIABLES
  \* requests
  out,        \* out[r]: len(output_ids)
  fill,       \* fill[r]: tokens prefilled by launched batches
  committed,  \* committed[r]: kv_committed_len
  alloc,      \* alloc[r]: kv_allocated_len
  row,        \* row[r]: req_pool_idx, 0 for None
  chunks,     \* chunks[r]: is_chunked
  finished,   \* requests with a finished_reason
  to_finish,  \* requests marked by an abort
  retracted,  \* requests with is_retracted
  gone,       \* requests answered with an AbortReq
  \* the device
  seq,        \* seq[r]: new_seq_lens, known to the forward stream only
  \* the scheduler
  arrived, waiting, running, chunked, paused,
  cur,        \* the batch of this iteration
  last,       \* last_batch
  results,    \* result_queue
  rows,       \* free_slots of the ReqToTokenPool
  pool,       \* pages that are free or evictable
  phase       \* the place in the loop body

reqs == <<out, fill, committed, alloc, row, chunks, finished, to_finish, retracted, gone>>
vars == <<reqs, seq, arrived, waiting, running, chunked, paused, cur, last, results,
          rows, pool, phase>>

NoBatch == [mode |-> "none", reqs |-> <<>>, rows |-> <<>>]
CeilDiv(n) == (n + PageSize - 1) \div PageSize

Init ==
  /\ out = [r \in Req |-> 0] /\ fill = [r \in Req |-> 0]
  /\ committed = [r \in Req |-> 0] /\ alloc = [r \in Req |-> 0]
  /\ row = [r \in Req |-> 0] /\ chunks = [r \in Req |-> 0]
  /\ seq = [r \in Req |-> 0]
  /\ finished = {} /\ to_finish = {} /\ retracted = {} /\ gone = {}
  /\ arrived = {} /\ waiting = <<>> /\ running = <<>>
  /\ chunked = NoReq /\ paused = FALSE
  /\ cur = NoBatch /\ last = NoBatch /\ results = <<>>
  /\ rows = [i \in 1 .. MaxRunning |-> i]
  /\ pool = NumPages
  /\ phase = "recv"

-----------------------------------------------------------------------------
(* Releasing a request.                                                    *)

\* release_kv_cache of a request with kv_committed_len c and kv_allocated_len a:
\* cache_finished_req files or frees the pages of the n tokens it knows, cut at c,
\* then the over-allocated pages are freed.
ReleasedPages(c, n, a) == CeilDiv(Min({c, n})) + Max({0, CeilDiv(a) - CeilDiv(c)})

\* What release_kv_cache gives back for each request.
Released == [r \in Req |-> ReleasedPages(committed[r], PromptLen[r] + out[r], alloc[r])]

\* release_req of the requests S: is_insert=False, then reset_for_retract.
Reset(S) ==
  /\ committed' = [r \in Req |-> IF r \in S THEN 0 ELSE committed[r]]
  /\ alloc' = [r \in Req |-> IF r \in S THEN 0 ELSE alloc[r]]
  /\ fill' = [r \in Req |-> IF r \in S THEN 0 ELSE fill[r]]
  /\ chunks' = [r \in Req |-> IF r \in S THEN 0 ELSE chunks[r]]
  /\ row' = [r \in Req |-> IF r \in S THEN 0 ELSE row[r]]
  /\ retracted' = retracted \cup S

RowsOf(s) == [i \in DOMAIN s |-> row[s[i]]]

-----------------------------------------------------------------------------
(* process_input_requests, between two iterations.                         *)

HandleGenerateRequest(r) ==
  /\ phase = "recv" /\ r \notin arrived
  /\ arrived' = arrived \cup {r}
  /\ waiting' = Append(waiting, r)
  /\ UNCHANGED <<reqs, seq, running, chunked, paused, cur, last, results, rows, pool, phase>>

\* abort_request: drop it from the queue, or mark it where it runs.
AbortRequest(r) ==
  /\ phase = "recv" /\ r \in Abortable \cap arrived
  /\ r \notin gone \cup to_finish \cup finished
  /\ waiting' = Without(waiting, {r})
  /\ gone' = IF r \in Set(waiting) THEN gone \cup {r} ELSE gone
  /\ to_finish' = IF r \in Set(running) \cup Set(cur.reqs) THEN to_finish \cup {r} ELSE to_finish
  /\ UNCHANGED <<out, fill, committed, alloc, row, chunks, finished, retracted, seq, arrived,
                 running, chunked, paused, cur, last, results, rows, pool, phase>>

PauseInPlace ==
  /\ phase = "recv" /\ ~paused /\ "in_place" \in PauseModes
  /\ paused' = TRUE
  /\ UNCHANGED <<reqs, seq, arrived, waiting, running, chunked, cur, last, results, rows, pool, phase>>

ContinueGeneration ==
  /\ phase = "recv" /\ paused
  /\ paused' = FALSE
  /\ UNCHANGED <<reqs, seq, arrived, waiting, running, chunked, cur, last, results, rows, pool, phase>>

\* pause_generation(mode="retract"): the pending result is processed first.
PauseRetract ==
  /\ phase = "recv" /\ "retract" \in PauseModes
  /\ paused' = TRUE
  /\ phase' = IF last = NoBatch THEN "pause" ELSE "pause_pop"
  /\ UNCHANGED <<reqs, seq, arrived, waiting, running, chunked, cur, last, results, rows, pool>>

\* Then the last prefill batch, an unfinished chunk included, joins the running
\* batch and the whole batch is retracted and queued again.
PauseMerge ==
  /\ phase = "pause"
  /\ \E more \in {IF last.mode = "extend" THEN Without(last.reqs, finished) ELSE <<>>} :
     \E batch \in {Without(running \o more, finished)} :
         /\ Reset(Set(batch))
         /\ rows' = rows \o RowsOf(batch)
         /\ pool' = pool + Total(Released, Set(batch))
         /\ waiting' = waiting \o batch
         /\ running' = <<>>
         /\ chunked' = IF running \o more = <<>> THEN chunked ELSE NoReq
  /\ last' = NoBatch /\ cur' = NoBatch
  /\ phase' = "recv"
  /\ UNCHANGED <<out, finished, to_finish, gone, seq, arrived, paused, results>>

-----------------------------------------------------------------------------
(* get_next_batch_to_run.                                                  *)

\* The last prefill batch joins the running batch; its results may still be
\* pending, so requests that finished with their first token join as well.
MergeLastBatch ==
  /\ phase = "recv" /\ ~paused
  /\ running' = IF last.mode = "extend" THEN running \o Without(last.reqs, finished \cup {chunked})
                                        ELSE running
  /\ phase' = "sched"
  /\ UNCHANGED <<reqs, seq, arrived, waiting, chunked, paused, cur, last, results, rows, pool>>

\* is_disable_overlap_for_batch.
DisableOverlap(batch) ==
  \/ SyncPrefill /\ batch.mode = "extend" /\ last.mode = "extend"
  \/ batch.mode = "decode" /\ Set(batch.reqs) \cap Grammar # {} /\ results # <<>>

\* After the batch is chosen: pop first when it may not overlap the pending one.
Chosen(batch) ==
  /\ cur' = batch
  /\ phase' = IF DisableOverlap(batch) THEN "early" ELSE "run"

\* What a request still has to prefill (fill_ids = prompt and outputs).
Rest == [r \in Req |-> PromptLen[r] + out[r] - fill[r]]

\* get_num_allocatable_reqs: requests count until update_running_batch drops them.
Allocatable == Min({MaxRunning - Len(running), Len(rows)})

\* The batch of the chunked request and the first n requests of the queue: each
\* fits the chunk budget the ones before it left, the last may be cut.
Candidates(n) == (IF chunked = NoReq THEN <<>> ELSE <<chunked>>) \o SubSeq(waiting, 1, n)

Budget(list, i) == ChunkSize - Total(Rest, Set(SubSeq(list, 1, i - 1)))
Take(list, i) == LET b == Budget(list, i)
                 IN  IF Rest[list[i]] <= b THEN Rest[list[i]] ELSE (b \div PageSize) * PageSize
Admissible(list) ==
  /\ list # <<>>
  /\ \A i \in DOMAIN list : Take(list, i) > 0
  /\ \A i \in DOMAIN list : i < Len(list) => Take(list, i) = Rest[list[i]]

\* ReqToTokenPool.alloc: rows from the front of free_slots.
TakeRows(k) == SubSeq(rows, 1, k)

\* The tokens prefilled of each request once the batch list has run.
Goal(list) == [r \in Req |-> IF r \in Set(list)
                             THEN fill[r] + Take(list, CHOOSE i \in DOMAIN list : list[i] = r)
                             ELSE fill[r]]

\* prepare_for_extend of the batch list, the last n of it from the queue: the batch
\* fits and is prefilled up to goal; at most one request is left unfinished.
PrepareForExtend(n, list, goal) ==
  LET need == Total([r \in Req |-> CeilDiv(goal[r]) - CeilDiv(alloc[r])], Set(list))
      new == SubSeq(waiting, 1, n)
      cut == {r \in Set(list) : goal[r] < PromptLen[r] + out[r]}
  IN  /\ n > 0 => Len(list) <= Allocatable
      /\ need <= pool
      /\ fill' = goal
      /\ committed' = [r \in Req |-> IF r \in Set(list) THEN goal[r] ELSE committed[r]]
      /\ alloc' = [r \in Req |-> IF r \in Set(list) THEN goal[r] ELSE alloc[r]]
      /\ pool' = pool - need
      /\ row' = [r \in Req |-> IF r \in Set(new)
                               THEN TakeRows(n)[CHOOSE i \in 1 .. n : new[i] = r] ELSE row[r]]
      /\ rows' = Without(rows, Set(TakeRows(n)))
      /\ retracted' = retracted \ Set(list)
      /\ chunked' = IF cut = {} THEN NoReq ELSE CHOOSE r \in cut : TRUE
      /\ chunks' = [r \in Req |-> IF r \in cut THEN chunks[r] + 1 ELSE chunks[r]]
      /\ waiting' = SubSeq(waiting, n + 1, Len(waiting))
      /\ Chosen([mode |-> "extend", reqs |-> list, rows |-> [i \in DOMAIN list |-> row'[list[i]]]])

\* _get_new_batch_prefill_raw.
GetNewBatchPrefill ==
  /\ phase = "sched"
  /\ \E n \in 0 .. Len(waiting) : \E list \in {Candidates(n)} :
       Admissible(list) /\ PrepareForExtend(n, list, Goal(list))
  /\ UNCHANGED <<out, finished, to_finish, gone, seq, arrived, running, paused, last, results>>

\* Mutant of NextAlloc: room for one step only.
NextAllocOne(r) == committed[r] + Draft

\* prepare_for_decode: kv_committed_len lags by what the launched step accepts, so
\* two steps are allocated ahead of it.
NextAlloc(r) == committed[r] + 2 * Draft

\* Mutant of DecodePages: the estimate of one step.
DecodePagesOne(S) ==
  Total([r \in Req |-> CeilDiv(Max({alloc[r], committed[r] + Draft})) - CeilDiv(alloc[r])], S)

\* _new_tokens_required_next_decode_spec_v2, in pages.
DecodePages(S) ==
  Total([r \in Req |-> CeilDiv(Max({alloc[r], NextAlloc(r)})) - CeilDiv(alloc[r])], S)

\* No new prefill batch: nothing to prefill, no room, or a budget that says so
\* while requests are running.
NoPrefill == chunked = NoReq /\ (waiting = <<>> \/ Allocatable <= 0 \/ running # <<>>)

\* retract_decode: from the back until the rest fits, at least one goes and one
\* stays; a last one that does not fit is released and answered with an abort.
Kept(batch, avail) ==
  LET given(k) == Total(Released, Set(SubSeq(batch, k + 1, Len(batch))))
      fits(k) == DecodePages(Set(SubSeq(batch, 1, k))) <= avail + given(k)
      k == IF Len(batch) = 1 THEN 1
           ELSE Max({j \in 1 .. Len(batch) - 1 : fits(j)} \cup {1})
  IN  IF k = 1 /\ ~fits(1) THEN 0 ELSE k

\* Mutant of Requeued: retracted requests are not queued again.
RequeuedNone(victims, lost) == <<>>

\* The retracted requests that _add_request_to_queue takes back.
Requeued(victims, lost) == Without(victims, lost)

\* prepare_for_decode of the first k requests of the batch, the others are retracted.
PrepareForDecode(batch, k) ==
  LET keep == SubSeq(batch, 1, k)
      drop == SubSeq(batch, k + 1, Len(batch))
      victims == Reverse(drop)
      lost == IF k = 0 /\ batch # <<>> THEN {batch[1]} ELSE {}
      grown == [r \in Req |-> CeilDiv(NextAlloc(r)) - CeilDiv(alloc[r])]
  IN  /\ running' = keep
      /\ pool' = pool + Total(Released, Set(drop)) - Total(grown, Set(keep))
      /\ committed' = [r \in Req |-> IF r \in Set(keep) THEN committed[r] + 1
                                     ELSE IF r \in Set(drop) THEN 0 ELSE committed[r]]
      /\ alloc' = [r \in Req |-> IF r \in Set(keep) THEN NextAlloc(r)
                                 ELSE IF r \in Set(drop) THEN 0 ELSE alloc[r]]
      /\ fill' = [r \in Req |-> IF r \in Set(drop) THEN 0 ELSE fill[r]]
      /\ chunks' = [r \in Req |-> IF r \in Set(drop) THEN 0 ELSE chunks[r]]
      /\ row' = [r \in Req |-> IF r \in Set(drop) THEN 0 ELSE row[r]]
      /\ rows' = rows \o RowsOf(victims)
      /\ retracted' = retracted \cup Set(drop)
      /\ to_finish' = to_finish \cup lost
      /\ gone' = gone \cup lost
      /\ waiting' = waiting \o Requeued(victims, lost)
      /\ Chosen(IF keep = <<>> THEN NoBatch
                ELSE [mode |-> "decode", reqs |-> keep, rows |-> RowsOf(keep)])

\* update_running_batch.
UpdateRunningBatch ==
  /\ phase = "sched" /\ NoPrefill
  /\ \E batch \in {Without(running, finished)} :
     \E k \in {IF DecodePages(Set(batch)) <= pool THEN Len(batch) ELSE Kept(batch, pool)} :
       PrepareForDecode(batch, k)
  /\ UNCHANGED <<out, finished, seq, arrived, chunked, paused, last, results>>

-----------------------------------------------------------------------------
(* The rest of the loop body.                                              *)

\* self.last_batch = batch.
EndIteration == last' = cur /\ phase' = "recv"

\* run_batch: the device runs the batch after all that were launched before it.
\* A prefill computes fill[r] positions; a decode step accepts acc[r] tokens.
RunBatch ==
  /\ phase \in {"run", "run_synced"}
  /\ IF cur = NoBatch THEN UNCHANGED <<seq, results>>
     ELSE \E acc \in [Set(cur.reqs) -> IF cur.mode = "decode" THEN 1 .. Draft ELSE {0}] :
            /\ seq' = [r \in Req |-> IF r \notin Set(cur.reqs) THEN seq[r]
                                     ELSE IF cur.mode = "decode" THEN seq[r] + acc[r] ELSE fill[r]]
            /\ results' = Append(results, [mode |-> cur.mode, reqs |-> cur.reqs,
                                           rows |-> cur.rows, acc |-> acc])
  /\ IF phase = "run" /\ last # NoBatch THEN phase' = "late" /\ UNCHANGED last ELSE EndIteration
  /\ UNCHANGED <<reqs, arrived, waiting, running, chunked, paused, cur, rows, pool>>

\* The requests whose late results are skipped.
Ignored == finished \cup retracted

\* Mutant of Resolved: the accepted drafts are not counted.
ResolvedNone(b, r) == committed[r]

\* _resolve_spec_overlap_token_ids: for every request of the batch, also those
\* that are finished or retracted by now.
Resolved(b, r) == committed[r] + IF b.mode = "decode" THEN b.acc[r] - 1 ELSE 0

\* Mutant of PrefillDone: asks which request is being chunked by now.
PrefillDoneNow(r) == r # chunked

\* process_batch_result_prefill: the batch held the last chunk of r.
PrefillDone(r) == chunks[r] <= 0

\* process_batch_result of the oldest pending batch: tokens, finish conditions
\* and the release of what is finished.
ProcessBatchResult ==
  /\ phase \in {"early", "late", "pause_pop"}
  /\ LET b == Head(results)
         live == Set(b.reqs) \ Ignored
         more(r) == IF r \notin live THEN 0
                    ELSE IF b.mode = "decode" THEN b.acc[r]
                    ELSE IF PrefillDone(r) THEN 1 ELSE 0
         o == [r \in Req |-> out[r] + more(r)]
         c == [r \in Req |-> IF r \in Set(b.reqs) THEN Resolved(b, r) ELSE committed[r]]
         done == {r \in live : more(r) > 0 /\ (r \in to_finish \/ o[r] >= MaxNew[r])}
         ended == Only(b.reqs, done)
     IN  /\ out' = o
         /\ committed' = c
         /\ chunks' = [r \in Req |-> IF r \in live /\ b.mode = "extend" /\ ~PrefillDone(r)
                                     THEN chunks[r] - 1 ELSE chunks[r]]
         /\ finished' = finished \cup done
         /\ to_finish' = to_finish \ done
         /\ pool' = pool + Total([r \in Req |-> ReleasedPages(c[r], PromptLen[r] + o[r], alloc[r])],
                                 done)
         /\ rows' = rows \o RowsOf(ended)
         /\ row' = [r \in Req |-> IF r \in done THEN 0 ELSE row[r]]
  /\ results' = Tail(results)
  /\ IF phase = "late" THEN EndIteration
     ELSE /\ phase' = IF phase = "early" THEN "run_synced" ELSE "pause"
          /\ UNCHANGED last
  /\ UNCHANGED <<fill, alloc, retracted, gone, seq, arrived, waiting, running, chunked, paused, cur>>

LoopStep ==
  \/ MergeLastBatch \/ GetNewBatchPrefill \/ UpdateRunningBatch
  \/ RunBatch \/ ProcessBatchResult \/ PauseMerge

Next ==
  \/ LoopStep
  \/ \E r \in Req : HandleGenerateRequest(r) \/ AbortRequest(r)
  \/ PauseInPlace \/ PauseRetract \/ ContinueGeneration

Spec == Init /\ [][Next]_vars

\* The loop runs on.  Nobody has to end a pause.
FairSpec == Spec /\ WF_vars(LoopStep)

-----------------------------------------------------------------------------
(* Properties.                                                             *)

Modes == {"none", "extend", "decode"}
IsBatch(b) == b.mode \in Modes /\ b.reqs \in Seq(Req) /\ Len(b.rows) = Len(b.reqs)

TypeOK ==
  /\ out \in [Req -> Nat] /\ fill \in [Req -> Nat] /\ seq \in [Req -> Nat]
  /\ committed \in [Req -> Nat] /\ alloc \in [Req -> Nat]
  /\ row \in [Req -> 0 .. MaxRunning] /\ chunks \in [Req -> Nat]
  /\ finished \cup to_finish \cup retracted \cup gone \subseteq arrived
  /\ waiting \in Seq(Req) /\ running \in Seq(Req) /\ rows \in Seq(1 .. MaxRunning)
  /\ chunked \in Req \cup {NoReq}
  /\ IsBatch(cur) /\ IsBatch(last)
  /\ \A i \in DOMAIN results : IsBatch(results[i])
  /\ pool \in 0 .. NumPages

Holding == {r \in Req : row[r] # 0}

\* Late results of request r.
Pending(r) == {i \in DOMAIN results : r \in Set(results[i].reqs)}

\* A batch of r is prepared and not launched yet.
Prepared(r, mode) ==
  phase \in {"early", "run", "run_synced"} /\ cur.mode = mode /\ r \in Set(cur.reqs)

\* kv_committed_len of a running request is what the device has computed, short by
\* the accepted drafts of the results still in the queue and ahead by the token
\* claimed for a step that is prepared: the lag never drifts, whatever was
\* retracted, aborted, paused or prefilled again while results were pending.
CommittedLags ==
  \A r \in Holding :
    LET decodes == {i \in Pending(r) : results[i].mode = "decode"}
        behind == Total([i \in decodes |-> results[i].acc[r] - 1], decodes)
    IN  IF Prepared(r, "extend") THEN committed[r] = fill[r]
        ELSE committed[r] + behind = seq[r] + (IF Prepared(r, "decode") THEN 1 ELSE 0)

\* A result is popped only when one is there, and it is the result of last_batch:
\* the branches that skip or advance a pop stay in step with the queue.
QueueInStep ==
  /\ phase \in {"recv", "sched", "early", "run", "pause_pop"} =>
       Len(results) = (IF last = NoBatch THEN 0 ELSE 1)
  /\ phase \in {"early", "late", "pause_pop"} =>
       results # <<>> /\ Head(results).reqs = last.reqs

\* Every result is applied once and to the run of the request it belongs to: the
\* outputs known plus those in the queue are what the device produced.
ResultsApplied ==
  /\ QueueInStep
  /\ \A r \in Holding :
       LET decodes == {i \in Pending(r) : results[i].mode = "decode"}
           tokens == Total([i \in decodes |-> results[i].acc[r]], decodes)
           first == IF \E i \in Pending(r) : results[i].mode = "extend" THEN 1 ELSE 0
       IN  r # chunked /\ ~Prepared(r, "extend") =>
             PromptLen[r] + out[r] + tokens + first = seq[r] + 1

\* A row given back by a finished request is not handed to a new one while a
\* launched batch still resolves its KV slots through it: free_slots is a FIFO
\* and finished requests count as running until the batch is filtered.
RowNotReused ==
  \A i \in DOMAIN results : \A j \in DOMAIN results[i].rows :
    LET w == results[i].rows[j]
    IN  w # 0 => \A r \in Req : row[r] = w => r = results[i].reqs[j]

\* A decode step of a request that holds its row writes at most Draft tokens behind
\* what the device has computed, inside what was allocated when the scheduler
\* knew less, and in a row that is still its own.
WritesAllocated ==
  /\ RowNotReused
  /\ \A r \in Holding : Prepared(r, "decode") => seq[r] + Draft <= alloc[r]

\* Every page is available or belongs to a row: releasing a request early or late,
\* with a claimed token, a rejected draft or an over-allocated tail, returns each
\* of its pages once.
PoolExact ==
  /\ TypeOK
  /\ pool + Total([r \in Req |-> CeilDiv(alloc[r])], Holding) = NumPages

\* Every received request is answered, although results come late, requests are retracted
\* with results pending and finished requests are launched again, unless the engine
\* is paused over and over or for good.
EventuallyAnswered ==
  \A r \in Req : (r \in arrived) ~> (r \in finished \cup gone \/ paused)
=============================================================================
