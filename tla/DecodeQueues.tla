---------------------------- MODULE DecodeQueues ----------------------------
(***************************************************************************)
(* The queues and the memory budget of a decode server in prefill/decode    *)
(* disaggregation (disaggregation/decode.py): requests wait for memory      *)
(* (prealloc), hold it while prefill computes and transfers (transfer),     *)
(* wait for a place in the batch (waiting), run, and may be retracted to    *)
(* CPU memory and resumed.  event_loop_normal_disagg_decode without radix   *)
(* cache and without speculation; Disagg models the transfer itself.        *)
(***************************************************************************)
EXTENDS Integers, Sequences, FiniteSets, FiniteSetsExt, SequencesExt, Collections

CONSTANTS
  Req,        \* requests
  Loads,      \* the workloads: [prompt, new], len(origin_input_ids) and
              \* max_new_tokens of each request
  PageSize,
  NPages,     \* pages of the KV pool
  Reserved,   \* num_reserved_decode_tokens (512)
  Clip,       \* CLIP_MAX_NEW_TOKEN (4096)
  MaxRunning, \* max_running_requests
  PreAlloc,   \* pre_alloc_size: rows besides those of the running requests
  Aborts      \* requests the client may abort

\* What validate_input_length and init_req_max_new_tokens accept; a
\* reservation that covers the rounding to pages; and a prompt that can be
\* admitted into the empty pool at all.
ASSUME QueuesAssumption ==
  /\ IsFiniteSet(Req) /\ Aborts \subseteq Req
  /\ {PageSize, NPages, Clip, MaxRunning} \subseteq Nat \ {0}
  /\ {Reserved, PreAlloc} \subseteq Nat
  /\ Reserved >= PageSize - 1
  /\ \A l \in Loads :
       /\ l.prompt \in [Req -> Nat \ {0}] /\ l.new \in [Req -> Nat \ {0}]
       /\ \A r \in Req : /\ l.prompt[r] + l.new[r] <= NPages * PageSize - 2
                         /\ l.prompt[r] + Reserved <= NPages * PageSize

VARIABLES
  load,      \* the workload
  pc,        \* the place in the loop body
  prealloc,  \* DecodePreallocQueue.queue
  ready,     \* requests with waiting_for_input
  transfer,  \* DecodeTransferQueue.queue
  poll,      \* poll[r]: what the receiver's poll says: "wait", "input" after the
             \* handshake, then "ok"; or "failed"
  waiting,   \* waiting_queue
  running,   \* running_batch; finished requests leave it at the next filter
  retracted, \* retracted_queue
  out,       \* out[r]: len(output_ids)
  kv,        \* kv[r]: kv_committed_len
  free,      \* free pages
  to_finish, \* aborted while running
  finished,  \* requests with a finished_reason
  answered   \* answered[r]: how often the request was answered

vars == <<load, pc, prealloc, ready, transfer, poll, waiting, running, retracted,
          out, kv, free, to_finish, finished, answered>>

-----------------------------------------------------------------------------
Prompt(r) == load.prompt[r]
MaxNew(r) == load.new[r]
CeilDiv(n) == (n + PageSize - 1) \div PageSize
Rows == MaxRunning + PreAlloc
Slots == 2 * MaxRunning
Placed == Set(prealloc) \cup Set(transfer) \cup Set(waiting) \cup Set(running)
            \cup Set(retracted)

\* Requests that hold a row of req_to_token: released ones have kv = 0.
Holding == {r \in Req : kv[r] > 0}

Answer(S) == answered' = [r \in Req |-> IF r \in S THEN Min({2, answered[r] + 1})
                                        ELSE answered[r]]
\* The pages of each request.
PagesOf == [r \in Req |-> CeilDiv(kv[r])]

\* Mutant of FreeOf: the slot of the last token is not released.
FreeOfLess(S) == free + Total([r \in S |-> CeilDiv(Max({kv[r] - 1, 0}))], S)

\* release_kv_cache of the requests in S.
FreeOf(S) == free + Total(PagesOf, S)
Zero(f, S) == [r \in Req |-> IF r \in S THEN 0 ELSE f[r]]

Init ==
  /\ load \in Loads
  /\ pc = "input"
  /\ prealloc = <<>> /\ transfer = <<>> /\ waiting = <<>>
  /\ running = <<>> /\ retracted = <<>>
  /\ ready = {} /\ to_finish = {} /\ finished = {}
  /\ poll = [r \in Req |-> "wait"]
  /\ out = [r \in Req |-> 0] /\ kv = [r \in Req |-> 0]
  /\ free = NPages
  /\ answered = [r \in Req |-> 0]

-----------------------------------------------------------------------------
(* Inputs: requests and aborts at the head of the loop, progress of the      *)
(* handshake and of the transfer at any time.                                *)

Receive(r) ==
  /\ pc = "input" /\ r \notin Placed /\ answered[r] = 0
  /\ prealloc' = Append(prealloc, r)
  /\ UNCHANGED <<pc, ready, transfer, poll, waiting, running, retracted, out,
                 kv, free, to_finish, finished, answered>>

\* The receiver reaches WaitingForInput.
Handshake(r) ==
  /\ r \in Set(prealloc) /\ poll[r] = "wait"
  /\ poll' = [poll EXCEPT ![r] = "input"]
  /\ UNCHANGED <<pc, prealloc, ready, transfer, waiting, running, retracted, out,
                 kv, free, to_finish, finished, answered>>

\* The transfer succeeds or fails.
TransferEnds(r) ==
  /\ r \in Set(transfer) /\ poll[r] = "input"
  /\ \E s \in {"ok", "failed"} : poll' = [poll EXCEPT ![r] = s]
  /\ UNCHANGED <<pc, prealloc, ready, transfer, waiting, running, retracted, out,
                 kv, free, to_finish, finished, answered>>

\* A queued or retracted request leaves at once; a receiver only learns of it.
AbortRequest(r) ==
  /\ pc = "input" /\ r \in Aborts \cap Placed
  /\ LET gone == {r} \cap (Set(waiting) \cup Set(retracted))
     IN /\ waiting' = Without(waiting, gone)
        /\ retracted' = Without(retracted, gone)
        /\ free' = FreeOf(gone) /\ kv' = Zero(kv, gone)
        /\ Answer(gone)
  /\ poll' = IF r \in Set(prealloc) \cup Set(transfer)
             THEN [poll EXCEPT ![r] = "failed"] ELSE poll
  /\ to_finish' = to_finish \cup ({r} \cap (Set(running) \ finished))
  /\ UNCHANGED <<pc, prealloc, ready, transfer, running, out, finished>>

-----------------------------------------------------------------------------
(* process_decode_queue                                                      *)

\* Mutant of Left: the budget of the call's start is used for every request.
LeftStale(pages) == free * PageSize

\* available_size after `pages` were allocated in this call.
Left(pages) == (free - pages) * PageSize

\* _allocatable_tokens with `avail` free tokens, `extra` requests admitted in
\* this call, and `single` tokens kept for a request that runs alone.  The
\* retracted queue is empty or not counted, and no prebuilt batch is last_batch.
Allocatable(avail, extra, single) ==
  avail - Max({Reserved * (Len(running) + Len(transfer) + Len(waiting) + extra),
               single})

\* The tokens or pages f of the first n requests of s.
SumTo(s, n, f) == Total(f, Set(SubSeq(s, 1, n)))

\* What a retracted request needs to be resumed.
Resumption == [r \in Req |-> Prompt(r) + out[r] + Reserved]

FillLen(r) == Prompt(r) + Max({out[r] - 1, 0})

\* resume_retracted_reqs: in order, until a row or memory is missing.  The
\* assertions of _pre_alloc end the process (pc = "crashed").
ResumeRetracted ==
  /\ pc = "input"
  /\ LET budget == Allocatable(Left(0), 0, 0)
         fits(j) == /\ Cardinality(Holding) + j <= Rows
                    /\ SumTo(retracted, j, Resumption) <= budget
         k == Max({n \in 0 .. Len(retracted) : \A j \in 1 .. n : fits(j)})
         resumed == SubSeq(retracted, 1, k)
         pages == SumTo(retracted, k, [r \in Req |-> CeilDiv(FillLen(r))])
     IN IF pages > free
        THEN /\ pc' = "crashed"
             /\ UNCHANGED <<waiting, retracted, kv, free>>
        ELSE /\ waiting' = waiting \o resumed
             /\ retracted' = SubSeq(retracted, k + 1, Len(retracted))
             /\ kv' = [r \in Req |-> IF r \in Set(resumed) THEN FillLen(r) ELSE kv[r]]
             /\ free' = free - pages
             /\ pc' = IF retracted' # <<>> THEN "batch" ELSE "prealloc"
  /\ UNCHANGED <<prealloc, ready, transfer, poll, running, out, to_finish,
                 finished, answered>>

Clipped(r) == Min({MaxNew(r), Clip})

\* _update_handshake_waiters polls nobody when all requests wait for memory.
Polled(s) == {r \in Set(prealloc) : poll[r] = s /\ ~(Set(prealloc) \subseteq ready)}

\* pop_preallocated: requests found to have failed are answered, the others are
\* admitted in order while the projected memory can be met.  A request whose
\* handshake is not done is passed over.
PopPreallocated ==
  /\ pc = "prealloc"
  /\ ready' = ready \cup Polled("input")
  /\ LET failed == Polled("failed")
         queue == Only(prealloc, ready' \ failed)
         retractable == Total([r \in Req |-> Prompt(r) + out[r]], Set(running))
         single == IF running = <<>> THEN 0
                   ELSE Max({Clipped(r) + Prompt(r) - retractable : r \in Set(running)})
         pagesTo(j) == SumTo(queue, j, [r \in Req |-> CeilDiv(Prompt(r))])
         fits(j) ==
           LET r == queue[j] IN
           /\ Cardinality(Holding) + j <= Rows
           /\ Len(transfer) + j <= Slots
           /\ Max({Prompt(r) + Reserved, Prompt(r) + Clipped(r) - retractable})
                <= Allocatable(Left(pagesTo(j - 1)), j - 1, single)
         k == Max({n \in 0 .. Len(queue) : \A j \in 1 .. n : fits(j)})
         taken == SubSeq(queue, 1, k)
     IN IF pagesTo(k) > free
        THEN /\ pc' = "crashed"
             /\ UNCHANGED <<prealloc, transfer, kv, free, answered>>
        ELSE /\ prealloc' = Without(prealloc, failed \cup Set(taken))
             /\ transfer' = transfer \o taken
             /\ kv' = [r \in Req |-> IF r \in Set(taken) THEN Prompt(r) ELSE kv[r]]
             /\ free' = free - pagesTo(k)
             /\ Answer(failed)
             /\ pc' = "transfer"
  /\ UNCHANGED <<poll, waiting, running, retracted, out, to_finish, finished>>

\* pop_transferred: failed transfers are released, the others bring the
\* first output token.
PopTransferred ==
  /\ pc = "transfer"
  /\ LET failed == {r \in Set(transfer) : poll[r] = "failed"}
         landed == {r \in Set(transfer) : poll[r] = "ok"}
     IN /\ transfer' = Without(transfer, failed \cup landed)
        /\ waiting' = waiting \o Only(transfer, landed)
        /\ out' = [r \in Req |-> IF r \in landed THEN 1 ELSE out[r]]
        /\ free' = FreeOf(failed) /\ kv' = Zero(kv, failed)
        /\ Answer(failed)
  /\ pc' = "batch"
  /\ UNCHANGED <<prealloc, ready, poll, running, retracted, to_finish, finished>>

-----------------------------------------------------------------------------
(* get_next_disagg_decode_batch_to_run, run_batch, process_batch_result      *)

\* check_finished: any request may emit a stop token, some must stop.
Stops(S, o) == {F \in SUBSET S : \A r \in S : o[r] >= MaxNew(r) \/ r \in to_finish => r \in F}

\* Mutant of FreePlaces: the requests that wait for a place count as placed.
FreePlacesHeld == Max({0, MaxRunning - Cardinality(Holding)})

\* get_new_prebuilt_batch: the places left in the running batch.
FreePlaces == Max({0, MaxRunning - Len(running)})

\* get_new_prebuilt_batch, process_batch_result_prebuilt, filter and merge.
Prebuilt ==
  /\ pc = "batch"
  /\ LET n == Min({Len(waiting), FreePlaces})
         batch == SubSeq(waiting, 1, n)
     IN \E F \in Stops(Set(batch), out) :
          /\ waiting' = SubSeq(waiting, n + 1, Len(waiting))
          /\ running' = running \o Without(batch, F)
          /\ finished' = finished \cup F
          /\ free' = FreeOf(F) /\ kv' = Zero(kv, F)
          /\ Answer(F)
  /\ pc' = "decode"
  /\ UNCHANGED <<prealloc, ready, transfer, poll, retracted, out, to_finish>>

\* new_tokens_required_next_decode, in pages.
DecodePages(S) == Cardinality({r \in S : kv[r] % PageSize = 0})

\* The order of retract_decode: fewest output tokens, then longest prompt, is
\* retracted first; Python's sort is stable.
Before(s, i, j) ==
  \/ out[s[i]] > out[s[j]]
  \/ out[s[i]] = out[s[j]] /\ Prompt(s[i]) < Prompt(s[j])
  \/ out[s[i]] = out[s[j]] /\ Prompt(s[i]) = Prompt(s[j]) /\ i < j

Place(s, i) == 1 + Cardinality({j \in DOMAIN s : Before(s, j, i)})

Sorted(s) == [n \in DOMAIN s |-> s[CHOOSE i \in DOMAIN s : Place(s, i) = n]]

\* retract_decode keeps the longest part of the sorted batch that fits, at
\* most all but one and at least one.
Keep(s) ==
  LET fits(n) == DecodePages(Set(SubSeq(s, 1, n)))
                   <= FreeOf(Set(SubSeq(s, n + 1, Len(s))))
  IN IF Len(s) = 1 THEN 1 ELSE Max({1} \cup {n \in 1 .. Len(s) - 1 : fits(n)})

\* The requests retracted when n remain, in the order they are queued again.
Victims(s, n) == Reverse(SubSeq(s, n + 1, Len(s)))

\* check_decode_mem.
Enough(s) == DecodePages(Set(s)) <= free

\* update_running_batch and the decode step of the requests that remain.
Decode ==
  /\ pc = "decode"
  /\ \E batch \in {Without(running, finished)} :
     \E s \in {IF Enough(batch) THEN batch ELSE Sorted(batch)} :
     \E n \in {IF Enough(batch) THEN Len(s) ELSE Keep(s)} :
     LET victims == Victims(s, n)
         left == FreeOf(Set(victims))
         lost == IF n > 0 /\ DecodePages(Set(SubSeq(s, 1, n))) > left
                 THEN {s[1]} ELSE {}
         kept == Without(SubSeq(s, 1, n), lost)
         gone == Set(victims) \cup lost
         grown == [r \in Req |-> IF r \in Set(kept) THEN out[r] + 1 ELSE out[r]]
     IN \E F \in Stops(Set(kept), grown) :
          /\ running' = kept
          /\ retracted' = retracted \o victims
          /\ out' = grown
          /\ kv' = [r \in Req |-> IF r \in gone \cup F THEN 0
                                  ELSE IF r \in Set(kept) THEN kv[r] + 1 ELSE kv[r]]
          /\ free' = FreeOf(gone) - DecodePages(Set(kept))
                       + Total([r \in Req |-> CeilDiv(kv[r] + 1)], F)
          /\ finished' = finished \cup F
          /\ Answer(F \cup lost)
  /\ pc' = "input"
  /\ UNCHANGED <<prealloc, ready, transfer, poll, waiting, to_finish>>

LoopStep == ResumeRetracted \/ PopPreallocated \/ PopTransferred \/ Prebuilt \/ Decode

Step == LoopStep \/ \E r \in Req : Receive(r) \/ Handshake(r) \/ TransferEnds(r) \/ AbortRequest(r)

Next == Step /\ UNCHANGED load

Spec == Init /\ [][Next]_vars

\* The loop runs, and the prefill side ends every handshake and transfer.
FairSpec ==
  /\ Spec
  /\ WF_vars(LoopStep /\ UNCHANGED load)
  /\ \A r \in Req : /\ WF_vars(Handshake(r) /\ UNCHANGED load)
                    /\ WF_vars(TransferEnds(r) /\ UNCHANGED load)

-----------------------------------------------------------------------------
TypeOK ==
  /\ load \in Loads
  /\ pc \in {"input", "prealloc", "transfer", "batch", "decode", "crashed"}
  /\ \A s \in {prealloc, transfer, waiting, running, retracted} : s \in Seq(Req)
  /\ ready \subseteq Req /\ to_finish \subseteq Req /\ finished \subseteq Req
  /\ poll \in [Req -> {"wait", "input", "ok", "failed"}]
  /\ \A r \in Req : out[r] \in 0 .. MaxNew(r) /\ kv[r] \in 0 .. Prompt(r) + MaxNew(r)
  /\ free \in 0 .. NPages
  /\ answered \in [Req -> 0 .. 1]

\* A request is in one queue, or was answered, once.
OnePlace ==
  LET queues == <<prealloc, transfer, waiting, Without(running, finished), retracted>>
  IN \A i \in DOMAIN queues :
       /\ IsInjective(queues[i])
       /\ \A r \in Set(queues[i]) : answered[r] = 0
       /\ \A j \in DOMAIN queues : i # j => Set(queues[i]) \cap Set(queues[j]) = {}

\* Every page is free or belongs to the one request that is in transfer, waits
\* for a place in the batch or runs; released, retracted and unadmitted requests
\* hold nothing, and no admission or resumption takes more than the pool has.
PoolExact ==
  /\ TypeOK
  /\ OnePlace
  /\ free >= 0 /\ free + Total(PagesOf, Holding) = NPages
  /\ Holding = Set(transfer) \cup Set(waiting) \cup (Set(running) \ finished)

\* "KV cache is full! Bug in memory estimation": the budget of an admission or
\* a resumption, in tokens, always covers the pages _pre_alloc takes.
NeverFull == pc # "crashed"

\* Every received request is answered.
EventuallyAnswered == \A r \in Req : r \in Set(prealloc) ~> answered[r] > 0
=============================================================================
