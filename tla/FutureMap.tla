----------------------------- MODULE FutureMap -----------------------------
(***************************************************************************)
(* The future tokens of the overlap loop (managers/overlap_utils.py).  A    *)
(* launched batch gets a slot per request in a circular buffer; the         *)
(* forward stream stores the sampled token (or draft input) there, and the  *)
(* next decode batch reads it back, so the scheduler never waits for it.    *)
(* A running request keeps its slot index while prefill batches, one per    *)
(* chunk of a long prompt, are launched in between.                         *)
(***************************************************************************)
EXTENDS Collections, SequencesExt

CONSTANTS
  Req,        \* request ids; a finished one may come again as a new request
  NoReq,      \* chunked_req = None, and the content of a slot nobody needs
  MaxRunning, \* max_running_requests
  NumChunks   \* max_num_chunks: ceil(context_len / chunked_prefill_size)

ASSUME FutureAssumption ==
  /\ IsFiniteSet(Req) /\ NoReq \notin Req
  /\ MaxRunning \in Nat \ {0} /\ NumChunks \in Nat

VARIABLES
  future_ct,   \* the pointer of the circular buffer
  buf,         \* buf[i]: the request whose latest token slot i holds
  running,     \* reqs of the running batch
  fut,         \* its output_ids or spec_info.future_indices, one per request
  last,        \* [reqs, fut] of the last prefill batch
  chunked,     \* chunked_req
  parts,       \* prefill batches launched for the chunked request
  finished,    \* requests with a finished_reason
  launched     \* [reqs, fut] of a batch whose tokens are not stored yet

vars == <<future_ct, buf, running, fut, last, chunked, parts, finished, launched>>

Empty == [reqs |-> <<>>, fut |-> <<>>]

\* A prompt fills max_num_chunks chunks, the first of which may be cut by the
\* budget of others and one by the memory left (add_chunked_req).
MaxParts == NumChunks + 2

\* Mutant of FutureLimit: no room for the chunks.
FutureLimitNoChunks == MaxRunning * 3

\* future_limit and future_buffer_len.
FutureLimit == MaxRunning * (3 + NumChunks)
BufferLen == FutureLimit + 2 * MaxRunning

Init ==
  /\ future_ct = 0
  /\ buf = [i \in 0 .. BufferLen - 1 |-> NoReq]
  /\ running = <<>> /\ fut = <<>> /\ last = Empty /\ launched = Empty
  /\ chunked = NoReq /\ finished = {}
  /\ parts = 0

-----------------------------------------------------------------------------
(* FutureMap.                                                              *)

\* alloc_future_indices(bs): future_ct and the interval it returns.
NextCt(bs) == (future_ct + bs) % FutureLimit
Indices(bs) == [i \in 1 .. bs |-> future_ct + i]

\* The buffer when the tokens of the requests S are of no use any more.
Forget(S) == [i \in DOMAIN buf |-> IF buf[i] \in S THEN NoReq ELSE buf[i]]

\* store_to_map, at the end of the forward pass or in launch_batch_sample_if_needed.
StoreToMap ==
  /\ launched # Empty
  /\ buf' = [i \in DOMAIN buf |->
              IF \E j \in DOMAIN launched.fut : launched.fut[j] = i
              THEN launched.reqs[CHOOSE j \in DOMAIN launched.fut : launched.fut[j] = i]
              ELSE Forget(Set(launched.reqs))[i]]
  /\ launched' = Empty
  /\ UNCHANGED <<future_ct, running, fut, last, chunked, parts, finished>>

-----------------------------------------------------------------------------
(* The batches.                                                            *)

\* The futures of the requests at the positions keep.
FilterFut(b, keep) == [i \in DOMAIN keep |-> b.fut[keep[i]]]

\* filter_batch: a batch that loses every request keeps its futures.
FilterBatch(b, keep) ==
  IF keep = <<>> THEN [b EXCEPT !.reqs = <<>>]
  ELSE [reqs |-> [i \in DOMAIN keep |-> b.reqs[keep[i]]], fut |-> FilterFut(b, keep)]

\* Positions of the requests outside S.
KeepIndices(b, S) == Only([i \in DOMAIN b.reqs |-> i], {i \in DOMAIN b.reqs : b.reqs[i] \notin S})

\* merge_batch; an empty running batch is replaced.
MergeBatch(a, b) ==
  IF a.reqs = <<>> THEN b ELSE [reqs |-> a.reqs \o b.reqs, fut |-> a.fut \o b.fut]

\* get_next_batch_to_run: the last prefill batch joins without the chunked request.
Merged ==
  LET run == [reqs |-> running, fut |-> fut]
      more == FilterBatch(last, KeepIndices(last, finished \cup {chunked}))
  IN  IF more.reqs = <<>> THEN run ELSE MergeBatch(run, more)

\* A new prefill batch: the chunked request, then new ones while fewer than
\* MaxRunning run, the last one possibly cut.
RunPrefill ==
  /\ launched = Empty
  /\ LET head == IF chunked = NoReq THEN <<>> ELSE <<chunked>>
         free == Req \ (Set(Merged.reqs) \cup Set(head))
     IN  \E new \in SUBSET free :
           \E cut \in {NoReq} \cup (IF new = {} THEN Set(head) ELSE new) :
             LET list == head \o SetToSeq(new \ {cut}) \o (IF cut \in new THEN <<cut>> ELSE <<>>)
             IN  /\ list # <<>>
                 /\ new # {} => Len(Merged.reqs) + Len(list) <= MaxRunning
                 /\ parts' = IF cut = NoReq THEN 0 ELSE IF cut = chunked THEN parts + 1 ELSE 1
                 /\ parts' < MaxParts
                 /\ chunked' = cut
                 /\ finished' = finished \ new
                 /\ running' = Merged.reqs /\ fut' = Merged.fut
                 /\ last' = [reqs |-> list, fut |-> Indices(Len(list))]
                 /\ launched' = last'
                 /\ future_ct' = NextCt(Len(list))
  /\ UNCHANGED buf

\* update_running_batch and run_batch: finished requests go, the memory check
\* may retract others, and the rest reads its tokens and gets new slots.
RunDecode ==
  /\ launched = Empty /\ chunked = NoReq
  /\ LET live == FilterBatch(Merged, KeepIndices(Merged, finished))
     IN  \E drop \in SUBSET Set(live.reqs) :
           LET b == FilterBatch(live, KeepIndices(live, drop))
           IN  /\ Merged.reqs # <<>> /\ (live.reqs # <<>> => b.reqs # <<>>)
               /\ running' = b.reqs
               /\ fut' = IF b.reqs = <<>> THEN b.fut ELSE Indices(Len(b.reqs))
               /\ launched' = IF b.reqs = <<>> THEN Empty ELSE [reqs |-> b.reqs, fut |-> fut']
               /\ future_ct' = NextCt(Len(b.reqs))
               /\ buf' = Forget(drop)
  /\ last' = Empty
  /\ UNCHANGED <<chunked, parts, finished>>

\* process_batch_result: the result of a batch is processed after the next one
\* is built, so a prefilled request ends only when it is in the running batch.
Finish(r) ==
  /\ r \in Set(running) \ finished
  /\ finished' = finished \cup {r}
  /\ buf' = Forget({r})
  /\ UNCHANGED <<future_ct, running, fut, last, chunked, parts, launched>>

Next == StoreToMap \/ RunPrefill \/ RunDecode \/ \E r \in Req : Finish(r)

Spec == Init /\ [][Next]_vars

-----------------------------------------------------------------------------
(* Properties.                                                             *)

IsBatch(b) == b.reqs \in Seq(Req) /\ b.fut \in Seq(DOMAIN buf)

\* Slots are inside future_buffer_len, also those of a batch that starts just
\* below future_limit.
TypeOK ==
  /\ future_ct \in 0 .. FutureLimit - 1
  /\ buf \in [0 .. BufferLen - 1 -> Req \cup {NoReq}]
  /\ running \in Seq(Req) /\ fut \in Seq(DOMAIN buf)
  /\ IsBatch(last) /\ IsBatch(launched)
  /\ chunked \in Req \cup {NoReq} /\ parts \in 0 .. MaxParts - 1 /\ finished \subseteq Req

\* The request at position i of batch b finds its own latest token in its slot.
Own(b, i) == b.reqs[i] \in finished \cup Set(launched.reqs) \/ buf[b.fut[i]] = b.reqs[i]

\* Every unfinished request of the running batch would resolve its own latest
\* token now: however many prefill chunks were launched since its last decode
\* step, the circular buffer has not come round to its slot, and filters,
\* retractions and merges keep futures and requests paired.
ResolvesOwnToken ==
  /\ TypeOK
  /\ \A i \in DOMAIN Merged.reqs : Own(Merged, i)
=============================================================================
