------------------------------- MODULE Disagg -------------------------------
(***************************************************************************)
(* Prefill/decode disaggregation over the Mooncake connection, which the   *)
(* Ascend backend inherits (disaggregation/prefill.py, decode.py,           *)
(* common/conn.py, mooncake/conn.py).  A request is sent to both servers.   *)
(* Decode allocates its pages and a metadata slot and sends their indices;  *)
(* prefill computes the prompt, and its transfer thread writes KV and       *)
(* metadata straight into decode's memory and reports the status.  Each     *)
(* side aborts, times out and cleans up on its own.                         *)
(*                                                                         *)
(* One rank on each side.  The calls of a scheduler's loop body are taken   *)
(* per request and in any order, interleaved with the threads.              *)
(***************************************************************************)
EXTENDS Integers, Sequences, FiniteSets, FiniteSetsExt, SequencesExt, Functions

CONSTANTS
  Req,       \* bootstrap rooms, one per request
  PSlots,    \* metadata buffer slots of the prefill server
  DSlots,    \* metadata buffer slots of the decode server
  MaxEnsure, \* _max_ensure_retries (15)
  Scenarios  \* the deployments and faults considered, see IsScenario

FaultKinds ==
  {"timeout",   \* SGLANG_DISAGGREGATION_{BOOTSTRAP,WAITING}_TIMEOUT expires
   "session",   \* a transfer of the engine fails
   "crash",     \* the prefill server dies
   "lost",      \* a message or an HTTP reply is lost with its connection
   "partition"} \* health checks fail while prefill lives

\* load: the requests that clients may send; long: requests of two chunks, the others
\* have one; pages: KV pages of each server, one holds a chunk; aborts: requests an
\* AbortReq may arrive for on either side; faults: what may go wrong, any number of
\* times.
IsScenario(x) ==
  /\ x.load \subseteq Req /\ x.long \subseteq Req /\ x.aborts \subseteq Req /\ x.faults \subseteq FaultKinds
  /\ x.pages \in Nat \ {0} /\ (x.long # {} => x.pages >= 2)

ASSUME DisaggAssumption ==
  /\ Req \subseteq Nat \ {0} /\ IsFiniteSet(Req)
  /\ {PSlots, DSlots, MaxEnsure} \subseteq Nat \ {0}
  /\ \A x \in Scenarios : IsScenario(x)

VARIABLES
  scen,    \* the scenario
  \* prefill scheduler
  pq,      \* pq[r]: where the request is
  bootq,   \* PrefillBootstrapQueue.queue
  pconc,   \* pconc[r]: conclude_state of its sender
  pmeta,   \* pmeta[r]: metadata_buffer_index
  ppages,  \* ppages[r]: its pages, one per chunk
  pslots,  \* free metadata slots, a FIFO
  pfree,   \* free pages
  pbuf,    \* pbuf[i]: the room written in slot i, 0 at first
  pkv,     \* pkv[p]: the <<room, chunk>> in page p
  \* prefill KV manager
  pstatus, \* request_status
  infos,   \* transfer_infos
  xq,      \* transfer queue
  wk,      \* the transfer thread
  bt,      \* the bootstrap thread
  broken,  \* failed_sessions holds the decode session
  alive,   \* the prefill server is up
  \* decode scheduler
  dq, prealloc, dconc, dmeta, dpages, dslots, dfree, dbuf, dkv,
  ready,   \* requests with waiting_for_input
  pending, \* pending_reqs
  tries,   \* _ensure_retry_count
  \* decode KV manager
  dstatus, \* request_status
  known,   \* the prefill server is in prefill_info_table
  tracker, \* addr_to_rooms_tracker
  dt,      \* the decode thread
  hb,      \* the heartbeat thread
  \* network
  toP,     \* toP[r]: metadata message of the request under way to prefill
  toD,     \* <<room, status>> messages under way to decode
  \* what clients saw, and history
  pans, dans, \* answers to each request
  corrupt,    \* requests whose metadata failed the room check
  cut         \* some request was given up while prefill may still write

prefill == <<pq, bootq, pconc, pmeta, ppages, pslots, pfree, pbuf, pkv>>
prefillMgr == <<pstatus, infos, xq, wk, bt, broken, alive>>
decode == <<dq, prealloc, dconc, dmeta, dpages, dslots, dfree, ready, pending, tries>>
memory == <<dbuf, dkv>>
decodeMgr == <<dstatus, known, tracker, dt, hb>>
net == <<toP, toD>>
answers == <<pans, dans, corrupt, cut>>
vars == <<scen, prefill, prefillMgr, decode, memory, decodeMgr, net, answers>>

-----------------------------------------------------------------------------
(* KVPoll and the status table of a KV manager.                            *)

NoRoom == -1 \* the room is not in request_status
None == -1   \* conclude_state = None
Failed == 0
Bootstrapping == 1
WaitingForInput == 2
Success == 4
Statuses == {NoRoom, Failed, Bootstrapping, WaitingForInput, Success}

NoInfo == [pages |-> <<>>, aux |-> 0]
NoChunk == [room |-> 0, k |-> 0, last |-> FALSE, src |-> 0, aux |-> 0]
Idle == [stage |-> "idle", c |-> NoChunk, info |-> NoInfo, val |-> 0]
Resting == [stage |-> "idle", room |-> 0, val |-> 0]
At(stage, r, todo) == [stage |-> stage, room |-> r, val |-> Failed, todo |-> todo]
Watching == At("idle", 0, {})

\* update_status by the scheduler: failure wins, otherwise the furthest state; a
\* failure of a room that was cleared is dropped.  Only the scheduler clears
\* rooms, so what its test found still holds at its store.
UpdateStatus(st, r, s) ==
  [st EXCEPT ![r] =
    IF s = Failed THEN IF @ = NoRoom THEN NoRoom ELSE Failed ELSE Max({@, s})]

\* update_status(r, th.val) by another thread, which takes no lock: it tests
\* whether the room is there, reads the old status for the maximum, and stores.  A
\* read of a room cleared meanwhile raises, and the thread ends.
UpdateStep(th, r, st, done) ==
  LET to(stage) == [th EXCEPT !.stage = stage]
  IN CASE th.stage = "test" ->
            (IF th.val = Failed THEN IF st[r] = NoRoom THEN done ELSE to("store")
             ELSE to(IF st[r] = NoRoom THEN "store" ELSE "read"))
       [] th.stage = "read" ->
            (IF st[r] = NoRoom THEN to("dead")
             ELSE [th EXCEPT !.stage = "store", !.val = Max({@, st[r]})])
       [] th.stage = "store" -> done

\* The table after that step.
Stored(th, r, st) == IF th.stage = "store" THEN [st EXCEPT ![r] = th.val] ELSE st

Updating(th) == th.stage \in {"test", "read", "store"}

\* poll of a sender or receiver.
Poll(conc, st, r) == IF conc[r] # None THEN conc[r] ELSE st[r]

Faults == scen.faults
Chunks(r) == IF r \in scen.long THEN 2 ELSE 1
Page == 1 .. scen.pages

\* The queue without the entry of r, removed by its index.
Without(s, r) == RemoveAt(s, CHOOSE i \in DOMAIN s : s[i] = r)
Saturated(n) == Min({n + 1, 2})

Init ==
  /\ scen \in Scenarios
  /\ pq = [r \in Req |-> "new"] /\ bootq = <<>>
  /\ pconc = [r \in Req |-> None] /\ pmeta = [r \in Req |-> 0]
  /\ ppages = [r \in Req |-> <<>>]
  /\ pslots = [i \in 1 .. PSlots |-> i] /\ pfree = Page
  /\ pbuf = [i \in 1 .. PSlots |-> 0] /\ pkv = [p \in Page |-> <<0, 0>>]
  /\ pstatus = [r \in Req |-> NoRoom] /\ infos = [r \in Req |-> NoInfo]
  /\ xq = <<>> /\ wk = Idle /\ bt = Resting /\ broken = FALSE /\ alive = TRUE
  /\ dq = [r \in Req |-> "new"] /\ prealloc = <<>>
  /\ dconc = [r \in Req |-> None] /\ dmeta = [r \in Req |-> 0]
  /\ dpages = [r \in Req |-> <<>>]
  /\ dslots = [i \in 1 .. DSlots |-> i] /\ dfree = Page
  /\ dbuf = [i \in 1 .. DSlots |-> 0] /\ dkv = [p \in Page |-> <<0, 0>>]
  /\ ready = {} /\ pending = {} /\ tries = 0
  /\ dstatus = [r \in Req |-> NoRoom] /\ known = FALSE /\ tracker = {}
  /\ dt = Resting /\ hb = Watching
  /\ toP = [r \in Req |-> NoInfo] /\ toD = {}
  /\ pans = [r \in Req |-> 0] /\ dans = [r \in Req |-> 0]
  /\ corrupt = {} /\ cut = FALSE

-----------------------------------------------------------------------------
(* The prefill scheduler.                                                  *)

\* PrefillBootstrapQueue.add: a sender in state Bootstrapping.  When the bootstrap
\* thread stores WaitingForInput between its test and its store, that is lost.
PrefillAdd(r) ==
  /\ alive /\ r \in scen.load /\ pq[r] = "new"
  /\ pq' = [pq EXCEPT ![r] = "bootstrap"]
  /\ bootq' = Append(bootq, r)
  /\ \/ pstatus' = UpdateStatus(pstatus, r, Bootstrapping) /\ UNCHANGED bt
     \/ /\ pstatus[r] = NoRoom /\ bt.stage = "store" /\ bt.room = r
        /\ pstatus' = [pstatus EXCEPT ![r] = Bootstrapping]
        /\ bt' = Resting
  /\ UNCHANGED <<pconc, pmeta, ppages, pslots, pfree, pbuf, pkv, infos, xq, wk, broken,
                 alive, decode, memory, decodeMgr, net, answers>>

\* MooncakeKVSender.poll gives a request up that decode sent no indices for.
BootstrapTimeout(r) ==
  /\ alive /\ "timeout" \in Faults
  /\ pq[r] = "bootstrap" /\ pconc[r] = None /\ pstatus[r] = Bootstrapping
  /\ pconc' = [pconc EXCEPT ![r] = Failed]
  /\ UNCHANGED <<pq, bootq, pmeta, ppages, pslots, pfree, pbuf, pkv, prefillMgr, decode,
                 memory, decodeMgr, net, answers>>

\* Mutant of ClearSender: the status stays in the table.
ClearSenderInfos(r) == infos' = [infos EXCEPT ![r] = NoInfo] /\ UNCHANGED pstatus

\* CommonKVSender.clear
ClearSender(r) ==
  /\ pstatus' = [pstatus EXCEPT ![r] = NoRoom]
  /\ infos' = [infos EXCEPT ![r] = NoInfo]

\* The request leaves the prefill server: pages to the tree, slot to the FIFO.
PrefillLeave(r) ==
  /\ pq' = [pq EXCEPT ![r] = "done"]
  /\ pfree' = pfree \cup Range(ppages[r])
  /\ ppages' = [ppages EXCEPT ![r] = <<>>]
  /\ pslots' = IF pmeta[r] = 0 THEN pslots ELSE Append(pslots, pmeta[r])
  /\ pmeta' = [pmeta EXCEPT ![r] = 0]
  /\ pans' = [pans EXCEPT ![r] = Saturated(@)]
  /\ UNCHANGED <<dans, corrupt, cut>>

\* pop_bootstrapped stops at the first bootstrapped request that gets no slot.
BeforeInQueue(r) ==
  {bootq[j] : j \in {j \in DOMAIN bootq : \E i \in DOMAIN bootq : bootq[i] = r /\ j < i}}
Bootstrapped(r) == Poll(pconc, pstatus, r) \notin {Bootstrapping, Failed}

\* pop_bootstrapped, a request that failed.
PopFailed(r) ==
  /\ alive /\ pq[r] = "bootstrap"
  /\ Poll(pconc, pstatus, r) = Failed
  /\ ~\E q \in BeforeInQueue(r) : Bootstrapped(q)
  /\ pconc' = [pconc EXCEPT ![r] = Failed]
  /\ bootq' = Without(bootq, r)
  /\ ClearSender(r)
  /\ PrefillLeave(r)
  /\ UNCHANGED <<pbuf, pkv, xq, wk, bt, broken, alive, decode, memory, decodeMgr, net>>

\* pop_bootstrapped, a request decode is ready for.
PopBootstrapped(r) ==
  /\ alive /\ pq[r] = "bootstrap"
  /\ Bootstrapped(r) /\ pslots # <<>>
  /\ ~\E q \in BeforeInQueue(r) : Bootstrapped(q)
  /\ pq' = [pq EXCEPT ![r] = "waiting"]
  /\ bootq' = Without(bootq, r)
  /\ pmeta' = [pmeta EXCEPT ![r] = Head(pslots)]
  /\ pslots' = Tail(pslots)
  /\ UNCHANGED <<pconc, ppages, pfree, pbuf, pkv, prefillMgr, decode, memory, decodeMgr,
                 net, answers>>

\* Pages the chunked request still needs.
Owed == Cardinality({r \in Req : pq[r] \in {"chunked", "sent"}})

\* The forward pass of chunk k of the request.
Compute(r, k) ==
  \E p \in pfree :
    /\ pfree' = pfree \ {p}
    /\ ppages' = [ppages EXCEPT ![r] = Append(@, p)]
    /\ pkv' = [pkv EXCEPT ![p] = <<r, k>>]

\* Mutant of SendKVChunk: start_send_idx is not advanced by the first chunk.
SendKVChunkFromStart(r, k, pages) ==
  xq' = IF pstatus[r] \in {NoRoom, Failed} \/ infos[r] = NoInfo THEN xq
        ELSE Append(xq, [room |-> r, k |-> k, last |-> k = Chunks(r), src |-> pages[1],
                         aux |-> IF k = Chunks(r) THEN pmeta[r] ELSE 0])

\* send_kv_chunk and add_transfer_request: queued unless the room has failed
\* or has no destination.
SendKVChunk(r, k, pages) ==
  xq' = IF pstatus[r] \in {NoRoom, Failed} \/ infos[r] = NoInfo THEN xq
        ELSE Append(xq, [room |-> r, k |-> k, last |-> k = Chunks(r), src |-> pages[k],
                         aux |-> IF k = Chunks(r) THEN pmeta[r] ELSE 0])

\* get_new_batch_prefill admits the request for its first chunk only.
PrefillFirstChunk(r) ==
  /\ alive /\ pq[r] = "waiting" /\ Chunks(r) = 2
  /\ Owed = 0 /\ Cardinality(pfree) >= 2
  /\ pq' = [pq EXCEPT ![r] = "chunked"]
  /\ Compute(r, 1)
  /\ UNCHANGED <<bootq, pconc, pmeta, pslots, pbuf, prefillMgr, decode, memory, decodeMgr,
                 net, answers>>

\* process_prefill_chunk, at the start of the next iteration.
ProcessPrefillChunk(r) ==
  /\ alive /\ pq[r] = "chunked"
  /\ pq' = [pq EXCEPT ![r] = "sent"]
  /\ SendKVChunk(r, 1, ppages[r])
  /\ UNCHANGED <<bootq, pconc, pmeta, ppages, pslots, pfree, pbuf, pkv, pstatus, infos, wk,
                 bt, broken, alive, decode, memory, decodeMgr, net, answers>>

\* The last chunk: process_batch_result_disagg_prefill fills the metadata slot,
\* sends the chunk and queues the request as in flight.
PrefillLastChunk(r) ==
  /\ alive
  /\ \/ pq[r] = "sent"
     \/ pq[r] = "waiting" /\ Chunks(r) = 1 /\ Cardinality(pfree) > Owed
  /\ pq' = [pq EXCEPT ![r] = "inflight"]
  /\ Compute(r, Chunks(r))
  /\ pbuf' = [pbuf EXCEPT ![pmeta[r]] = r]
  /\ SendKVChunk(r, Chunks(r), ppages'[r])
  /\ UNCHANGED <<bootq, pconc, pmeta, pslots, pstatus, infos, wk, bt, broken, alive,
                 decode, memory, decodeMgr, net, answers>>

\* Mutant of Concluded: failures are left to the transfer thread.
ConcludedWell(r) == Poll(pconc, pstatus, r) = Success

\* The transfer of an in-flight request has ended.
Concluded(r) == Poll(pconc, pstatus, r) \in {Success, Failed}

\* process_disagg_prefill_inflight_queue
ProcessInflight(r) ==
  /\ alive /\ pq[r] = "inflight"
  /\ Concluded(r)
  /\ pconc' = [pconc EXCEPT ![r] = Poll(pconc, pstatus, r)]
  /\ ClearSender(r)
  /\ PrefillLeave(r)
  /\ UNCHANGED <<bootq, pbuf, pkv, xq, wk, bt, broken, alive, decode, memory, decodeMgr, net>>

\* abort_request drops a waiting request: its slot is freed, its sender is left
\* as it is.
AbortQueued(r) ==
  /\ pq[r] = "waiting"
  /\ PrefillLeave(r)
  /\ UNCHANGED <<pconc, pstatus>>

\* Mutant of AbortSender: the client is told at once, and again by the queue.
AbortSenderTold(r) ==
  /\ pq[r] \in {"bootstrap", "inflight"} /\ pconc[r] # Failed
  /\ pconc' = [pconc EXCEPT ![r] = Failed]
  /\ pstatus' = UpdateStatus(pstatus, r, Failed)
  /\ pans' = [pans EXCEPT ![r] = Saturated(@)]
  /\ cut' = (cut \/ pq[r] = "inflight")
  /\ UNCHANGED <<pq, pfree, ppages, pslots, pmeta, dans, corrupt>>

\* abort_request of one in the bootstrap or the in-flight queue.
AbortSender(r) ==
  /\ pq[r] \in {"bootstrap", "inflight"} /\ pconc[r] # Failed
  /\ pconc' = [pconc EXCEPT ![r] = Failed]
  /\ pstatus' = UpdateStatus(pstatus, r, Failed)
  /\ cut' = (cut \/ pq[r] = "inflight")
  /\ UNCHANGED <<pq, pfree, ppages, pslots, pmeta, pans, dans, corrupt>>

\* A request that is being prefilled is only marked, and nothing reads the mark.
AbortPrefill(r) ==
  /\ alive /\ r \in scen.aborts
  /\ AbortQueued(r) \/ AbortSender(r)
  /\ UNCHANGED <<bootq, pbuf, pkv, infos, xq, wk, bt, broken, alive, decode, memory,
                 decodeMgr, net>>

-----------------------------------------------------------------------------
(* The threads of the prefill KV manager.                                  *)

\* bootstrap_thread: the indices of a request arrived.
BootstrapThread(r) ==
  /\ alive /\ bt.stage = "idle" /\ toP[r] # NoInfo
  /\ toP' = [toP EXCEPT ![r] = NoInfo]
  /\ infos' = [infos EXCEPT ![r] = toP[r]]
  /\ bt' = [stage |-> "count", room |-> r, val |-> WaitingForInput]
  /\ UNCHANGED <<prefill, pstatus, xq, wk, broken, alive, decode, memory, decodeMgr, toD,
                 answers>>

\* It looks the entry up again, which raises when the sender was cleared meanwhile,
\* and updates the status.
BootstrapUpdate ==
  /\ alive
  /\ \/ /\ bt.stage = "count"
        /\ bt' = [bt EXCEPT !.stage = IF infos[bt.room] = NoInfo THEN "dead" ELSE "test"]
        /\ UNCHANGED pstatus
     \/ /\ Updating(bt)
        /\ bt' = UpdateStep(bt, bt.room, pstatus, Resting)
        /\ pstatus' = Stored(bt, bt.room, pstatus)
  /\ UNCHANGED <<prefill, infos, xq, wk, broken, alive, decode, memory, decodeMgr, net, answers>>

\* The worker goes on to report status s of its room.
Reporting(s) == [wk EXCEPT !.stage = "test", !.val = s]

\* transfer_worker takes a chunk; a room that was cleared has no destination.
WorkerGet ==
  /\ alive /\ wk.stage = "idle" /\ xq # <<>>
  /\ xq' = Tail(xq)
  /\ wk' = [Idle EXCEPT !.stage = IF infos[Head(xq).room] = NoInfo THEN "check" ELSE "found",
                        !.c = Head(xq)]
  /\ UNCHANGED <<prefill, pstatus, infos, bt, broken, alive, decode, memory, decodeMgr, net,
                 answers>>

\* It looks the destination up again, which raises when the room was cleared
\* meanwhile; a failed session fails the room.
WorkerLook ==
  /\ alive /\ wk.stage = "found"
  /\ LET info == infos[wk.c.room]
     IN wk' = IF info = NoInfo THEN [wk EXCEPT !.stage = "dead"]
              ELSE IF broken THEN Reporting(Failed)
              ELSE [wk EXCEPT !.stage = "kv", !.info = info]
  /\ UNCHANGED <<prefill, pstatus, infos, xq, bt, broken, alive, decode, memory, decodeMgr, net,
                 answers>>

\* send_kvcache writes what the source page holds now into decode's page; the
\* last chunk is followed by the metadata.
WorkerSendKV ==
  /\ alive /\ wk.stage = "kv"
  /\ \/ /\ dkv' = [dkv EXCEPT ![wk.info.pages[wk.c.k]] = pkv[wk.c.src]]
        /\ wk' = [wk EXCEPT !.stage = IF wk.c.last THEN "aux" ELSE "check"]
        /\ UNCHANGED broken
     \/ /\ "session" \in Faults /\ broken' = TRUE
        /\ wk' = Reporting(Failed)
        /\ UNCHANGED dkv
  /\ UNCHANGED <<prefill, pstatus, infos, xq, bt, alive, decode, dbuf, decodeMgr, net, answers>>

\* send_aux, then the status; a failure here does not fail the session.
WorkerSendAux ==
  /\ alive /\ wk.stage = "aux"
  /\ \/ /\ dbuf' = [dbuf EXCEPT ![wk.info.aux] = pbuf[wk.c.aux]]
        /\ wk' = Reporting(Success)
     \/ /\ "session" \in Faults
        /\ wk' = Reporting(Failed)
        /\ UNCHANGED dbuf
  /\ UNCHANGED <<prefill, pstatus, infos, xq, bt, broken, alive, decode, dkv, decodeMgr, net,
                 answers>>

\* The worker updates its own table, then tells decode the status it found.
WorkerReport ==
  /\ alive
  /\ \/ /\ Updating(wk)
        /\ wk' = UpdateStep(wk, wk.c.room, pstatus, [wk EXCEPT !.stage = "tell"])
        /\ pstatus' = Stored(wk, wk.c.room, pstatus)
        /\ UNCHANGED toD
     \/ /\ wk.stage = "tell"
        /\ wk' = [wk EXCEPT !.stage = "check"]
        /\ toD' = toD \cup {<<wk.c.room, wk.val>>}
        /\ UNCHANGED pstatus
  /\ UNCHANGED <<prefill, infos, xq, bt, broken, alive, decode, memory, decodeMgr, toP, answers>>

\* The worker's clean-up, read by read: is the room in request_status, its status,
\* is it in transfer_infos, pop it.  A read or a pop of a missing key raises, and
\* the thread ends.
WorkerCheck ==
  /\ alive
  /\ LET r == wk.c.room
         to(stage) == wk' = [wk EXCEPT !.stage = stage]
     IN \/ /\ wk.stage = "check"
           /\ to(IF pstatus[r] = NoRoom THEN "in_infos" ELSE "status")
           /\ UNCHANGED infos
        \/ /\ wk.stage = "status"
           /\ IF pstatus[r] = NoRoom THEN to("dead")
              ELSE IF pstatus[r] = Success THEN to("in_infos") ELSE wk' = Idle
           /\ UNCHANGED infos
        \/ /\ wk.stage = "in_infos"
           /\ IF infos[r] # NoInfo THEN to("pop") ELSE wk' = Idle
           /\ UNCHANGED infos
        \/ /\ wk.stage = "pop"
           /\ IF infos[r] = NoInfo THEN to("dead") ELSE wk' = Idle
           /\ infos' = [infos EXCEPT ![r] = NoInfo]
  /\ UNCHANGED <<prefill, pstatus, xq, bt, broken, alive, decode, memory, decodeMgr, net, answers>>

\* The prefill server dies with its memory; what it sent is still under way.
PrefillCrash ==
  /\ alive /\ "crash" \in Faults
  /\ alive' = FALSE
  /\ pq' = [r \in Req |-> "done"] /\ bootq' = <<>>
  /\ pconc' = [r \in Req |-> None] /\ pmeta' = [r \in Req |-> 0]
  /\ ppages' = [r \in Req |-> <<>>]
  /\ pslots' = [i \in 1 .. PSlots |-> i] /\ pfree' = Page
  /\ pbuf' = [i \in 1 .. PSlots |-> 0] /\ pkv' = [p \in Page |-> <<0, 0>>]
  /\ pstatus' = [r \in Req |-> NoRoom] /\ infos' = [r \in Req |-> NoInfo]
  /\ xq' = <<>> /\ wk' = Idle /\ bt' = Resting /\ broken' = FALSE
  /\ toP' = [r \in Req |-> NoInfo]
  /\ UNCHANGED <<decode, memory, decodeMgr, toD, answers>>

\* A connection breaks with a message in it.
LoseMessage ==
  /\ "lost" \in Faults
  /\ \/ \E r \in Req : toP[r] # NoInfo /\ toP' = [toP EXCEPT ![r] = NoInfo] /\ UNCHANGED toD
     \/ \E m \in toD : toD' = toD \ {m} /\ UNCHANGED toP
  /\ UNCHANGED <<prefill, prefillMgr, decode, memory, decodeMgr, answers>>

-----------------------------------------------------------------------------
(* The decode scheduler.                                                   *)

\* Of the receivers S that are initialised, those whose bootstrap information does
\* not come (_setup_bootstrap_infos): concluded as failed, whatever the status.
Unreached(S) == {m \in SUBSET S : m # {} => "lost" \in Faults}

\* DecodePreallocQueue.add: a receiver, initialised at once when the prefill
\* server is known.
DecodeAdd(r) ==
  /\ r \in scen.load /\ dq[r] = "new"
  /\ dq' = [dq EXCEPT ![r] = "prealloc"]
  /\ prealloc' = Append(prealloc, r)
  /\ tracker' = tracker \cup {r}
  /\ dstatus' = UpdateStatus(dstatus, r, IF known THEN WaitingForInput ELSE Bootstrapping)
  /\ pending' = IF known THEN pending ELSE pending \cup {r}
  /\ \E miss \in Unreached(IF known THEN {r} ELSE {}) :
       dconc' = [q \in Req |-> IF q \in miss THEN Failed ELSE dconc[q]]
  /\ UNCHANGED <<prefill, prefillMgr, dmeta, dpages, dslots, dfree, ready, tries, memory, known,
                 dt, hb, net, answers>>

\* _resolve_pending_reqs: every pending receiver is initialised, also one whose
\* request has been aborted meanwhile.
ResolvePending ==
  /\ alive /\ pending # {}
  /\ known' = TRUE /\ tries' = 0 /\ pending' = {}
  /\ dstatus' = [r \in Req |-> IF r \in pending THEN Max({dstatus[r], WaitingForInput})
                               ELSE dstatus[r]]
  /\ \E miss \in Unreached(pending) :
       dconc' = [r \in Req |-> IF r \in miss THEN Failed ELSE dconc[r]]
  /\ UNCHANGED <<prefill, prefillMgr, dq, prealloc, dmeta, dpages, dslots, dfree, ready, memory,
                 tracker, dt, hb, net, answers>>

\* Whether the next failed attempt is the last.
OutOfTries == tries + 1 >= MaxEnsure

\* _ensure_prefill_info without an answer; the last try aborts the receivers.
EnsureFails ==
  /\ pending # {} /\ ~known
  /\ ~alive \/ "lost" \in Faults
  /\ LET gone == IF OutOfTries THEN pending ELSE {}
     IN /\ tries' = IF OutOfTries THEN 0 ELSE tries + 1
        /\ pending' = pending \ gone
        /\ dconc' = [r \in Req |-> IF r \in gone THEN Failed ELSE dconc[r]]
        /\ dstatus' = [r \in Req |-> IF r \in gone THEN UpdateStatus(dstatus, r, Failed)[r]
                                     ELSE dstatus[r]]
  /\ UNCHANGED <<prefill, prefillMgr, dq, prealloc, dmeta, dpages, dslots, dfree, ready, memory,
                 known, tracker, dt, hb, net, answers>>

\* CommonKVReceiver.clear
ClearReceiver(r) == dstatus' = [dstatus EXCEPT ![r] = NoRoom]

\* Mutant of Released: the pages of a request that failed are kept.
ReleasedSlot(r) ==
  /\ dslots' = IF dmeta[r] = 0 THEN dslots ELSE Append(dslots, dmeta[r])
  /\ dmeta' = [dmeta EXCEPT ![r] = 0]
  /\ dpages' = [dpages EXCEPT ![r] = <<>>]
  /\ UNCHANGED dfree

\* release_kv_cache, and the slot is given back.
Released(r) ==
  /\ dslots' = IF dmeta[r] = 0 THEN dslots ELSE Append(dslots, dmeta[r])
  /\ dmeta' = [dmeta EXCEPT ![r] = 0]
  /\ dpages' = [dpages EXCEPT ![r] = <<>>]
  /\ dfree' = dfree \cup Range(dpages[r])

\* The request ends at the decode server.
DecodeLeave(r) ==
  /\ dq' = [dq EXCEPT ![r] = "done"]
  /\ dans' = [dans EXCEPT ![r] = Saturated(@)]
  /\ Released(r)

\* _update_handshake_waiters: nobody is polled when all wait for memory.
UpdateHandshakeWaiter(r) ==
  /\ dq[r] = "prealloc" /\ Range(prealloc) \ ready # {}
  /\ \/ /\ Poll(dconc, dstatus, r) = WaitingForInput /\ r \notin ready
        /\ ready' = ready \cup {r}
        /\ UNCHANGED <<dq, prealloc, dconc, dmeta, dpages, dslots, dfree, dstatus, dans>>
     \/ /\ Poll(dconc, dstatus, r) = Failed
        /\ dconc' = [dconc EXCEPT ![r] = Failed]
        /\ ready' = ready \ {r}
        /\ prealloc' = Without(prealloc, r)
        /\ ClearReceiver(r)
        /\ DecodeLeave(r)
  /\ UNCHANGED <<prefill, prefillMgr, pending, tries, memory, known, tracker, dt, hb, net,
                 pans, corrupt, cut>>

\* pop_preallocated, in queue order: pages and a slot, then send_metadata.
PopPreallocated(r) ==
  /\ r \in ready /\ r = Head(SelectSeq(prealloc, LAMBDA q : q \in ready))
  /\ dslots # <<>>
  /\ \E f \in [1 .. Chunks(r) -> dfree] :
       /\ IsInjective(f)
       /\ dpages' = [dpages EXCEPT ![r] = f]
       /\ dfree' = dfree \ Range(f)
       /\ toP' = IF alive THEN [toP EXCEPT ![r] = [pages |-> f, aux |-> Head(dslots)]] ELSE toP
  /\ dmeta' = [dmeta EXCEPT ![r] = Head(dslots)]
  /\ dslots' = Tail(dslots)
  /\ dq' = [dq EXCEPT ![r] = "transfer"]
  /\ prealloc' = Without(prealloc, r)
  /\ ready' = ready \ {r}
  /\ UNCHANGED <<prefill, prefillMgr, dconc, pending, tries, memory, decodeMgr, toD, answers>>

\* MooncakeKVReceiver.poll gives a request up whose KV did not arrive.
WaitingTimeout(r) ==
  /\ "timeout" \in Faults
  /\ dq[r] = "transfer" /\ dconc[r] = None /\ dstatus[r] = WaitingForInput
  /\ dconc' = [dconc EXCEPT ![r] = Failed]
  /\ cut' = TRUE
  /\ UNCHANGED <<prefill, prefillMgr, dq, prealloc, dmeta, dpages, dslots, dfree, ready, pending,
                 tries, memory, decodeMgr, net, pans, dans, corrupt>>

\* pop_transferred, a request that failed.
PopTransferFailed(r) ==
  /\ dq[r] = "transfer" /\ Poll(dconc, dstatus, r) = Failed
  /\ dconc' = [dconc EXCEPT ![r] = Failed]
  /\ ClearReceiver(r)
  /\ DecodeLeave(r)
  /\ UNCHANGED <<prefill, prefillMgr, prealloc, ready, pending, tries, memory, known, tracker,
                 dt, hb, net, pans, corrupt, cut>>

\* pop_transferred and _commit_transfer_to_req: while the slot's room is 0 the
\* request stays in the queue; another room is a corruption and aborts it.
PopTransferred(r) ==
  /\ dq[r] = "transfer" /\ Poll(dconc, dstatus, r) = Success
  /\ ClearReceiver(r)
  /\ LET room == dbuf[dmeta[r]]
     IN \/ /\ room \notin {0, r}
           /\ corrupt' = corrupt \cup {r}
           /\ DecodeLeave(r)
        \/ /\ room = r
           /\ dq' = [dq EXCEPT ![r] = "running"]
           /\ dslots' = Append(dslots, dmeta[r])
           /\ dmeta' = [dmeta EXCEPT ![r] = 0]
           /\ UNCHANGED <<dpages, dfree, dans, corrupt>>
  /\ UNCHANGED <<prefill, prefillMgr, prealloc, dconc, ready, pending, tries, memory, known,
                 tracker, dt, hb, net, pans, cut>>

\* A committed request is decoded to its end, or aborted on the way.
DecodeFinish(r) ==
  /\ dq[r] = "running"
  /\ DecodeLeave(r)
  /\ UNCHANGED <<prefill, prefillMgr, prealloc, dconc, ready, pending, tries, memory, decodeMgr,
                 net, pans, corrupt, cut>>

\* abort_request of a request that has no KV yet: the queues find out later.
AbortDecode(r) ==
  /\ r \in scen.aborts
  /\ dq[r] \in {"prealloc", "transfer"} /\ dconc[r] # Failed
  /\ dconc' = [dconc EXCEPT ![r] = Failed]
  /\ dstatus' = UpdateStatus(dstatus, r, Failed)
  /\ cut' = TRUE
  /\ UNCHANGED <<prefill, prefillMgr, dq, prealloc, dmeta, dpages, dslots, dfree, ready, pending,
                 tries, memory, known, tracker, dt, hb, net, pans, dans, corrupt>>

-----------------------------------------------------------------------------
(* The threads of the decode KV manager.                                   *)

\* decode_thread: a status message of prefill; a success of a room that is not
\* there is ignored.
DecodeThread ==
  /\ dt.stage = "idle"
  /\ \E m \in toD :
       /\ toD' = toD \ {m}
       /\ dt' = IF m[2] = Success /\ dstatus[m[1]] = NoRoom THEN Resting
                ELSE [stage |-> IF m[2] = Success THEN "count" ELSE "test",
                      room |-> m[1], val |-> m[2]]
  /\ UNCHANGED <<prefill, prefillMgr, decode, memory, dstatus, known, tracker, hb, toP, answers>>

\* It looks up how many answers the room needs, which raises when the receiver was
\* cleared meanwhile, and updates the status.
DecodeUpdate ==
  /\ \/ /\ dt.stage = "count"
        /\ dt' = [dt EXCEPT !.stage = IF dq[dt.room] = "transfer" THEN "test" ELSE "dead"]
        /\ UNCHANGED dstatus
     \/ /\ Updating(dt)
        /\ dt' = UpdateStep(dt, dt.room, dstatus, Resting)
        /\ dstatus' = Stored(dt, dt.room, dstatus)
  /\ UNCHANGED <<prefill, prefillMgr, decode, memory, known, tracker, hb, net, answers>>

\* heartbeat_checker after a good answer forgets the rooms that are done.
HeartbeatOK ==
  /\ alive /\ known /\ hb.stage = "idle"
  /\ tracker' = {r \in tracker : dstatus[r] # NoRoom}
  /\ tracker' # tracker
  /\ UNCHANGED <<prefill, prefillMgr, decode, memory, dstatus, known, dt, hb, net, answers>>

\* heartbeat_checker after heartbeat_max_failure misses: _handle_node_failure.
HandleNodeFailure ==
  /\ known /\ (~alive \/ "partition" \in Faults) /\ hb.stage = "idle"
  /\ known' = FALSE /\ tracker' = {}
  /\ hb' = At("next", 0, tracker)
  /\ cut' = (cut \/ alive)
  /\ UNCHANGED <<prefill, prefillMgr, decode, memory, dstatus, dt, net, pans, dans, corrupt>>

\* Its rooms in any order: a room that is there and has not succeeded is failed.  The
\* status of one cleared between the test and the read raises.
FailRooms ==
  /\ LET next == At("next", 0, hb.todo)
     IN \/ /\ hb.stage = "next" /\ hb.todo = {} /\ hb' = Watching
           /\ UNCHANGED dstatus
        \/ /\ hb.stage = "next"
           /\ \E r \in hb.todo :
                hb' = At(IF dstatus[r] = NoRoom THEN "next" ELSE "look", r, hb.todo \ {r})
           /\ UNCHANGED dstatus
        \/ /\ hb.stage = "look"
           /\ hb' = IF dstatus[hb.room] = NoRoom THEN [hb EXCEPT !.stage = "dead"]
                    ELSE IF dstatus[hb.room] = Success THEN next
                    ELSE [hb EXCEPT !.stage = "test"]
           /\ UNCHANGED dstatus
        \/ /\ Updating(hb)
           /\ hb' = UpdateStep(hb, hb.room, dstatus, next)
           /\ dstatus' = Stored(hb, hb.room, dstatus)
  /\ UNCHANGED <<prefill, prefillMgr, decode, memory, known, tracker, dt, net, answers>>

-----------------------------------------------------------------------------
Worker ==
  WorkerGet \/ WorkerLook \/ WorkerSendKV \/ WorkerSendAux \/ WorkerReport \/ WorkerCheck

\* What the schedulers' loops do for a request.
PrefillLoop(r) ==
  \/ BootstrapTimeout(r) \/ PopFailed(r) \/ PopBootstrapped(r)
  \/ PrefillFirstChunk(r) \/ ProcessPrefillChunk(r) \/ PrefillLastChunk(r) \/ ProcessInflight(r)

DecodeLoop(r) ==
  \/ UpdateHandshakeWaiter(r) \/ PopPreallocated(r)
  \/ WaitingTimeout(r) \/ PopTransferFailed(r) \/ PopTransferred(r) \/ DecodeFinish(r)

PrefillNext ==
  \/ \E r \in Req : PrefillAdd(r) \/ PrefillLoop(r) \/ AbortPrefill(r) \/ BootstrapThread(r)
  \/ BootstrapUpdate \/ Worker

DecodeNext ==
  \/ \E r \in Req : DecodeAdd(r) \/ DecodeLoop(r) \/ AbortDecode(r)
  \/ ResolvePending \/ EnsureFails \/ DecodeThread \/ DecodeUpdate
  \/ HeartbeatOK \/ HandleNodeFailure \/ FailRooms

Step == PrefillNext \/ DecodeNext \/ PrefillCrash \/ LoseMessage

Next == Step /\ UNCHANGED scen

Spec == Init /\ [][Next]_vars

\* The schedulers and the threads of prefill keep running and timers expire; no
\* client, fault, message of prefill or health check is assumed to come.
Fairness ==
  /\ \A r \in Req : /\ WF_vars(PrefillLoop(r) /\ UNCHANGED scen)
                    /\ WF_vars(DecodeLoop(r) /\ UNCHANGED scen)
  /\ WF_vars(((\E r \in Req : BootstrapThread(r)) \/ BootstrapUpdate) /\ UNCHANGED scen)
  /\ WF_vars(Worker /\ UNCHANGED scen)
  /\ WF_vars((ResolvePending \/ EnsureFails) /\ UNCHANGED scen)

FairSpec == Spec /\ Fairness

-----------------------------------------------------------------------------
(* Properties.                                                             *)

\* Types, and the places a request can be in.
TypeOK ==
  /\ scen \in Scenarios
  /\ pq \in [Req -> {"new", "bootstrap", "waiting", "chunked", "sent", "inflight", "done"}]
  /\ dq \in [Req -> {"new", "prealloc", "transfer", "running", "done"}]
  /\ pstatus \in [Req -> Statuses] /\ dstatus \in [Req -> Statuses]
  /\ pconc \in [Req -> {None, Failed, Success}] /\ dconc \in [Req -> {None, Failed, Success}]
  /\ Range(bootq) = {r \in Req : pq[r] = "bootstrap"}
  /\ Range(prealloc) = {r \in Req : dq[r] = "prealloc"}
  /\ ready \subseteq Range(prealloc) /\ pending \subseteq Req /\ tracker \subseteq Req
  /\ toD \subseteq Req \X {Failed, Success}
  /\ tries \in 0 .. MaxEnsure - 1
  /\ pfree \subseteq Page /\ dfree \subseteq Page
  /\ bt.room \in Req \cup {0} /\ dt.room \in Req \cup {0} /\ hb.todo \subseteq Req
  /\ alive \in BOOLEAN /\ known \in BOOLEAN /\ broken \in BOOLEAN /\ cut \in BOOLEAN

\* Of n slots every one is free once or held by one request.
EachOnce(free, meta, n) ==
  LET held == {r \in Req : meta[r] # 0}
  IN /\ Len(free) + Cardinality(held) = n
     /\ Range(free) \cup {meta[r] : r \in held} = 1 .. n

\* Every metadata slot of either server is free once or belongs to one request,
\* whichever of abort, timeout, failure and success the request ends by.
SlotsExact ==
  /\ EachOnce(pslots, pmeta, PSlots) /\ EachOnce(dslots, dmeta, DSlots)
  /\ \A r \in Req : /\ pq[r] \in {"new", "bootstrap", "done"} => pmeta[r] = 0
                    /\ dq[r] # "transfer" => dmeta[r] = 0

\* The decode pages are free or belong to one request that has not ended.
PagesExact ==
  /\ \A r \in Req : Range(dpages[r]) \cap dfree = {}
  /\ \A q, r \in Req : q # r => Range(dpages[q]) \cap Range(dpages[r]) = {}
  /\ dfree \cup UNION {Range(dpages[r]) : r \in Req} = Page
  /\ \A r \in Req : dq[r] \in {"new", "prealloc", "done"} => dpages[r] = <<>>

\* What a server hands out comes back: its metadata slots and its pages.
Ownership == TypeOK /\ SlotsExact /\ PagesExact

\* A Failed entry belongs to a request that is still there, on either side: no
\* failure reaches the next user of the room.
NoStaleFailure ==
  \A r \in Req : /\ pstatus[r] = Failed => pq[r] \notin {"new", "done"}
                 /\ dstatus[r] = Failed => dq[r] \notin {"new", "running", "done"}

\* No poll raises: a sender or receiver in a queue is concluded or its room is
\* still in request_status, with a state the queue's code expects.  A thread that
\* tested a room before it was cleared stores a failure after it only when a request
\* under transfer was given up, a transfer failed or prefill died.
PollSafe ==
  /\ alive /\ ~cut /\ ~broken => NoStaleFailure
  /\ \A r \in Req :
       /\ pq[r] = "bootstrap" => Poll(pconc, pstatus, r) \in {Failed, Bootstrapping, WaitingForInput}
       /\ pq[r] = "inflight" => Poll(pconc, pstatus, r) \in {Failed, WaitingForInput, Success}
       /\ dq[r] = "prealloc" => Poll(dconc, dstatus, r) \in {Failed, Bootstrapping, WaitingForInput}
       /\ dq[r] = "transfer" => Poll(dconc, dstatus, r) \in {Failed, WaitingForInput, Success}

\* A request gets one answer from each server, although abort, timeout, node
\* failure and the transfer's own result can all end it.
AnsweredOnce ==
  \A r \in Req : /\ pans[r] <= 1 /\ dans[r] <= 1
                 /\ dans[r] = 1 <=> dq[r] = "done"

\* Of a decode request: all its pages hold its own chunks.
OwnKV(r) == \A k \in 1 .. Chunks(r) : dkv[dpages[r][k]] = <<r, k>>

\* As long as nobody gave up a request whose transfer may be under way, a request
\* is decoded on its own, complete KV cache and the room check never fires.
TransfersIntact ==
  ~cut => corrupt = {} /\ \A r \in Req : dq[r] = "running" => OwnKV(r)

\* Every request is answered by the decode server, whatever is lost or dies.
DecodeAnswers == \A r \in Req : dq[r] # "new" ~> dans[r] = 1

\* Every request is answered by a prefill server that stays up, transfer thread
\* included.
PrefillAnswers ==
  \A r \in Req : pq[r] # "new" ~> pans[r] = 1 \/ ~alive \/ wk.stage = "dead"

\* Both servers answer: no abort, timeout, loss or crash of the peer leaves a
\* request in a queue for good, provided the timeouts expire: a request that only
\* one server got is ended by nothing else.
Answers == "timeout" \in Faults => DecodeAnswers /\ PrefillAnswers
=============================================================================
