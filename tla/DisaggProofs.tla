---------------------------- MODULE DisaggProofs ----------------------------
(***************************************************************************)
(* Theorems about Disagg, for any requests, numbers of slots and pages and *)
(* any mix of faults: both servers get back what they hand out, no poll    *)
(* meets a state it does not expect, every request is answered once by     *)
(* each server, and without a request given up in mid-transfer each one is *)
(* decoded on its own KV cache.                                            *)
(***************************************************************************)
EXTENDS Disagg, TLAPS, FiniteSetTheorems, SequenceTheorems

-----------------------------------------------------------------------------
(* The inductive invariant, part by part.                                  *)

Info == [pages : Seq(Nat), aux : Nat]
Chunk == [room : Req, k : {1, 2}, last : BOOLEAN, src : Nat, aux : Nat]
Stages == {"found", "kv", "aux", "test", "read", "store", "tell", "check", "status",
           "in_infos", "pop", "dead"}
WorkerState == [stage : Stages, c : Chunk, info : Info, val : {Failed, Success}]

\* The types of the prefill server; its queue holds no entry twice.
PrefillTypes ==
  /\ pq \in [Req -> {"new", "bootstrap", "waiting", "chunked", "sent", "inflight", "done"}]
  /\ pstatus \in [Req -> Statuses] /\ pconc \in [Req -> {None, Failed, Success}]
  /\ bootq \in Seq(Req) /\ IsInjective(bootq)
  /\ Range(bootq) = {r \in Req : pq[r] = "bootstrap"}
  /\ pmeta \in [Req -> Nat] /\ ppages \in [Req -> Seq(Page)] /\ pfree \subseteq Page
  /\ DOMAIN pbuf = 1 .. PSlots /\ DOMAIN pkv = Page
  /\ infos \in [Req -> Info] /\ xq \in Seq(Chunk) /\ (wk = Idle \/ wk \in WorkerState)
  /\ alive \in BOOLEAN /\ broken \in BOOLEAN
  /\ pans \in [Req -> 0 .. 2]

\* The types of the decode server.
DecodeTypes ==
  /\ dq \in [Req -> {"new", "prealloc", "transfer", "running", "done"}]
  /\ dstatus \in [Req -> Statuses] /\ dconc \in [Req -> {None, Failed, Success}]
  /\ prealloc \in Seq(Req) /\ IsInjective(prealloc)
  /\ Range(prealloc) = {r \in Req : dq[r] = "prealloc"}
  /\ ready \subseteq Range(prealloc) /\ pending \subseteq Req /\ tracker \subseteq Req
  /\ tries \in 0 .. MaxEnsure - 1
  /\ dmeta \in [Req -> Nat] /\ dpages \in [Req -> Seq(Page)] /\ dfree \subseteq Page
  /\ DOMAIN dbuf = 1 .. DSlots /\ DOMAIN dkv = Page
  /\ known \in BOOLEAN
  /\ dans \in [Req -> 0 .. 2]

\* The types of what is under way, and of the history.
NetTypes ==
  /\ scen \in Scenarios /\ cut \in BOOLEAN
  /\ toP \in [Req -> Info] /\ toD \subseteq Req \X {Failed, Success}

\* One answer, given when the request leaves.
Answered ==
  \A r \in Req : /\ pans[r] <= 1 /\ (pq[r] # "done" => pans[r] = 0)
                 /\ dans[r] = (IF dq[r] = "done" THEN 1 ELSE 0)

\* The states a sender can be in, place by place.
SenderOK(r) ==
  /\ pq[r] = "new" => pconc[r] = None /\ pstatus[r] \in {NoRoom, WaitingForInput}
  /\ pq[r] = "bootstrap" => /\ pconc[r] \in {None, Failed}
                            /\ pstatus[r] \in {Failed, Bootstrapping, WaitingForInput}
  /\ pq[r] \in {"waiting", "chunked"} => pconc[r] = None /\ pstatus[r] = WaitingForInput
  /\ pq[r] = "sent" => pconc[r] = None /\ pstatus[r] \in {Failed, WaitingForInput}
  /\ pq[r] = "inflight" => /\ pconc[r] \in {None, Failed}
                           /\ pstatus[r] \in {Failed, WaitingForInput, Success}
  /\ pstatus[r] = WaitingForInput /\ pq[r] # "done" => infos[r] # NoInfo

Senders == \A r \in Req : SenderOK(r)

\* The states a receiver can be in, place by place.
ReceiverOK(r) ==
  /\ dq[r] = "new" => dconc[r] = None /\ dstatus[r] = NoRoom
  /\ dq[r] = "prealloc" => /\ dconc[r] \in {None, Failed}
                           /\ dstatus[r] \in {Failed, Bootstrapping, WaitingForInput}
  /\ dq[r] = "transfer" => /\ dconc[r] \in {None, Failed}
                           /\ dstatus[r] \in {Failed, WaitingForInput, Success}
  /\ r \in ready => dstatus[r] \in {Failed, WaitingForInput}
  /\ r \in pending => /\ dq[r] \in {"prealloc", "done"} /\ r \notin ready
                      /\ dq[r] = "prealloc" => dstatus[r] # WaitingForInput

Receivers == \A r \in Req : ReceiverOK(r)

\* Slots and pages are never shared, a request holds them while it needs them,
\* and what prefill computed stays in its pages until it leaves.
Apart(free, meta) ==
  /\ IsInjective(free)
  /\ \A r \in Req : meta[r] # 0 => meta[r] \notin Range(free)
  /\ \A q, r \in Req : q # r /\ meta[q] # 0 => meta[q] # meta[r]

PrefillSlots ==
  /\ pslots \in Seq(1 .. PSlots) /\ EachOnce(pslots, pmeta, PSlots)
  /\ Apart(pslots, pmeta)
  /\ \A r \in Req : /\ pmeta[r] = 0 <=> pq[r] \in {"new", "bootstrap", "done"}
                    /\ pq[r] = "inflight" => pbuf[pmeta[r]] = r

DecodeSlots ==
  /\ dslots \in Seq(1 .. DSlots) /\ EachOnce(dslots, dmeta, DSlots)
  /\ Apart(dslots, dmeta)
  /\ \A r \in Req : dmeta[r] = 0 <=> dq[r] # "transfer"

Computed ==
  /\ \A r \in Req : Range(ppages[r]) \cap pfree = {} /\ IsInjective(ppages[r])
  /\ \A q, r \in Req : q # r => Range(ppages[q]) \cap Range(ppages[r]) = {}
  /\ \A r \in Req : \A k \in 1 .. Len(ppages[r]) : pkv[ppages[r][k]] = <<r, k>>

PrefillPages ==
  /\ Computed
  /\ \A r \in Req :
       /\ pq[r] \in {"chunked", "sent"} => Chunks(r) = 2
       /\ Len(ppages[r]) = IF pq[r] \in {"chunked", "sent"} THEN 1
                           ELSE IF pq[r] = "inflight" THEN Chunks(r) ELSE 0

DecodePages ==
  /\ PagesExact
  /\ \A r \in Req : dq[r] \in {"transfer", "running"} =>
                      Len(dpages[r]) = Chunks(r) /\ IsInjective(dpages[r])

\* The chunks the transfer thread has still to write or to note in the status table.
InHand == wk.stage \in {"found", "kv", "aux", "test", "read", "store"}
Untold == InHand \/ wk.stage = "tell"
Outstanding(c) == c \in Range(xq) \/ (InHand /\ c = wk.c)

\* Decode has sent the indices of the request, and prefill has got them.
Arrived(r) == toP[r] = NoInfo /\ dq[r] \notin {"new", "prealloc"}

\* Indices and statuses under way belong to a request decode has sent its
\* indices for, which it does once.
Indices ==
  /\ \A r \in Req : toP[r] # NoInfo => dq[r] \notin {"new", "prealloc"}
  /\ \A r \in Req : infos[r] # NoInfo \/ pq[r] \in {"waiting", "chunked", "sent", "inflight"}
                      => Arrived(r)
  /\ \A m \in toD : dq[m[1]] \notin {"new", "prealloc"}

\* A chunk belongs to a request that was sent.
ChunkOK(c) ==
  /\ Arrived(c.room)
  /\ pq[c.room] \in {"sent", "inflight", "done"}
  /\ c.last => pq[c.room] # "sent"
  /\ (c.last <=> c.k = Chunks(c.room)) /\ c.k <= Chunks(c.room)

\* The last chunk of a room comes last.
Queued ==
  /\ \A c \in Chunk : Outstanding(c) => ChunkOK(c)
  /\ \A i, j \in 1 .. Len(xq) : i < j /\ xq[i].room = xq[j].room => ~xq[i].last
  /\ Untold /\ wk.c.last => \A i \in 1 .. Len(xq) : xq[i].room # wk.c.room

\* The transfer thread: it only writes over a good session, reports a success after
\* the last chunk, and only takes the entry of a room out of transfer_infos once its
\* transfer is over.
WorkerOK ==
  /\ wk.stage = "aux" => wk.c.last
  /\ wk.stage \in {"test", "read", "store", "tell"} /\ (wk.val = Success \/ ~broken) => wk.c.last
  /\ wk.stage = "read" => wk.val = Success
  /\ wk.stage = "tell" /\ wk.c.last => pq[wk.c.room] \in {"inflight", "done"}
  /\ wk.stage # "idle" => Arrived(wk.c.room) /\ pq[wk.c.room] \in {"sent", "inflight", "done"}
  /\ wk.stage \in {"in_infos", "pop"} =>
       \/ pq[wk.c.room] = "done"
       \/ pq[wk.c.room] = "inflight" /\ pstatus[wk.c.room] \in {Failed, Success}
  /\ broken => wk.stage \notin {"kv", "aux"}

\* A dead server does nothing; an in-flight request waits for its last chunk.
InFlight ==
  /\ ~alive => xq = <<>> /\ wk = Idle /\ \A r \in Req : pq[r] = "done"
  /\ \A r \in Req : pq[r] = "inflight" /\ pstatus[r] = WaitingForInput =>
       \E c \in Chunk : Outstanding(c) /\ c.room = r /\ c.last

Traffic == Indices /\ Queued /\ WorkerOK /\ InFlight

\* A thread between its message and its store.
Handling(th, r) == th.stage \in {"count", "test", "read", "store"} /\ th.room = r

\* The bootstrap thread: indices come once, so the request it handles has not been
\* found ready before.
BootstrapTypes ==
  bt \in [stage : {"idle", "count", "test", "read", "store", "dead"}, room : Req \cup {0},
         val : {0, WaitingForInput, Success}]
BootstrapOK ==
  /\ BootstrapTypes
  /\ \A r \in Req : Handling(bt, r) =>
       /\ bt.val # 0 /\ Arrived(r) /\ pq[r] \in {"new", "bootstrap", "done"}
       /\ pq[r] # "done" => /\ bt.val = WaitingForInput
                            /\ infos[r] # NoInfo /\ pstatus[r] # WaitingForInput
  /\ bt.stage \in {"count", "test", "read", "store"} => bt.room # 0

\* The decode thread handles requests that sent their indices.
DecodeThreadOK ==
  /\ dt \in [stage : {"idle", "count", "test", "read", "store", "dead"}, room : Req \cup {0},
             val : {Failed, Success}]
  /\ \A r \in Req : Handling(dt, r) => dq[r] \notin {"new", "prealloc"}
  /\ dt.stage \in {"count", "test", "read", "store"} => dt.room # 0
  /\ dt.stage \in {"count", "read"} => dt.val = Success

\* The heartbeat thread fails requests that were added, and gives up none while it
\* is idle.
HeartbeatThreadOK ==
  /\ hb \in [stage : {"idle", "next", "look", "test", "store", "dead"}, room : Req \cup {0},
             val : {Failed}, todo : SUBSET Req]
  /\ \A r \in tracker \cup hb.todo : dq[r] # "new"
  /\ hb.stage \in {"look", "test", "store"} => hb.room # 0 /\ dq[hb.room] # "new"
  /\ alive /\ ~cut => hb.stage = "idle"

Threads == BootstrapOK /\ DecodeThreadOK /\ HeartbeatThreadOK

\* Where decode wants the KV cache of a request.
Dest(r) == [pages |-> dpages[r], aux |-> dmeta[r]]

\* The transfer thread is about to tell decode of the request.
Telling(r) == wk.stage = "tell" /\ wk.c.room = r

\* Prefill may still write for the request, or has not told decode of it.
Pend(r) ==
  /\ alive /\ ~broken
  /\ \/ toP[r] # NoInfo
     \/ infos[r] # NoInfo /\ pq[r] \notin {"inflight", "done"}
     \/ \E c \in Chunk : Outstanding(c) /\ c.room = r
     \/ Telling(r)

\* Decode waits for the request.
Expects(r) == dq[r] = "transfer" /\ dconc[r] = None /\ dstatus[r] = WaitingForInput

\* It waits with the pages and the slot it sent, and has not been told of it.
Waits(r) ==
  /\ Expects(r)
  /\ ~Handling(dt, r) /\ \A m \in toD : m[1] # r
  /\ toP[r] # NoInfo => toP[r] = Dest(r)
  /\ infos[r] # NoInfo => infos[r] = Dest(r)

\* A chunk of a request that has not ended, with its page and slot.
Live(c) ==
  /\ pq[c.room] \in {"sent", "inflight"}
  /\ pconc[c.room] = None /\ pstatus[c.room] = WaitingForInput
  /\ c.k <= Len(ppages[c.room]) /\ c.src = ppages[c.room][c.k]
  /\ c.last => c.aux = pmeta[c.room]

\* Chunk k of the request is in decode's page, or will be written there.
Landed(r, k) == dkv[dpages[r][k]] = <<r, k>>
Coming(r, k) ==
  \E c \in Chunk : /\ c.room = r /\ c.k = k
                   /\ c \in Range(xq) \/ (wk.stage \in {"found", "kv"} /\ c = wk.c)

\* A request that decode was told of or may be told of.
Told(r) ==
  /\ dq[r] = "transfer"
  /\ \/ dstatus[r] = Success
     \/ <<r, Success>> \in toD
     \/ Handling(dt, r) /\ dt.val = Success
     \/ wk.stage \in {"test", "read", "store", "tell"} /\ wk.c.room = r /\ wk.val = Success

Readied == \A r \in ready : alive => dconc[r] = None /\ dstatus[r] = WaitingForInput
Waiting == \A r \in Req : Pend(r) => Waits(r)
Sources == ~broken => \A c \in Chunk : Outstanding(c) => Live(c)
Target == wk.stage \in {"kv", "aux"} => wk.info = Dest(wk.c.room)
Written ==
  ~broken => \A r \in Req : pq[r] \in {"sent", "inflight"} /\ pstatus[r] = WaitingForInput =>
               \A k \in 1 .. Len(ppages[r]) : Landed(r, k) \/ Coming(r, k)
Complete ==
  /\ \A r \in Req : Told(r) => OwnKV(r) /\ dbuf[dmeta[r]] = r
  /\ \A r \in Req : dq[r] = "running" => OwnKV(r)
  /\ corrupt = {}

\* While nobody gave up, a request that prefill may still write for waits for it
\* with the pages and slot it sent, and what has been reported has landed.
Delivery == Readied /\ Waiting /\ Sources /\ Target /\ Written /\ Complete

\* While moreover prefill lives and its session is good, a request has one result
\* under way, which finds it waiting, and no failure outlives its request.
Results ==
  /\ \A m \in toD : Expects(m[1]) /\ ~Handling(dt, m[1])
  /\ \A m, n \in toD : m[1] = n[1] => m = n
  /\ \A r \in Req : Handling(dt, r) => Expects(r)
  /\ \A r \in pending : dq[r] = "done" => dstatus[r] = NoRoom
  /\ NoStaleFailure

DisaggInv ==
  /\ PrefillTypes /\ DecodeTypes /\ NetTypes /\ Answered /\ Senders /\ Receivers
  /\ PrefillSlots /\ DecodeSlots /\ PrefillPages /\ DecodePages
  /\ Traffic /\ Threads
  /\ ~cut => Delivery
  /\ alive /\ ~cut /\ ~broken => Results

-----------------------------------------------------------------------------
(* Queues.                                                                 *)

\* The entries of a sequence without the one at i.
LEMMA RemoveAtProperties ==
  ASSUME NEW S, NEW s \in Seq(S), NEW i \in 1 .. Len(s)
  PROVE  /\ RemoveAt(s, i) \in Seq(S)
         /\ Len(RemoveAt(s, i)) = Len(s) - 1
         /\ \A j \in 1 .. Len(s) - 1 :
              RemoveAt(s, i)[j] = IF j < i THEN s[j] ELSE s[j + 1]
<1> DEFINE a == SubSeq(s, 1, i - 1)
           b == SubSeq(s, i + 1, Len(s))
<1>0. Len(s) \in Nat /\ i \in Int /\ i >= 1 /\ i <= Len(s)
  BY LenProperties
<1>1. /\ a \in Seq(S) /\ Len(a) = i - 1
      /\ \A j \in 1 .. i - 1 : a[j] = s[j]
  <2>1. \A j \in 1 .. i - 1 : s[j] \in S
    BY <1>0, ElementOfSeq
  <2> QED BY <1>0, <2>1, SubSeqProperties
<1>2. /\ b \in Seq(S) /\ Len(b) = Len(s) - i
      /\ \A j \in 1 .. Len(s) - i : b[j] = s[j + i]
  <2>1. \A j \in i + 1 .. Len(s) : s[j] \in S
    BY <1>0, ElementOfSeq
  <2>2. b \in Seq(S) /\ Len(b) = (IF i + 1 <= Len(s) THEN Len(s) - (i + 1) + 1 ELSE 0)
        /\ \A j \in 1 .. Len(s) - (i + 1) + 1 : b[j] = s[(i + 1) + j - 1]
    BY <1>0, <2>1, SubSeqProperties
  <2> QED BY <1>0, <2>2
<1> HIDE DEF a, b
<1>3. /\ a \o b \in Seq(S) /\ Len(a \o b) = Len(s) - 1
      /\ \A j \in 1 .. Len(s) - 1 : (a \o b)[j] = IF j <= i - 1 THEN a[j] ELSE b[j - (i - 1)]
  <2>1. /\ a \o b \in Seq(S)
        /\ Len(a \o b) = Len(a) + Len(b)
        /\ \A j \in 1 .. Len(a) + Len(b) : (a \o b)[j] =
             IF j <= Len(a) THEN a[j] ELSE b[j - Len(a)]
    BY <1>1, <1>2, ConcatProperties
  <2> QED BY <1>0, <1>1, <1>2, <2>1
<1>4. RemoveAt(s, i) = a \o b
  BY DEF RemoveAt, a, b
<1>5. ASSUME NEW j \in 1 .. Len(s) - 1
      PROVE  (a \o b)[j] = IF j < i THEN s[j] ELSE s[j + 1]
  <2>0. j \in Int /\ (j < i \/ ~(j < i))
    BY <1>0
  <2>1. ASSUME j < i PROVE (a \o b)[j] = s[j]
    BY <1>0, <1>1, <1>3, <2>1
  <2>2. ASSUME ~(j < i) PROVE (a \o b)[j] = s[j + 1]
    <3>1. j - (i - 1) \in 1 .. Len(s) - i /\ (j - (i - 1)) + i = j + 1
      BY <1>0, <2>2
    <3> QED BY <1>0, <1>2, <1>3, <2>2, <3>1
  <2> QED BY <2>0, <2>1, <2>2
<1> QED BY <1>3, <1>4, <1>5

\* Taking an entry out of a queue without duplicates.
LEMMA WithoutProperties ==
  ASSUME NEW S, NEW s \in Seq(S), NEW r \in Range(s), IsInjective(s)
  PROVE  /\ Without(s, r) \in Seq(S)
         /\ IsInjective(Without(s, r))
         /\ Range(Without(s, r)) = Range(s) \ {r}
<1>0. DOMAIN s = 1 .. Len(s) /\ Len(s) \in Nat
  BY LenProperties
<1>1. PICK i \in 1 .. Len(s) : i = (CHOOSE j \in DOMAIN s : s[j] = r) /\ s[i] = r
  BY <1>0 DEF Range
<1> DEFINE t == Without(s, r)
<1>2. /\ t \in Seq(S) /\ Len(t) = Len(s) - 1
      /\ \A j \in 1 .. Len(s) - 1 : t[j] = IF j < i THEN s[j] ELSE s[j + 1]
  BY <1>1, RemoveAtProperties DEF Without
<1>3. DOMAIN t = 1 .. Len(s) - 1
  BY <1>2, LenProperties
<1> HIDE DEF t
<1>4. IsInjective(t)
  <2> SUFFICES ASSUME NEW x \in 1 .. Len(s) - 1, NEW y \in 1 .. Len(s) - 1, t[x] = t[y]
               PROVE  x = y
    BY <1>3 DEF IsInjective
  <2> DEFINE n(z) == IF z < i THEN z ELSE z + 1
  <2>1. n(x) \in DOMAIN s /\ n(y) \in DOMAIN s /\ t[x] = s[n(x)] /\ t[y] = s[n(y)]
    BY <1>0, <1>2
  <2>2. n(x) = n(y)
    BY <2>1 DEF IsInjective
  <2> QED BY <1>0, <2>2
<1>5. ASSUME NEW x \in 1 .. Len(s) - 1
      PROVE  t[x] \in Range(s) \ {r}
  <2> DEFINE n == IF x < i THEN x ELSE x + 1
  <2>1. n \in DOMAIN s /\ n # i /\ t[x] = s[n]
    BY <1>0, <1>2
  <2>2. s[n] # r
    BY <1>0, <1>1, <2>1 DEF IsInjective
  <2> QED BY <2>1, <2>2 DEF Range
<1>6. ASSUME NEW j \in 1 .. Len(s), s[j] # r
      PROVE  s[j] \in Range(t)
  <2>1. CASE j < i
    <3>1. j \in 1 .. Len(s) - 1 /\ t[j] = s[j]
      BY <1>0, <1>2, <2>1
    <3> QED BY <1>3, <3>1 DEF Range
  <2>2. CASE ~(j < i)
    <3>1. j # i
      BY <1>1, <1>6
    <3>2. j - 1 \in 1 .. Len(s) - 1 /\ ~(j - 1 < i) /\ (j - 1) + 1 = j
      BY <1>0, <2>2, <3>1
    <3>3. t[j - 1] = s[j]
      BY <1>2, <3>2
    <3> QED BY <1>3, <3>2, <3>3 DEF Range
  <2> QED BY <2>1, <2>2
<1>7. Range(t) = Range(s) \ {r}
  BY <1>0, <1>3, <1>5, <1>6 DEF Range
<1> QED BY <1>2, <1>4, <1>7 DEF t

\* An entry put at the end of a queue.
LEMMA AppendRange ==
  ASSUME NEW S, NEW s \in Seq(S), NEW e \in S
  PROVE  /\ Append(s, e) \in Seq(S) /\ Len(Append(s, e)) = Len(s) + 1
         /\ Range(Append(s, e)) = Range(s) \cup {e}
         /\ IsInjective(s) /\ e \notin Range(s) => IsInjective(Append(s, e))
<1> DEFINE t == Append(s, e)
<1>1. /\ t \in Seq(S) /\ Len(t) = Len(s) + 1 /\ t[Len(s) + 1] = e
      /\ \A i \in 1 .. Len(s) : t[i] = s[i]
  BY AppendProperties
<1>2. DOMAIN s = 1 .. Len(s) /\ Len(s) \in Nat /\ DOMAIN t = 1 .. Len(s) + 1
  BY <1>1, LenProperties
<1> HIDE DEF t
<1>3. Range(t) = Range(s) \cup {e}
  <2>1. ASSUME NEW i \in 1 .. Len(s) + 1 PROVE t[i] \in Range(s) \cup {e}
    <3>1. i = Len(s) + 1 \/ i \in 1 .. Len(s)
      BY <1>2
    <3> QED BY <1>1, <1>2, <3>1 DEF Range
  <2>2. ASSUME NEW i \in 1 .. Len(s) PROVE s[i] \in Range(t)
    <3>1. i \in 1 .. Len(s) + 1 /\ t[i] = s[i]
      BY <1>1, <1>2
    <3> QED BY <1>2, <3>1 DEF Range
  <2>3. e \in Range(t)
    <3>1. Len(s) + 1 \in 1 .. Len(s) + 1
      BY <1>2
    <3> QED BY <1>1, <1>2, <3>1 DEF Range
  <2> QED BY <1>2, <2>1, <2>2, <2>3 DEF Range
<1>4. ASSUME IsInjective(s), e \notin Range(s) PROVE IsInjective(t)
  <2> SUFFICES ASSUME NEW i \in 1 .. Len(s) + 1, NEW j \in 1 .. Len(s) + 1, t[i] = t[j]
               PROVE  i = j
    BY <1>2 DEF IsInjective
  <2>1. (i = Len(s) + 1 \/ i \in 1 .. Len(s)) /\ (j = Len(s) + 1 \/ j \in 1 .. Len(s))
    BY <1>2
  <2> QED BY <1>1, <1>2, <1>4, <2>1 DEF IsInjective, Range
<1> QED BY <1>1, <1>3, <1>4 DEF t

\* The first entry taken from a queue.
LEMMA TailRange ==
  ASSUME NEW S, NEW s \in Seq(S), s # <<>>
  PROVE  /\ Tail(s) \in Seq(S) /\ Len(Tail(s)) = Len(s) - 1 /\ Len(s) \in Nat \ {0}
         /\ Head(s) = s[1] /\ Head(s) \in S
         /\ \A i \in 1 .. Len(s) - 1 : Tail(s)[i] = s[i + 1]
         /\ Range(s) = Range(Tail(s)) \cup {Head(s)}
         /\ IsInjective(s) => IsInjective(Tail(s)) /\ Head(s) \notin Range(Tail(s))
<1> DEFINE t == Tail(s)
<1>1. /\ t \in Seq(S) /\ Len(t) = Len(s) - 1 /\ Head(s) \in S
      /\ \A i \in 1 .. Len(s) - 1 : t[i] = s[i + 1]
  BY HeadTailProperties
<1>2. DOMAIN s = 1 .. Len(s) /\ Len(s) \in Nat \ {0} /\ DOMAIN t = 1 .. Len(s) - 1
  BY <1>1, LenProperties, EmptySeq
<1>3. Head(s) = s[1]
  OBVIOUS
<1> HIDE DEF t
<1>4. Range(s) = Range(t) \cup {Head(s)}
  <2>1. ASSUME NEW i \in 1 .. Len(s) PROVE s[i] \in Range(t) \cup {s[1]}
    <3>1. CASE i = 1
      BY <3>1
    <3>2. CASE i # 1
      <4>1. i - 1 \in 1 .. Len(s) - 1 /\ (i - 1) + 1 = i
        BY <1>2, <3>2
      <4>2. t[i - 1] = s[i]
        BY <1>1, <4>1
      <4> QED BY <1>2, <4>1, <4>2 DEF Range
    <3> QED BY <3>1, <3>2
  <2>2. ASSUME NEW i \in 1 .. Len(s) - 1 PROVE t[i] \in Range(s)
    <3>1. i + 1 \in 1 .. Len(s) /\ t[i] = s[i + 1]
      BY <1>1, <1>2
    <3> QED BY <1>2, <3>1 DEF Range
  <2>3. s[1] \in Range(s)
    <3>1. 1 \in 1 .. Len(s)
      BY <1>2
    <3> QED BY <1>2, <3>1 DEF Range
  <2> QED BY <1>2, <1>3, <2>1, <2>2, <2>3 DEF Range
<1>5. ASSUME IsInjective(s) PROVE IsInjective(t) /\ Head(s) \notin Range(t)
  <2>1. ASSUME NEW i \in 1 .. Len(s) - 1
        PROVE  i + 1 \in DOMAIN s /\ 1 \in DOMAIN s /\ i + 1 # 1 /\ t[i] = s[i + 1]
    BY <1>1, <1>2
  <2>2. ASSUME NEW i \in 1 .. Len(s) - 1, NEW j \in 1 .. Len(s) - 1, t[i] = t[j]
        PROVE  i = j
    <3>1. i + 1 = j + 1
      BY <1>5, <2>1, <2>2 DEF IsInjective
    <3> QED BY <3>1
  <2>3. ASSUME NEW i \in 1 .. Len(s) - 1 PROVE t[i] # s[1]
    BY <1>5, <2>1 DEF IsInjective
  <2> QED BY <1>2, <1>3, <2>2, <2>3 DEF IsInjective, Range
<1> QED BY <1>1, <1>2, <1>3, <1>4, <1>5 DEF t

-----------------------------------------------------------------------------
(* Statuses and scenarios.                                                 *)

\* The larger of two numbers.
LEMMA MaxOfTwo ==
  ASSUME NEW a \in Int, NEW b \in Int
  PROVE  Max({a, b}) = IF a >= b THEN a ELSE b
<1>1. \E x \in {a, b} : \A y \in {a, b} : x >= y
  OBVIOUS
<1> QED BY <1>1 DEF Max

LEMMA StatusesKnown ==
  /\ {Failed, Bootstrapping, WaitingForInput, Success} \subseteq Statuses \ {NoRoom}
  /\ NoRoom \in Statuses
BY DEF Statuses, NoRoom, Failed, Bootstrapping, WaitingForInput, Success

\* update_status touches one room, and by cases.
LEMMA UpdateStatusIs ==
  ASSUME NEW st \in [Req -> Statuses], NEW r \in Req, NEW s \in Statuses \ {NoRoom}
  PROVE  /\ UpdateStatus(st, r, s) \in [Req -> Statuses]
         /\ \A q \in Req : q # r => UpdateStatus(st, r, s)[q] = st[q]
         /\ UpdateStatus(st, r, s)[r] =
              IF s = Failed THEN IF st[r] = NoRoom THEN NoRoom ELSE Failed
              ELSE IF st[r] >= s THEN st[r] ELSE s
<1>1. st[r] \in Statuses /\ Statuses \subseteq Int
  BY DEF Statuses, NoRoom, Failed, Bootstrapping, WaitingForInput, Success
<1>2. Max({st[r], s}) = IF st[r] >= s THEN st[r] ELSE s
  BY <1>1, MaxOfTwo
<1>3. UpdateStatus(st, r, s) =
        [st EXCEPT ![r] = IF s = Failed THEN IF st[r] = NoRoom THEN NoRoom ELSE Failed
                          ELSE IF st[r] >= s THEN st[r] ELSE s]
  BY <1>2 DEF UpdateStatus
<1>4. NoRoom \in Statuses /\ Failed \in Statuses
  BY DEF Statuses
<1> QED BY <1>1, <1>3, <1>4

\* Answers are counted up to two.
LEMMA SaturatedIs ==
  ASSUME NEW n \in 0 .. 2
  PROVE  Saturated(n) \in 0 .. 2 /\ (n = 0 => Saturated(n) = 1)
<1>1. \E x \in {n + 1, 2} : \A y \in {n + 1, 2} : x =< y
  OBVIOUS
<1> QED BY <1>1 DEF Saturated, Min

\* What the assumption says of a scenario.
LEMMA ScenarioFacts ==
  ASSUME scen \in Scenarios
  PROVE  /\ scen.pages \in Nat \ {0} /\ scen.long \subseteq Req
         /\ \A r \in Req : Chunks(r) \in {1, 2}
         /\ Req \subseteq Nat \ {0} /\ IsFiniteSet(Req)
         /\ PSlots \in Nat /\ DSlots \in Nat /\ MaxEnsure \in Nat \ {0}
BY DisaggAssumption DEF IsScenario, Chunks

\* The steps of decode leave prefill alone, and the other way round.
LEMMA DecodeFrame ==
  ASSUME DecodeNext
  PROVE  UNCHANGED <<pq, bootq, pconc, pmeta, ppages, pslots, pfree, pbuf, pkv, pstatus, infos,
                     xq, wk, bt, broken, alive, dbuf, dkv, pans>>
BY DEF DecodeNext, DecodeLoop, prefill, prefillMgr, memory, answers, DecodeAdd,
       UpdateHandshakeWaiter, PopPreallocated, WaitingTimeout, PopTransferFailed, PopTransferred,
       DecodeFinish, AbortDecode, ResolvePending, EnsureFails, DecodeThread, DecodeUpdate,
       FailRooms, HeartbeatOK, HandleNodeFailure

LEMMA PrefillFrame ==
  ASSUME PrefillNext \/ PrefillCrash
  PROVE  UNCHANGED <<dq, prealloc, dconc, dmeta, dpages, dslots, dfree, ready, pending, tries,
                     dstatus, known, tracker, dt, hb, dans, corrupt>>
BY DEF PrefillNext, PrefillLoop, Worker, PrefillCrash, decode, decodeMgr, answers, PrefillAdd,
       BootstrapTimeout, PopFailed, PopBootstrapped, PrefillFirstChunk, ProcessPrefillChunk,
       PrefillLastChunk, ProcessInflight, AbortPrefill, AbortQueued, AbortSender, BootstrapThread,
       BootstrapUpdate, WorkerGet, WorkerLook, WorkerReport, WorkerSendKV, WorkerSendAux,
       WorkerCheck, PrefillLeave

LEMMA LoseFrame ==
  ASSUME LoseMessage
  PROVE  UNCHANGED <<pq, bootq, pconc, pmeta, ppages, pslots, pfree, pbuf, pkv, pstatus, infos,
                     xq, wk, bt, broken, alive, dq, prealloc, dconc, dmeta, dpages, dslots, dfree,
                     ready, pending, tries, dbuf, dkv, dstatus, known, tracker, dt, hb, pans, dans,
                     corrupt, cut>>
BY DEF LoseMessage, prefill, prefillMgr, decode, memory, decodeMgr, answers

-----------------------------------------------------------------------------
(* The steps of the threads.                                               *)

\* The chunk in the transfer thread's hands, once it has one.
LEMMA WorkerBusy ==
  ASSUME PrefillTypes, wk.stage # "idle"
  PROVE  wk \in WorkerState /\ wk.c \in Chunk /\ wk.c.room \in Req
BY DEF PrefillTypes, Idle, WorkerState, Chunk

\* Between its message and its store a thread changes little else.
LEMMA QuietSteps ==
  /\ BootstrapUpdate \/ WorkerLook \/ WorkerReport =>
       UNCHANGED <<prefill, infos, xq, broken, alive, decode, memory, decodeMgr, toP, answers>>
  /\ DecodeThread \/ DecodeUpdate \/ FailRooms =>
       UNCHANGED <<prefill, prefillMgr, decode, memory, known, tracker, toP, answers>>
  /\ BootstrapUpdate \/ WorkerLook \/ DecodeUpdate \/ FailRooms => UNCHANGED toD
  /\ \A r \in Req : DecodeAdd(r) =>
       /\ UNCHANGED <<prefill, prefillMgr, dmeta, dpages, dslots, dfree, ready, tries, memory,
                      known, dt, hb, net, answers>>
       /\ dq[r] = "new" /\ dq' = [dq EXCEPT ![r] = "prealloc"]
  /\ ResolvePending => UNCHANGED <<prefill, prefillMgr, dq, prealloc, dmeta, dpages, dslots, dfree,
                                   ready, memory, tracker, dt, hb, net, answers>>
  /\ EnsureFails => UNCHANGED <<prefill, prefillMgr, dq, prealloc, dmeta, dpages, dslots, dfree,
                                ready, memory, known, tracker, dt, hb, net, answers>>
<1>1. BootstrapUpdate \/ WorkerLook \/ WorkerReport =>
        UNCHANGED <<prefill, infos, xq, broken, alive, decode, memory, decodeMgr, toP, answers>>
  BY DEF BootstrapUpdate, WorkerLook, WorkerReport, net
<1>2. DecodeThread \/ DecodeUpdate \/ FailRooms =>
        UNCHANGED <<prefill, prefillMgr, decode, memory, known, tracker, toP, answers>>
  BY DEF DecodeThread, DecodeUpdate, FailRooms, net
<1>3. BootstrapUpdate \/ WorkerLook \/ DecodeUpdate \/ FailRooms => UNCHANGED toD
  BY DEF BootstrapUpdate, WorkerLook, DecodeUpdate, FailRooms, net
<1>4. ASSUME NEW r \in Req, DecodeAdd(r)
      PROVE  /\ UNCHANGED <<prefill, prefillMgr, dmeta, dpages, dslots, dfree, ready, tries,
                            memory, known, dt, hb, net, answers>>
             /\ dq[r] = "new" /\ dq' = [dq EXCEPT ![r] = "prealloc"]
  BY <1>4 DEF DecodeAdd
<1>5. ResolvePending =>
        UNCHANGED <<prefill, prefillMgr, dq, prealloc, dmeta, dpages, dslots, dfree, ready, memory,
                    tracker, dt, hb, net, answers>>
  BY DEF ResolvePending
<1>6. EnsureFails =>
        UNCHANGED <<prefill, prefillMgr, dq, prealloc, dmeta, dpages, dslots, dfree, ready, memory,
                    known, tracker, dt, hb, net, answers>>
  BY DEF EnsureFails
<1> QED BY <1>1, <1>2, <1>3, <1>4, <1>5, <1>6

\* The larger of a thread's status and the one it read.
LEMMA MaxRead ==
  ASSUME NEW a \in {Failed, WaitingForInput, Success}, NEW b \in Statuses
  PROVE  Max({a, b}) = IF a >= b THEN a ELSE b
<1>1. a \in Int /\ b \in Int
  BY DEF Statuses, NoRoom, Failed, Bootstrapping, WaitingForInput, Success
<1> QED BY <1>1, MaxOfTwo

\* The transfer thread notes a result, or finds the room gone, and tells decode.
LEMMA WorkerReportIs ==
  ASSUME PrefillTypes, Traffic, WorkerReport
  PROVE  /\ wk \in WorkerState /\ wk.c \in Chunk /\ wk.c.room \in Req
         /\ \/ /\ wk.stage = "store" /\ wk' = [wk EXCEPT !.stage = "tell"]
               /\ pstatus' = [pstatus EXCEPT ![wk.c.room] = wk.val] /\ toD' = toD
            \/ /\ wk.stage = "tell" /\ wk' = [wk EXCEPT !.stage = "check"]
               /\ toD' = toD \cup {<<wk.c.room, wk.val>>} /\ pstatus' = pstatus
            \/ /\ wk.stage \in {"test", "read"} /\ pstatus' = pstatus /\ toD' = toD
               /\ \E x \in {"read", "store"} : /\ wk' = [wk EXCEPT !.stage = x]
                                               /\ x = "read" => wk.val = Success
            \/ /\ wk.stage \in {"test", "read"} /\ pstatus' = pstatus /\ toD' = toD
               /\ pstatus[wk.c.room] = NoRoom
               /\ \E x \in {"tell", "dead"} : wk' = [wk EXCEPT !.stage = x]
<1>1. wk.stage # "idle"
  BY DEF WorkerReport, Updating
<1>2. wk \in WorkerState /\ wk.c \in Chunk /\ wk.c.room \in Req
  BY <1>1, WorkerBusy
<1>3. CASE wk.stage = "tell"
  BY <1>2, <1>3 DEF WorkerReport, Updating
<1>4. CASE Updating(wk)
  <2> DEFINE d == [wk EXCEPT !.stage = "tell"]
             u == UpdateStep(wk, wk.c.room, pstatus, d)
  <2>1. wk' = u /\ pstatus' = Stored(wk, wk.c.room, pstatus) /\ toD' = toD
    BY <1>4 DEF WorkerReport, Updating
  <2>2. pstatus \in [Req -> Statuses] /\ wk.val \in {Failed, Success}
    BY <1>2 DEF PrefillTypes, WorkerState
  <2>4. wk.stage = "read" => wk.val = Success
    BY DEF Traffic, WorkerOK
  <2>5. Max({Success, pstatus[wk.c.room]}) = Success
    BY <1>2, <2>2, MaxRead DEF Statuses, NoRoom, Failed, Bootstrapping, WaitingForInput, Success
  <2>6. CASE wk.stage = "store"
    BY <1>2, <2>1, <2>6 DEF UpdateStep, Stored
  <2>7. CASE wk.stage = "test"
    <3>1. wk.val # Failed => wk.val = Success
      BY <2>2
    <3>2. /\ pstatus' = pstatus
          /\ \/ pstatus[wk.c.room] = NoRoom /\ wk' = d
             \/ wk' = [wk EXCEPT !.stage = "store"]
             \/ wk.val = Success /\ wk' = [wk EXCEPT !.stage = "read"]
      BY <2>1, <2>7, <3>1 DEF UpdateStep, Stored
    <3> QED BY <1>2, <2>1, <2>7, <3>2
  <2>8. CASE wk.stage = "read"
    <3>1. [wk EXCEPT !.stage = "store", !.val = Success] = [wk EXCEPT !.stage = "store"]
      BY <1>2, <2>4, <2>8 DEF WorkerState
    <3>2. /\ pstatus' = pstatus
          /\ \/ pstatus[wk.c.room] = NoRoom /\ wk' = [wk EXCEPT !.stage = "dead"]
             \/ wk' = [wk EXCEPT !.stage = "store", !.val = Max({wk.val, pstatus[wk.c.room]})]
      BY <2>1, <2>8 DEF UpdateStep, Stored
    <3> HIDE DEF u, d
    <3>3. CASE wk' = [wk EXCEPT !.stage = "store"]
      BY <1>2, <2>1, <2>8, <3>2, <3>3
    <3>4. CASE pstatus[wk.c.room] = NoRoom /\ wk' = [wk EXCEPT !.stage = "dead"]
      BY <1>2, <2>1, <2>8, <3>2, <3>4
    <3> QED BY <2>4, <2>5, <2>8, <3>1, <3>2, <3>3, <3>4
  <2> QED BY <1>4, <2>6, <2>7, <2>8 DEF Updating
<1> QED BY <1>3, <1>4 DEF WorkerReport

\* The bootstrap thread after it took the indices.
LEMMA BootstrapUpdateIs ==
  ASSUME PrefillTypes, BootstrapOK, BootstrapUpdate
  PROVE  /\ bt.room \in Req /\ Handling(bt, bt.room) /\ bt.val \in {WaitingForInput, Success}
         /\ \/ /\ bt' = Resting /\ pstatus' = [pstatus EXCEPT ![bt.room] = bt.val]
            \/ /\ pstatus' = pstatus /\ bt'.room = bt.room /\ BootstrapTypes'
               /\ bt'.stage # "idle"
               /\ bt'.val = bt.val \/ (bt'.val = pstatus[bt.room] /\ bt'.val > bt.val)
<1>1. bt.room \in Req /\ Handling(bt, bt.room) /\ bt.val \in {WaitingForInput, Success}
  <2>1. bt.stage \in {"count", "test", "read", "store"}
    BY DEF BootstrapUpdate, Updating
  <2>2. bt.room \in Req
    BY <2>1 DEF BootstrapOK, BootstrapTypes
  <2> QED BY <2>1, <2>2 DEF BootstrapOK, BootstrapTypes, Handling
<1>0. pstatus \in [Req -> Statuses] /\ pstatus[bt.room] \in Statuses
  BY <1>1 DEF PrefillTypes
<1>2. CASE bt.stage = "count"
  BY <1>1, <1>2 DEF BootstrapUpdate, BootstrapOK, BootstrapTypes, Updating
<1>3. CASE Updating(bt)
  <2>1. /\ bt' = UpdateStep(bt, bt.room, pstatus, Resting)
        /\ pstatus' = Stored(bt, bt.room, pstatus)
    BY <1>3 DEF BootstrapUpdate, Updating
  <2>2. CASE bt.stage = "store"
    BY <1>1, <2>1, <2>2 DEF UpdateStep, Stored
  <2>3. CASE bt.stage = "test"
    <3>1. bt.val # Failed
      BY <1>1 DEF Failed, WaitingForInput, Success
    <3>2. pstatus' = pstatus /\ \E x \in {"store", "read"} : bt' = [bt EXCEPT !.stage = x]
      BY <2>1, <2>3, <3>1 DEF UpdateStep, Stored
    <3> QED BY <1>1, <3>2 DEF BootstrapOK, BootstrapTypes
  <2>4. CASE bt.stage = "read"
    <3>1. /\ pstatus' = pstatus
          /\ \/ bt' = [bt EXCEPT !.stage = "dead"]
             \/ /\ pstatus[bt.room] # NoRoom
                /\ bt' = [bt EXCEPT !.stage = "store",
                            !.val = IF bt.val >= pstatus[bt.room] THEN bt.val ELSE pstatus[bt.room]]
      <4>1. Max({bt.val, pstatus[bt.room]}) =
              IF bt.val >= pstatus[bt.room] THEN bt.val ELSE pstatus[bt.room]
        BY <1>0, <1>1, MaxRead
      <4> QED BY <2>1, <2>4, <4>1 DEF UpdateStep, Stored
    <3>2. CASE bt' = [bt EXCEPT !.stage = "dead"]
      BY <1>1, <3>1, <3>2 DEF BootstrapOK, BootstrapTypes
    <3>3. CASE bt' = [bt EXCEPT !.stage = "store", !.val = bt.val]
      BY <1>1, <3>1, <3>3 DEF BootstrapOK, BootstrapTypes
    <3>4. CASE ~(bt.val >= pstatus[bt.room]) /\ bt' = [bt EXCEPT !.stage = "store", !.val = pstatus[bt.room]]
      <4>1. pstatus[bt.room] = Success /\ pstatus[bt.room] > bt.val
        BY <1>0, <1>1, <3>4 DEF Statuses, NoRoom, Failed, Bootstrapping, WaitingForInput, Success
      <4> QED BY <1>1, <3>1, <3>4, <4>1 DEF BootstrapOK, BootstrapTypes
    <3> QED BY <3>1, <3>2, <3>3, <3>4
  <2> QED BY <1>3, <2>2, <2>3, <2>4 DEF Updating
<1> QED BY <1>1, <1>2, <1>3 DEF BootstrapUpdate

\* The decode thread after it took a message.
LEMMA DecodeUpdateIs ==
  ASSUME DecodeTypes, DecodeThreadOK, DecodeUpdate
  PROVE  /\ dt.room \in Req /\ Handling(dt, dt.room) /\ dt.val \in {Failed, Success}
         /\ \/ dt' = Resting /\ dstatus' = [dstatus EXCEPT ![dt.room] = dt.val]
            \/ dt' = Resting /\ dstatus' = dstatus
            \/ /\ dstatus' = dstatus
               /\ \E x \in {"test", "read", "store", "dead"} : /\ dt' = [dt EXCEPT !.stage = x]
                                                               /\ x = "read" => dt.val = Success
<1>1. dt.room \in Req /\ Handling(dt, dt.room) /\ dt.val \in {Failed, Success}
  <2>1. dt.stage \in {"count", "test", "read", "store"}
    BY DEF DecodeUpdate, Updating
  <2> QED BY <2>1 DEF DecodeThreadOK, Handling
<1>0. dstatus \in [Req -> Statuses] /\ dstatus[dt.room] \in Statuses
  BY <1>1 DEF DecodeTypes
<1>2. CASE dt.stage = "count"
  BY <1>1, <1>2 DEF DecodeUpdate, Updating
<1>3. CASE Updating(dt)
  <2>1. /\ dt' = UpdateStep(dt, dt.room, dstatus, Resting)
        /\ dstatus' = Stored(dt, dt.room, dstatus)
    BY <1>3 DEF DecodeUpdate, Updating
  <2>2. CASE dt.stage = "store"
    BY <1>1, <2>1, <2>2 DEF UpdateStep, Stored
  <2>3. CASE dt.stage = "test"
    BY <1>1, <2>1, <2>3 DEF UpdateStep, Stored
  <2>4. CASE dt.stage = "read"
    <3>0. dt.val = Success /\ Max({Success, dstatus[dt.room]}) = Success
      BY <1>0, <2>4, MaxRead DEF DecodeThreadOK, Statuses, NoRoom, Failed, Bootstrapping,
                                 WaitingForInput, Success
    <3>1. /\ dstatus' = dstatus
          /\ \/ dt' = [dt EXCEPT !.stage = "dead"]
             \/ dt' = [dt EXCEPT !.stage = "store", !.val = Success]
      BY <2>1, <2>4, <3>0 DEF UpdateStep, Stored
    <3>2. [dt EXCEPT !.stage = "store", !.val = Success] = [dt EXCEPT !.stage = "store"]
      <4>1. dt \in [stage : {"idle", "count", "test", "read", "store", "dead"},
                    room : Req \cup {0}, val : {Failed, Success}]
        BY DEF DecodeThreadOK
      <4> QED BY <3>0, <4>1
    <3> QED BY <1>1, <3>1, <3>2
  <2> QED BY <1>3, <2>2, <2>3, <2>4 DEF Updating
<1> QED BY <1>1, <1>2, <1>3 DEF DecodeUpdate

\* The heartbeat thread fails a room, or goes on.
LEMMA FailRoomsIs ==
  ASSUME DecodeTypes, HeartbeatThreadOK, FailRooms
  PROVE  /\ hb.stage # "idle"
         /\ \/ /\ hb.room \in Req /\ dq[hb.room] # "new"
               /\ dstatus' = [dstatus EXCEPT ![hb.room] = Failed]
            \/ dstatus' = dstatus
         /\ \/ hb' = Watching
            \/ \E r \in hb.todo, x \in {"next", "look"} :
                 hb' = At(x, r, hb.todo \ {r})
            \/ hb' = At("next", 0, hb.todo)
            \/ hb.stage \in {"look", "test"} /\ \E x \in {"test", "store", "dead"} :
                                                  hb' = [hb EXCEPT !.stage = x]
<1>0. dstatus \in [Req -> Statuses] /\ hb.val = Failed /\ hb.stage # "read"
  BY DEF DecodeTypes, HeartbeatThreadOK
<1>1. CASE hb.stage = "next"
  BY <1>1 DEF FailRooms, Updating
<1>3. CASE hb.stage = "look"
  BY <1>3 DEF FailRooms, Updating
<1>2. CASE Updating(hb)
  <2> DEFINE d == At("next", 0, hb.todo)
  <2>1. /\ hb' = UpdateStep(hb, hb.room, dstatus, d)
        /\ dstatus' = Stored(hb, hb.room, dstatus)
    BY <1>2 DEF FailRooms, Updating
  <2>2. hb.room \in Req /\ dq[hb.room] # "new"
    BY <1>0, <1>2 DEF Updating, HeartbeatThreadOK
  <2>3. /\ hb.stage = "store" => hb' = d /\ dstatus' = [dstatus EXCEPT ![hb.room] = Failed]
        /\ hb.stage = "test" => /\ dstatus' = dstatus
                                /\ hb' = d \/ hb' = [hb EXCEPT !.stage = "store"]
    BY <1>0, <2>1 DEF UpdateStep, Stored
  <2>4. CASE hb.stage = "store"
    BY <2>2, <2>3, <2>4
  <2>5. CASE hb.stage = "test"
    <3>1. CASE hb' = d
      BY <2>3, <2>5, <3>1
    <3>2. CASE hb' = [hb EXCEPT !.stage = "store"]
      BY <2>3, <2>5, <3>2
    <3> QED BY <2>3, <2>5, <3>1, <3>2
  <2> QED BY <1>0, <1>2, <2>4, <2>5 DEF Updating
<1> QED BY <1>1, <1>2, <1>3 DEF FailRooms

-----------------------------------------------------------------------------
(* Types.                                                                  *)

\* The chunk add_transfer_request queues.
NewChunk(r, k, pages) ==
  [room |-> r, k |-> k, last |-> k = Chunks(r), src |-> pages[k],
   aux |-> IF k = Chunks(r) THEN pmeta[r] ELSE 0]

LEMMA SendKVChunkIs ==
  ASSUME NEW r \in Req, NEW k \in {1, 2}, NEW pages \in Seq(Page), k <= Len(pages),
         scen \in Scenarios, pmeta \in [Req -> Nat], xq \in Seq(Chunk),
         SendKVChunk(r, k, pages)
  PROVE  /\ NewChunk(r, k, pages) \in Chunk
         /\ xq' = IF pstatus[r] \in {NoRoom, Failed} \/ infos[r] = NoInfo THEN xq
                  ELSE Append(xq, NewChunk(r, k, pages))
         /\ xq' \in Seq(Chunk)
<1>1. Page \subseteq Nat
  BY ScenarioFacts DEF Page
<1>2. pages[k] \in Nat
  <2>1. k \in 1 .. Len(pages)
    BY LenProperties
  <2> QED BY <1>1, <2>1, ElementOfSeq
<1>3. NewChunk(r, k, pages) \in Chunk
  BY <1>2 DEF NewChunk, Chunk
<1>4. xq' = IF pstatus[r] \in {NoRoom, Failed} \/ infos[r] = NoInfo THEN xq
            ELSE Append(xq, NewChunk(r, k, pages))
  BY DEF SendKVChunk, NewChunk
<1>5. xq' \in Seq(Chunk)
  BY <1>3, <1>4, AppendProperties
<1> QED BY <1>3, <1>4, <1>5

\* The forward pass takes a free page and puts it at the end of the request's.
LEMMA ComputeIs ==
  ASSUME NEW r \in Req, NEW k, scen \in Scenarios,
         ppages \in [Req -> Seq(Page)], pfree \subseteq Page, DOMAIN pkv = Page,
         Compute(r, k)
  PROVE  \E p \in pfree :
           /\ pfree' = pfree \ {p}
           /\ ppages' = [ppages EXCEPT ![r] = Append(ppages[r], p)]
           /\ pkv' = [pkv EXCEPT ![p] = <<r, k>>]
           /\ ppages' \in [Req -> Seq(Page)] /\ DOMAIN pkv' = Page
           /\ Append(ppages[r], p) \in Seq(Page)
           /\ Len(Append(ppages[r], p)) = Len(ppages[r]) + 1
<1>1. PICK p \in pfree : /\ pfree' = pfree \ {p}
                         /\ ppages' = [ppages EXCEPT ![r] = Append(ppages[r], p)]
                         /\ pkv' = [pkv EXCEPT ![p] = <<r, k>>]
  BY DEF Compute
<1>2. Append(ppages[r], p) \in Seq(Page) /\ Len(Append(ppages[r], p)) = Len(ppages[r]) + 1
  BY AppendProperties
<1>3. ppages' \in [Req -> Seq(Page)] /\ DOMAIN pkv' = Page
  BY <1>1, <1>2
<1> QED BY <1>1, <1>2, <1>3

\* A request that leaves the prefill server.
LEMMA PrefillLeaveTypes ==
  ASSUME NEW r \in Req, PrefillTypes, NetTypes, PrefillLeave(r)
  PROVE  /\ pq' = [pq EXCEPT ![r] = "done"]
         /\ ppages' \in [Req -> Seq(Page)] /\ pfree' \subseteq Page
         /\ pmeta' \in [Req -> Nat] /\ pans' \in [Req -> 0 .. 2]
<1>1. <<>> \in Seq(Page) /\ Range(ppages[r]) \subseteq Page
  BY EmptySeq, RangeOfSeq DEF PrefillTypes
<1>2. pans' \in [Req -> 0 .. 2]
  BY SaturatedIs DEF PrefillTypes, PrefillLeave
<1> QED BY <1>1, <1>2 DEF PrefillTypes, PrefillLeave

\* The invariant keeps the prefill server's types.
LEMMA PrefillTypesStep ==
  ASSUME DisaggInv, Next
  PROVE  PrefillTypes'
<1> USE DEF DisaggInv
<1>0. Page' = Page /\ Page \subseteq Nat /\ scen \in Scenarios /\ <<>> \in Seq(Page)
  BY ScenarioFacts, EmptySeq DEF Next, Page, NetTypes
<1>1. ASSUME NEW r \in Req, PrefillAdd(r) PROVE PrefillTypes'
  <2>1. /\ bootq' \in Seq(Req) /\ Range(bootq') = Range(bootq) \cup {r}
        /\ IsInjective(bootq')
    BY <1>1, AppendRange DEF PrefillAdd, PrefillTypes
  <2>2. pstatus' \in [Req -> Statuses]
    <3>1. pstatus \in [Req -> Statuses]
          /\ (pstatus' = UpdateStatus(pstatus, r, Bootstrapping)
              \/ pstatus' = [pstatus EXCEPT ![r] = Bootstrapping])
      BY <1>1 DEF PrefillAdd, PrefillTypes
    <3>2. CASE pstatus' = UpdateStatus(pstatus, r, Bootstrapping)
      BY <3>1, <3>2, UpdateStatusIs, StatusesKnown
    <3>3. CASE pstatus' = [pstatus EXCEPT ![r] = Bootstrapping]
      BY <3>1, <3>3, StatusesKnown
    <3> QED BY <3>1, <3>2, <3>3
  <2>3. /\ UNCHANGED <<pconc, pmeta, ppages, pfree, pbuf, pkv, infos, xq, wk, alive, broken, pans>>
        /\ pq' = [pq EXCEPT ![r] = "bootstrap"]
    BY <1>1 DEF PrefillAdd, answers
  <2> QED BY <1>0, <2>1, <2>2, <2>3 DEF PrefillTypes
<1>2. ASSUME NEW r \in Req, BootstrapTimeout(r) PROVE PrefillTypes'
  BY <1>0, <1>2 DEF BootstrapTimeout, PrefillTypes, prefillMgr, answers
<1>3. ASSUME NEW r \in Req, PopFailed(r) PROVE PrefillTypes'
  <2>1. /\ bootq' \in Seq(Req) /\ Range(bootq') = Range(bootq) \ {r}
        /\ IsInjective(bootq')
    <3>1. r \in Range(bootq)
      BY <1>3 DEF PopFailed, PrefillTypes
    <3> QED BY <1>3, <3>1, WithoutProperties DEF PopFailed, PrefillTypes
  <2>2. pstatus' \in [Req -> Statuses] /\ infos' \in [Req -> Info]
    BY <1>3, EmptySeq DEF PopFailed, ClearSender, PrefillTypes, Statuses, NoInfo, Info
  <2>3. /\ pq' = [pq EXCEPT ![r] = "done"]
        /\ ppages' \in [Req -> Seq(Page)] /\ pfree' \subseteq Page
        /\ pmeta' \in [Req -> Nat] /\ pans' \in [Req -> 0 .. 2]
    BY <1>3, PrefillLeaveTypes DEF PopFailed
  <2> QED BY <1>0, <1>3, <2>1, <2>2, <2>3 DEF PopFailed, PrefillTypes
<1>4. ASSUME NEW r \in Req, PopBootstrapped(r) PROVE PrefillTypes'
  <2>1. /\ bootq' \in Seq(Req) /\ Range(bootq') = Range(bootq) \ {r}
        /\ IsInjective(bootq')
    <3>1. r \in Range(bootq)
      BY <1>4 DEF PopBootstrapped, PrefillTypes
    <3> QED BY <1>4, <3>1, WithoutProperties DEF PopBootstrapped, PrefillTypes
  <2>2. Head(pslots) \in Nat
    BY <1>4, TailRange, DisaggAssumption DEF PopBootstrapped, PrefillSlots
  <2> QED BY <1>0, <1>4, <2>1, <2>2 DEF PopBootstrapped, PrefillTypes, prefillMgr, answers
<1>5. ASSUME NEW r \in Req, PrefillFirstChunk(r) PROVE PrefillTypes'
  <2>1. Compute(r, 1)
    BY <1>5 DEF PrefillFirstChunk
  <2>2. pfree' \subseteq Page /\ ppages' \in [Req -> Seq(Page)] /\ DOMAIN pkv' = Page
    BY <1>0, <2>1, ComputeIs DEF PrefillTypes
  <2> QED BY <1>0, <1>5, <2>2 DEF PrefillFirstChunk, PrefillTypes, prefillMgr, answers
<1>6. ASSUME NEW r \in Req, ProcessPrefillChunk(r) PROVE PrefillTypes'
  <2>1. xq' \in Seq(Chunk)
    <3>1. 1 <= Len(ppages[r]) /\ ppages[r] \in Seq(Page)
      <4>1. pq[r] = "chunked"
        BY <1>6 DEF ProcessPrefillChunk
      <4>2. Len(ppages[r]) = 1
        BY <4>1 DEF PrefillPages
      <4> QED BY <4>2 DEF PrefillTypes
    <3> QED BY <1>0, <1>6, <3>1, SendKVChunkIs DEF ProcessPrefillChunk, PrefillTypes
  <2> QED BY <1>0, <1>6, <2>1 DEF ProcessPrefillChunk, PrefillTypes, answers
<1>7. ASSUME NEW r \in Req, PrefillLastChunk(r) PROVE PrefillTypes'
  <2>0. Chunks(r) \in {1, 2}
    BY <1>0, ScenarioFacts
  <2>1. PICK p \in pfree : /\ pfree' = pfree \ {p}
           /\ ppages' = [ppages EXCEPT ![r] = Append(ppages[r], p)]
           /\ ppages' \in [Req -> Seq(Page)] /\ DOMAIN pkv' = Page
           /\ Append(ppages[r], p) \in Seq(Page)
           /\ Len(Append(ppages[r], p)) = Len(ppages[r]) + 1
    <3>1. Compute(r, Chunks(r))
      BY <1>7 DEF PrefillLastChunk
    <3>2. ppages \in [Req -> Seq(Page)] /\ pfree \subseteq Page /\ DOMAIN pkv = Page
      BY DEF PrefillTypes
    <3> HIDE DEF DisaggInv
    <3> DEFINE k == Chunks(r)
    <3> HIDE DEF k
    <3>3. k \in {1, 2} /\ Compute(r, k)
      BY <2>0, <3>1 DEF k
    <3>4. \E p \in pfree :
           /\ pfree' = pfree \ {p}
           /\ ppages' = [ppages EXCEPT ![r] = Append(ppages[r], p)]
           /\ pkv' = [pkv EXCEPT ![p] = <<r, k>>]
           /\ ppages' \in [Req -> Seq(Page)] /\ DOMAIN pkv' = Page
           /\ Append(ppages[r], p) \in Seq(Page)
           /\ Len(Append(ppages[r], p)) = Len(ppages[r]) + 1
      BY <1>0, <3>2, <3>3, ComputeIs
    <3> QED BY <3>4
  <2>2. Chunks(r) = Len(ppages'[r]) /\ ppages'[r] \in Seq(Page)
    <3>1. Len(ppages[r]) + 1 = Chunks(r)
      <4>1. pq[r] = "sent" \/ (pq[r] = "waiting" /\ Chunks(r) = 1)
        BY <1>7 DEF PrefillLastChunk
      <4>2. pq[r] = "sent" => Len(ppages[r]) = 1 /\ Chunks(r) = 2
        BY DEF PrefillPages
      <4>3. pq[r] = "waiting" => Len(ppages[r]) = 0
        BY DEF PrefillPages
      <4> DEFINE n == Len(ppages[r])
                 m == Chunks(r)
      <4>4. (n = 1 /\ m = 2) \/ (n = 0 /\ m = 1)
        BY <4>1, <4>2, <4>3
      <4> HIDE DEF n, m
      <4>5. n + 1 = m
        BY <4>4
      <4> QED BY <4>5 DEF n, m
    <3>2. ppages'[r] = Append(ppages[r], p)
      BY <2>1 DEF PrefillTypes
    <3> QED BY <2>1, <3>1, <3>2
  <2>3. xq' \in Seq(Chunk)
    <3>1. Chunks(r) <= Len(ppages'[r])
      BY <2>0, <2>2
    <3>2. SendKVChunk(r, Chunks(r), ppages'[r]) /\ pmeta \in [Req -> Nat] /\ xq \in Seq(Chunk)
      BY <1>7 DEF PrefillLastChunk, PrefillTypes
    <3> QED BY <1>0, <2>0, <2>2, <3>1, <3>2, SendKVChunkIs
  <2>4. DOMAIN pbuf' = 1 .. PSlots
    BY <1>7 DEF PrefillLastChunk, PrefillTypes
  <2> QED BY <1>0, <1>7, <2>1, <2>3, <2>4 DEF PrefillLastChunk, PrefillTypes, answers
<1>8. ASSUME NEW r \in Req, ProcessInflight(r) PROVE PrefillTypes'
  <2>1. pstatus' \in [Req -> Statuses] /\ infos' \in [Req -> Info]
    BY <1>8, EmptySeq DEF ProcessInflight, ClearSender, PrefillTypes, Statuses, NoInfo, Info
  <2>2. /\ pq' = [pq EXCEPT ![r] = "done"]
        /\ ppages' \in [Req -> Seq(Page)] /\ pfree' \subseteq Page
        /\ pmeta' \in [Req -> Nat] /\ pans' \in [Req -> 0 .. 2]
    BY <1>8, PrefillLeaveTypes DEF ProcessInflight
  <2>3. pconc' \in [Req -> {None, Failed, Success}]
    BY <1>8 DEF ProcessInflight, PrefillTypes, Concluded
  <2> QED BY <1>0, <1>8, <2>1, <2>2, <2>3 DEF ProcessInflight, PrefillTypes
<1>9. ASSUME NEW r \in Req, AbortPrefill(r) PROVE PrefillTypes'
  <2>1. CASE AbortQueued(r)
    BY <1>0, <1>9, <2>1, PrefillLeaveTypes DEF AbortPrefill, AbortQueued, PrefillTypes, NetTypes
  <2>2. CASE AbortSender(r)
    <3>1. pstatus' \in [Req -> Statuses]
      <4>1. pstatus \in [Req -> Statuses] /\ pstatus' = UpdateStatus(pstatus, r, Failed)
        BY <2>2 DEF AbortSender, PrefillTypes
      <4> QED BY <4>1, UpdateStatusIs, StatusesKnown
    <3> QED BY <1>0, <1>9, <2>2, <3>1 DEF AbortPrefill, AbortSender, PrefillTypes
  <2> QED BY <1>9, <2>1, <2>2 DEF AbortPrefill
<1>10. ASSUME NEW r \in Req, BootstrapThread(r) PROVE PrefillTypes'
  BY <1>0, <1>10 DEF BootstrapThread, PrefillTypes, NetTypes, prefill, answers
<1>11. ASSUME BootstrapUpdate PROVE PrefillTypes'
  <2>1. /\ bt.room \in Req /\ bt.val \in {WaitingForInput, Success}
        /\ pstatus' = pstatus \/ pstatus' = [pstatus EXCEPT ![bt.room] = bt.val]
    BY <1>11, BootstrapUpdateIs DEF Threads
  <2>2. pstatus' \in [Req -> Statuses]
    BY <2>1, StatusesKnown DEF PrefillTypes
  <2> QED BY <1>0, <1>11, <2>2 DEF BootstrapUpdate, PrefillTypes, prefill, answers
<1>12. ASSUME WorkerGet PROVE PrefillTypes'
  <2>1. /\ xq' \in Seq(Chunk) /\ Head(xq) \in Chunk
    BY <1>12, TailRange DEF WorkerGet, PrefillTypes
  <2>2. NoInfo \in Info
    BY EmptySeq DEF NoInfo, Info
  <2>3. wk' \in WorkerState
    BY <1>12, <2>1, <2>2 DEF WorkerGet, WorkerState, Stages, Idle, Failed
  <2> QED BY <1>0, <1>12, <2>1, <2>3 DEF WorkerGet, PrefillTypes, prefill, answers
<1>13. ASSUME WorkerLook \/ WorkerSendKV \/ WorkerSendAux PROVE PrefillTypes'
  <2>1. wk \in WorkerState /\ wk.c.room \in Req
    BY <1>13, WorkerBusy DEF WorkerLook, WorkerSendKV, WorkerSendAux
  <2>2. infos[wk.c.room] \in Info
    BY <2>1 DEF PrefillTypes
  <2>3. wk' \in WorkerState
    <3>1. CASE WorkerLook
      BY <2>1, <2>2, <3>1 DEF WorkerLook, Reporting, WorkerState, Stages
    <3>2. CASE WorkerSendKV \/ WorkerSendAux
      BY <2>1, <3>2 DEF WorkerSendKV, WorkerSendAux, Reporting, WorkerState, Stages
    <3> QED BY <1>13, <3>1, <3>2
  <2>4. UNCHANGED <<pq, bootq, pconc, pmeta, ppages, pslots, pfree, pbuf, pkv, pstatus, infos, xq,
                    alive, pans>> /\ broken' \in BOOLEAN
    BY <1>13 DEF WorkerLook, WorkerSendKV, WorkerSendAux, PrefillTypes, prefill, answers
  <2> QED BY <1>0, <2>3, <2>4 DEF PrefillTypes
<1>14. ASSUME WorkerReport PROVE PrefillTypes'
  <2>1. /\ wk \in WorkerState /\ wk.c.room \in Req
        /\ \E x \in {"read", "store", "tell", "check", "dead"} : wk' = [wk EXCEPT !.stage = x]
        /\ pstatus' = pstatus \/ pstatus' = [pstatus EXCEPT ![wk.c.room] = wk.val]
    BY <1>14, WorkerReportIs
  <2>2. wk' \in WorkerState /\ wk.val \in {Failed, Success}
    BY <2>1 DEF WorkerState, Stages
  <2>3. pstatus' \in [Req -> Statuses]
    BY <2>1, <2>2, StatusesKnown DEF PrefillTypes
  <2> QED BY <1>0, <1>14, <2>2, <2>3 DEF WorkerReport, PrefillTypes, prefill, answers
<1>15. ASSUME WorkerCheck PROVE PrefillTypes'
  <2>1. wk.stage # "idle"
    BY <1>15 DEF WorkerCheck
  <2>2. wk' = Idle \/ wk' \in WorkerState
    BY <1>15, <2>1, WorkerBusy DEF WorkerCheck, WorkerState, Stages
  <2>3. infos' \in [Req -> Info]
    <3>1. NoInfo \in Info /\ infos \in [Req -> Info]
      BY EmptySeq DEF NoInfo, Info, PrefillTypes
    <3>2. infos' = infos \/ infos' = [infos EXCEPT ![wk.c.room] = NoInfo]
      BY <1>15 DEF WorkerCheck
    <3> QED BY <3>1, <3>2
  <2> QED BY <1>0, <1>15, <2>2, <2>3 DEF WorkerCheck, PrefillTypes, prefill, answers
<1>16. ASSUME PrefillCrash PROVE PrefillTypes'
  <2>1. /\ bootq' = <<>> /\ xq' = <<>>
        /\ <<>> \in Seq(Req) /\ <<>> \in Seq(Chunk) /\ <<>> \in Seq(Nat)
    BY <1>16, EmptySeq DEF PrefillCrash
  <2>2. IsInjective(<<>>) /\ Range(<<>>) = {}
    BY DEF IsInjective, Range
  <2> QED BY <1>0, <1>16, <2>1, <2>2 DEF PrefillCrash, PrefillTypes, NoInfo, Info, Statuses, answers
<1>17. ASSUME UNCHANGED <<pq, bootq, pconc, pmeta, ppages, pslots, pfree, pbuf, pkv, pstatus,
                          infos, xq, wk, broken, alive, pans>>
       PROVE  PrefillTypes'
  BY <1>0, <1>17 DEF PrefillTypes
<1> QED
  BY <1>1, <1>2, <1>3, <1>4, <1>5, <1>6, <1>7, <1>8, <1>9, <1>10, <1>11, <1>12, <1>13, <1>14,
     <1>15, <1>16, <1>17, DecodeFrame, LoseFrame DEF Next, Step, PrefillNext, PrefillLoop, Worker

\* A request that leaves the decode server.
LEMMA DecodeLeaveTypes ==
  ASSUME NEW r \in Req, DecodeTypes, scen \in Scenarios, DecodeLeave(r)
  PROVE  /\ dq' = [dq EXCEPT ![r] = "done"]
         /\ dpages' \in [Req -> Seq(Page)] /\ dfree' \subseteq Page
         /\ dmeta' \in [Req -> Nat] /\ dans' \in [Req -> 0 .. 2]
<1>1. <<>> \in Seq(Page) /\ Range(dpages[r]) \subseteq Page
  BY EmptySeq, RangeOfSeq DEF DecodeTypes
<1>2. dans' \in [Req -> 0 .. 2]
  BY SaturatedIs DEF DecodeTypes, DecodeLeave
<1> QED BY <1>1, <1>2 DEF DecodeTypes, DecodeLeave, Released

\* The pages decode picks are a sequence of different pages.
LEMMA PickedPages ==
  ASSUME NEW r \in Req, scen \in Scenarios, dfree \subseteq Page,
         NEW f \in [1 .. Chunks(r) -> dfree]
  PROVE  /\ f \in Seq(Page) /\ Len(f) = Chunks(r) /\ DOMAIN f = 1 .. Chunks(r)
         /\ Range(f) \subseteq dfree
<1>1. Chunks(r) \in Nat
  BY ScenarioFacts
<1>2. f \in [1 .. Chunks(r) -> Page]
  OBVIOUS
<1> QED BY <1>1, <1>2, SeqDef DEF Range

\* The invariant keeps the decode server's types.
LEMMA DecodeTypesStep ==
  ASSUME DisaggInv, Next
  PROVE  DecodeTypes'
<1> USE DEF DisaggInv
<1>0. Page' = Page /\ Page \subseteq Nat /\ scen \in Scenarios /\ <<>> \in Seq(Page)
  BY ScenarioFacts, EmptySeq DEF Next, Page, NetTypes
<1>d. dstatus \in [Req -> Statuses]
  BY DEF DecodeTypes
<1>1. ASSUME NEW r \in Req, DecodeAdd(r) PROVE DecodeTypes'
  <2>1. /\ prealloc' \in Seq(Req) /\ Range(prealloc') = Range(prealloc) \cup {r}
        /\ IsInjective(prealloc')
    BY <1>1, AppendRange DEF DecodeAdd, DecodeTypes
  <2>2. dstatus' \in [Req -> Statuses]
    <3>1. \E s \in {WaitingForInput, Bootstrapping} : dstatus' = UpdateStatus(dstatus, r, s)
      BY <1>1 DEF DecodeAdd
    <3> QED BY <1>d, <3>1, UpdateStatusIs, StatusesKnown
  <2>3. dconc' \in [Req -> {None, Failed, Success}]
    BY <1>1 DEF DecodeAdd, DecodeTypes
  <2> QED BY <1>0, <1>1, <2>1, <2>2, <2>3 DEF DecodeAdd, DecodeTypes, memory, answers
<1>2. ASSUME NEW r \in Req, UpdateHandshakeWaiter(r) PROVE DecodeTypes'
  <2>0. r \in Range(prealloc)
    BY <1>2 DEF UpdateHandshakeWaiter, DecodeTypes
  <2>1. CASE ready' = ready \cup {r} /\ UNCHANGED <<dq, prealloc, dconc, dmeta, dpages, dslots,
                                                    dfree, dstatus, dans>>
    BY <1>0, <1>2, <2>0, <2>1 DEF UpdateHandshakeWaiter, DecodeTypes, memory
  <2>2. CASE /\ dconc' = [dconc EXCEPT ![r] = Failed] /\ ready' = ready \ {r}
             /\ prealloc' = Without(prealloc, r) /\ ClearReceiver(r) /\ DecodeLeave(r)
    <3>1. /\ prealloc' \in Seq(Req) /\ Range(prealloc') = Range(prealloc) \ {r}
          /\ IsInjective(prealloc')
      BY <2>0, <2>2, WithoutProperties DEF DecodeTypes
    <3>2. dstatus' \in [Req -> Statuses]
      BY <1>d, <2>2, StatusesKnown DEF ClearReceiver
    <3>3. /\ dq' = [dq EXCEPT ![r] = "done"]
          /\ dpages' \in [Req -> Seq(Page)] /\ dfree' \subseteq Page
          /\ dmeta' \in [Req -> Nat] /\ dans' \in [Req -> 0 .. 2]
      BY <1>0, <2>2, DecodeLeaveTypes
    <3> QED BY <1>0, <1>2, <2>2, <3>1, <3>2, <3>3 DEF UpdateHandshakeWaiter, DecodeTypes, memory
  <2> QED BY <1>2, <2>1, <2>2 DEF UpdateHandshakeWaiter
<1>3. ASSUME NEW r \in Req, PopPreallocated(r) PROVE DecodeTypes'
  <2>0. r \in Range(prealloc)
    BY <1>3 DEF PopPreallocated, DecodeTypes
  <2>1. /\ prealloc' \in Seq(Req) /\ Range(prealloc') = Range(prealloc) \ {r}
        /\ IsInjective(prealloc')
    <3>1. prealloc' = Without(prealloc, r)
      BY <1>3 DEF PopPreallocated
    <3> QED BY <2>0, <3>1, WithoutProperties DEF DecodeTypes
  <2>2. Head(dslots) \in Nat
    BY <1>3, TailRange, DisaggAssumption DEF PopPreallocated, DecodeSlots
  <2>3. dpages' \in [Req -> Seq(Page)] /\ dfree' \subseteq Page
    <3>1. PICK f \in [1 .. Chunks(r) -> dfree] : dpages' = [dpages EXCEPT ![r] = f]
                                                 /\ dfree' = dfree \ Range(f)
      BY <1>3 DEF PopPreallocated
    <3>2. dfree \subseteq Page /\ dpages \in [Req -> Seq(Page)]
      BY DEF DecodeTypes
    <3>3. f \in Seq(Page)
      BY <1>0, <3>2, PickedPages
    <3> QED BY <3>1, <3>2, <3>3
  <2> QED BY <1>0, <1>3, <2>1, <2>2, <2>3 DEF PopPreallocated, DecodeTypes, memory, decodeMgr, answers
<1>4. ASSUME NEW r \in Req, WaitingTimeout(r) PROVE DecodeTypes'
  BY <1>0, <1>4 DEF WaitingTimeout, DecodeTypes, memory, decodeMgr
<1>5. ASSUME NEW r \in Req, PopTransferFailed(r) PROVE DecodeTypes'
  <2>1. dstatus' \in [Req -> Statuses]
    BY <1>d, <1>5, StatusesKnown DEF PopTransferFailed, ClearReceiver
  <2>2. /\ dq' = [dq EXCEPT ![r] = "done"]
        /\ dpages' \in [Req -> Seq(Page)] /\ dfree' \subseteq Page
        /\ dmeta' \in [Req -> Nat] /\ dans' \in [Req -> 0 .. 2]
    BY <1>0, <1>5, DecodeLeaveTypes DEF PopTransferFailed
  <2> QED BY <1>0, <1>5, <2>1, <2>2 DEF PopTransferFailed, DecodeTypes, memory
<1>6. ASSUME NEW r \in Req, PopTransferred(r) PROVE DecodeTypes'
  <2>1. dstatus' \in [Req -> Statuses]
    BY <1>d, <1>6, StatusesKnown DEF PopTransferred, ClearReceiver
  <2>2. /\ dpages' \in [Req -> Seq(Page)] /\ dfree' \subseteq Page
        /\ dmeta' \in [Req -> Nat] /\ dans' \in [Req -> 0 .. 2]
        /\ dq' = [dq EXCEPT ![r] = "done"] \/ dq' = [dq EXCEPT ![r] = "running"]
    <3>1. CASE DecodeLeave(r)
      BY <1>0, <3>1, DecodeLeaveTypes
    <3>2. CASE /\ dq' = [dq EXCEPT ![r] = "running"] /\ dmeta' = [dmeta EXCEPT ![r] = 0]
               /\ UNCHANGED <<dpages, dfree, dans>>
      BY <1>0, <3>2 DEF DecodeTypes
    <3> QED BY <1>6, <3>1, <3>2 DEF PopTransferred
  <2>3. UNCHANGED <<prealloc, dconc, ready, pending, tries, dbuf, dkv, known, tracker>>
        /\ dq[r] = "transfer"
    BY <1>6 DEF PopTransferred, memory
  <2> QED BY <1>0, <2>1, <2>2, <2>3 DEF DecodeTypes
<1>7. ASSUME NEW r \in Req, DecodeFinish(r) PROVE DecodeTypes'
  <2>1. /\ dq' = [dq EXCEPT ![r] = "done"]
        /\ dpages' \in [Req -> Seq(Page)] /\ dfree' \subseteq Page
        /\ dmeta' \in [Req -> Nat] /\ dans' \in [Req -> 0 .. 2]
    BY <1>0, <1>7, DecodeLeaveTypes DEF DecodeFinish
  <2> QED BY <1>0, <1>7, <2>1 DEF DecodeFinish, DecodeTypes, memory, decodeMgr
<1>8. ASSUME NEW r \in Req, AbortDecode(r) PROVE DecodeTypes'
  <2>1. dstatus' \in [Req -> Statuses]
    BY <1>d, <1>8, UpdateStatusIs, StatusesKnown DEF AbortDecode
  <2> QED BY <1>0, <1>8, <2>1 DEF AbortDecode, DecodeTypes, memory
<1>9. ASSUME ResolvePending PROVE DecodeTypes'
  <2>1. dstatus' \in [Req -> Statuses]
    <3>1. ASSUME NEW r \in Req PROVE Max({dstatus[r], WaitingForInput}) \in Statuses
      BY <1>d, MaxOfTwo DEF Statuses, NoRoom, Failed, Bootstrapping, WaitingForInput, Success
    <3> QED BY <1>d, <1>9, <3>1 DEF ResolvePending
  <2>2. 0 \in 0 .. MaxEnsure - 1
    BY DisaggAssumption
  <2>3. dconc' \in [Req -> {None, Failed, Success}]
    BY <1>9 DEF ResolvePending, DecodeTypes
  <2> QED BY <1>0, <1>9, <2>1, <2>2, <2>3 DEF ResolvePending, DecodeTypes, memory, answers
<1>10. ASSUME EnsureFails PROVE DecodeTypes'
  <2>1. dstatus' \in [Req -> Statuses]
    <3>1. ASSUME NEW r \in Req PROVE UpdateStatus(dstatus, r, Failed)[r] \in Statuses
      BY <1>d, UpdateStatusIs, StatusesKnown
    <3> QED BY <1>d, <1>10, <3>1 DEF EnsureFails
  <2>2. tries' \in 0 .. MaxEnsure - 1
    BY <1>10, DisaggAssumption DEF EnsureFails, OutOfTries, DecodeTypes
  <2> QED BY <1>0, <1>10, <2>1, <2>2 DEF EnsureFails, DecodeTypes, memory, answers
<1>11. ASSUME DecodeThread \/ HeartbeatOK \/ HandleNodeFailure PROVE DecodeTypes'
  BY <1>0, <1>11 DEF DecodeThread, HeartbeatOK, HandleNodeFailure, DecodeTypes, decode, memory,
                     answers
<1>12. ASSUME DecodeUpdate PROVE DecodeTypes'
  <2>1. dstatus' \in [Req -> Statuses]
    BY <1>d, <1>12, DecodeUpdateIs, StatusesKnown DEF Threads
  <2> QED BY <1>0, <1>12, <2>1 DEF DecodeUpdate, DecodeTypes, decode, memory, answers
<1>13. ASSUME FailRooms PROVE DecodeTypes'
  <2>1. dstatus' \in [Req -> Statuses]
    BY <1>d, <1>13, FailRoomsIs, StatusesKnown DEF Threads
  <2> QED BY <1>0, <1>13, <2>1 DEF FailRooms, DecodeTypes, decode, memory, answers
<1>14. ASSUME PrefillNext \/ PrefillCrash PROVE DecodeTypes'
  <2>1. DOMAIN dbuf' = DOMAIN dbuf /\ DOMAIN dkv' = DOMAIN dkv
    BY <1>14 DEF PrefillNext, PrefillLoop, Worker, PrefillCrash, memory, PrefillAdd,
                 BootstrapTimeout, PopFailed, PopBootstrapped, PrefillFirstChunk,
                 ProcessPrefillChunk, PrefillLastChunk, ProcessInflight, AbortPrefill,
                 BootstrapThread, BootstrapUpdate, WorkerGet, WorkerLook, WorkerReport,
                 WorkerSendKV, WorkerSendAux, WorkerCheck
  <2> QED BY <1>0, <1>14, <2>1, PrefillFrame DEF DecodeTypes
<1>15. ASSUME LoseMessage PROVE DecodeTypes'
  BY <1>0, <1>15, LoseFrame DEF DecodeTypes
<1> QED
  BY <1>1, <1>2, <1>3, <1>4, <1>5, <1>6, <1>7, <1>8, <1>9, <1>10, <1>11, <1>12, <1>13, <1>14,
     <1>15 DEF Next, Step, DecodeNext, DecodeLoop

\* The invariant keeps the types of what is under way.
LEMMA NetTypesStep ==
  ASSUME DisaggInv, Next
  PROVE  NetTypes'
<1> USE DEF DisaggInv
<1>1. scen' \in Scenarios /\ scen \in Scenarios
  BY DEF Next, NetTypes
<1>3. cut' \in BOOLEAN
  <2>1. cut' = cut \/ cut' = TRUE \/ (\E r \in Req : AbortSender(r)) \/ HandleNodeFailure
    <3>1. CASE PrefillNext
      BY <3>1, QuietSteps
      DEF PrefillNext, PrefillLoop, Worker, answers, PrefillAdd, BootstrapTimeout, PopFailed,
          PopBootstrapped, PrefillFirstChunk, ProcessPrefillChunk, PrefillLastChunk,
          ProcessInflight, AbortPrefill, AbortQueued, BootstrapThread, WorkerGet, WorkerSendKV,
          WorkerSendAux, WorkerCheck, PrefillLeave
    <3>2. CASE DecodeNext
      BY <3>2, QuietSteps
      DEF DecodeNext, DecodeLoop, answers, UpdateHandshakeWaiter, PopPreallocated, WaitingTimeout,
          PopTransferFailed, PopTransferred, DecodeFinish, AbortDecode, HeartbeatOK
    <3>3. CASE PrefillCrash \/ LoseMessage
      BY <3>3 DEF PrefillCrash, LoseMessage, answers
    <3> QED BY <3>1, <3>2, <3>3 DEF Next, Step
  <2> QED BY <2>1 DEF NetTypes, AbortSender, HandleNodeFailure
<1>4. toD' \subseteq Req \X {Failed, Success}
  <2>1. CASE UNCHANGED toD
    BY <2>1 DEF NetTypes
  <2>2. CASE \E m \in toD : toD' = toD \ {m}
    BY <2>2 DEF NetTypes
  <2>3. CASE WorkerReport
    BY <2>3, WorkerReportIs DEF NetTypes, WorkerState
  <2> QED BY <2>1, <2>2, <2>3, QuietSteps
    DEF Next, Step, PrefillNext, PrefillLoop, Worker, DecodeNext, DecodeLoop, PrefillCrash,
        LoseMessage, net, PrefillAdd, BootstrapTimeout, PopFailed, PopBootstrapped,
        PrefillFirstChunk, ProcessPrefillChunk, PrefillLastChunk, ProcessInflight, AbortPrefill,
        BootstrapThread, WorkerGet, WorkerSendKV, WorkerSendAux, WorkerCheck,
        UpdateHandshakeWaiter, PopPreallocated, WaitingTimeout, PopTransferFailed, PopTransferred,
        DecodeFinish, AbortDecode, DecodeThread, HeartbeatOK, HandleNodeFailure
<1>5. toP' \in [Req -> Info]
  <2>0. NoInfo \in Info /\ toP \in [Req -> Info]
    BY EmptySeq DEF NoInfo, Info, NetTypes
  <2>1. CASE toP' = toP \/ (\E r \in Req : toP' = [toP EXCEPT ![r] = NoInfo])
             \/ toP' = [r \in Req |-> NoInfo]
    BY <2>0, <2>1
  <2>2. ASSUME NEW r \in Req, PopPreallocated(r) PROVE toP' \in [Req -> Info]
    <3>1. PICK f \in [1 .. Chunks(r) -> dfree] :
            toP' = IF alive THEN [toP EXCEPT ![r] = [pages |-> f, aux |-> Head(dslots)]] ELSE toP
      BY <2>2 DEF PopPreallocated
    <3>2. dfree \subseteq Page
      BY DEF DecodeTypes
    <3>3. f \in Seq(Nat)
      <4>1. f \in Seq(Page) /\ Page \subseteq Nat
        BY <1>1, <3>2, PickedPages, ScenarioFacts DEF Page
      <4> QED BY <4>1, SeqMonotonic
    <3>4. Head(dslots) \in Nat
      BY <2>2, TailRange, DisaggAssumption DEF PopPreallocated, DecodeSlots
    <3>5. [pages |-> f, aux |-> Head(dslots)] \in Info
      BY <3>3, <3>4 DEF Info
    <3> QED BY <2>0, <3>1, <3>5
  <2> QED BY <2>1, <2>2
    DEF Next, Step, PrefillNext, PrefillLoop, Worker, DecodeNext, DecodeLoop, PrefillCrash,
        LoseMessage, net, PrefillAdd, BootstrapTimeout, PopFailed, PopBootstrapped,
        PrefillFirstChunk, ProcessPrefillChunk, PrefillLastChunk, ProcessInflight, AbortPrefill,
        BootstrapThread, BootstrapUpdate, WorkerCheck, DecodeAdd, UpdateHandshakeWaiter,
        WaitingTimeout, PopTransferFailed, PopTransferred, WorkerGet, WorkerLook, WorkerReport,
        WorkerSendKV, WorkerSendAux, DecodeFinish, AbortDecode, ResolvePending, EnsureFails,
        DecodeThread, DecodeUpdate, FailRooms, HeartbeatOK, HandleNodeFailure
<1> QED BY <1>1, <1>3, <1>4, <1>5 DEF NetTypes

-----------------------------------------------------------------------------
(* Answers.                                                                *)

\* A request is answered in the step in which it leaves, from a place it cannot
\* come back to.
LEMMA AnsweredStep ==
  ASSUME DisaggInv, Next
  PROVE  Answered'
<1> USE DEF DisaggInv
<1>0. /\ pq \in [Req -> {"new", "bootstrap", "waiting", "chunked", "sent", "inflight", "done"}]
      /\ pans \in [Req -> 0 .. 2] /\ dans \in [Req -> 0 .. 2]
      /\ dq \in [Req -> {"new", "prealloc", "transfer", "running", "done"}]
  BY DEF PrefillTypes, DecodeTypes
<1>1. ASSUME NEW r \in Req
      PROVE  pans'[r] <= 1 /\ (pq'[r] # "done" => pans'[r] = 0)
  <2>1. CASE UNCHANGED pans /\ (pq'[r] = "done" \/ pq[r] # "done")
    BY <2>1 DEF Answered
  <2>2. CASE UNCHANGED <<pans, pq>>
    BY <2>2 DEF Answered
  <2>3. ASSUME NEW q \in Req, PrefillLeave(q), pq[q] # "done"
        PROVE  pans'[r] <= 1 /\ (pq'[r] # "done" => pans'[r] = 0)
    <3>1. pans[q] = 0
      BY <2>3 DEF Answered
    <3>2. Saturated(pans[q]) = 1
      BY <3>1, SaturatedIs
    <3>3. pans' = [pans EXCEPT ![q] = Saturated(pans[q])] /\ pq' = [pq EXCEPT ![q] = "done"]
      BY <2>3 DEF PrefillLeave
    <3>4. CASE r = q
      BY <1>0, <3>2, <3>3, <3>4
    <3>5. CASE r # q
      BY <1>0, <3>3, <3>5 DEF Answered
    <3> QED BY <3>4, <3>5
  <2>4. CASE PrefillNext \/ PrefillCrash
    <3>1. \/ UNCHANGED <<pans, pq>>
          \/ UNCHANGED pans /\ (pq'[r] = "done" \/ pq[r] # "done")
          \/ \E q \in Req : PrefillLeave(q) /\ pq[q] # "done"
      BY <1>0, <2>4 DEF PrefillNext, PrefillLoop, Worker, PrefillCrash, answers, prefill,
                        PrefillAdd, BootstrapTimeout, PopFailed, PopBootstrapped, PrefillFirstChunk,
                        ProcessPrefillChunk, PrefillLastChunk, ProcessInflight, AbortPrefill,
                        AbortQueued, AbortSender, BootstrapThread, BootstrapUpdate, WorkerGet,
                        WorkerLook, WorkerReport, WorkerSendKV, WorkerSendAux, WorkerCheck
    <3> QED BY <2>1, <2>2, <2>3, <3>1
  <2> QED BY <2>2, <2>4, DecodeFrame, LoseFrame DEF Next, Step
<1>2. ASSUME NEW r \in Req
      PROVE  dans'[r] = (IF dq'[r] = "done" THEN 1 ELSE 0)
  <2>1. CASE UNCHANGED dans /\ dq'[r] # "done" /\ dq[r] # "done"
    BY <2>1 DEF Answered
  <2>2. CASE UNCHANGED dans /\ dq'[r] = dq[r]
    BY <2>2 DEF Answered
  <2>3. ASSUME NEW q \in Req, DecodeLeave(q), dq[q] # "done"
        PROVE  dans'[r] = (IF dq'[r] = "done" THEN 1 ELSE 0)
    <3>1. dans[q] = 0
      BY <2>3 DEF Answered
    <3>2. Saturated(dans[q]) = 1
      BY <3>1, SaturatedIs
    <3>3. dans' = [dans EXCEPT ![q] = Saturated(dans[q])] /\ dq' = [dq EXCEPT ![q] = "done"]
      BY <2>3 DEF DecodeLeave
    <3>4. CASE r = q
      BY <1>0, <3>2, <3>3, <3>4
    <3>5. CASE r # q
      BY <1>0, <3>3, <3>5 DEF Answered
    <3> QED BY <3>4, <3>5
  <2>4. CASE DecodeNext
    <3>1. ASSUME NEW q \in Req, PopPreallocated(q)
          PROVE  UNCHANGED dans /\ dq' = [dq EXCEPT ![q] = "transfer"] /\ dq[q] = "prealloc"
      BY <3>1 DEF PopPreallocated, answers, DecodeTypes
    <3>2. \/ UNCHANGED dans /\ dq'[r] # "done" /\ dq[r] # "done"
          \/ UNCHANGED dans /\ dq'[r] = dq[r]
          \/ \E q \in Req : DecodeLeave(q) /\ dq[q] # "done"
      BY <1>0, <2>4, <3>1, QuietSteps
         DEF DecodeNext, DecodeLoop, answers, decode, UpdateHandshakeWaiter, WaitingTimeout,
             PopTransferFailed, PopTransferred, DecodeFinish, AbortDecode, HeartbeatOK,
             HandleNodeFailure
    <3> QED BY <2>1, <2>2, <2>3, <3>2
  <2> QED BY <2>2, <2>4, PrefillFrame, LoseFrame DEF Next, Step
<1> QED BY <1>1, <1>2 DEF Answered

-----------------------------------------------------------------------------
(* Senders and receivers.                                                  *)

\* The chunk the transfer thread takes, and the one it works on.
LEMMA WorkerRooms ==
  ASSUME PrefillTypes, Traffic
  PROVE  /\ xq # <<>> => /\ Head(xq) \in Chunk /\ Head(xq) \in Range(xq) /\ Outstanding(Head(xq))
                         /\ Head(xq).room \in Req
         /\ wk.stage # "idle" => wk \in WorkerState /\ wk.c \in Chunk /\ wk.c.room \in Req
         /\ InHand => Outstanding(wk.c)
<1>1. ASSUME xq # <<>>
      PROVE  /\ Head(xq) \in Chunk /\ Head(xq) \in Range(xq) /\ Outstanding(Head(xq))
             /\ Head(xq).room \in Req
  <2>1. Head(xq) \in Chunk /\ Head(xq) \in Range(xq)
    BY <1>1, TailRange DEF PrefillTypes
  <2> QED BY <2>1 DEF Outstanding, Chunk
<1>2. ASSUME wk.stage # "idle"
      PROVE  wk \in WorkerState /\ wk.c \in Chunk /\ wk.c.room \in Req
  BY <1>2 DEF PrefillTypes, Idle, WorkerState, Chunk
<1> QED BY <1>1, <1>2 DEF Outstanding

\* What a thread of prefill stores reaches a room that is being sent or has left,
\* or one that is bootstrapped.
LEMMA StoreSender ==
  ASSUME DisaggInv, UNCHANGED <<pq, pconc, infos>>,
         \/ WorkerReport /\ pstatus' # pstatus
         \/ BootstrapUpdate /\ pstatus' # pstatus
  PROVE  Senders'
<1>0. /\ pstatus \in [Req -> Statuses] /\ \A r \in Req : SenderOK(r)
      /\ pq \in [Req -> {"new", "bootstrap", "waiting", "chunked", "sent", "inflight", "done"}]
  BY DEF DisaggInv, PrefillTypes, Senders
<1>1. CASE WorkerReport /\ pstatus' # pstatus
  <2>1. /\ wk.c \in Chunk /\ wk.c.room \in Req /\ wk.val \in {Failed, Success}
        /\ wk.stage = "store" /\ pstatus' = [pstatus EXCEPT ![wk.c.room] = wk.val]
    BY <1>1, WorkerReportIs DEF DisaggInv, WorkerState
  <2>2. /\ pq[wk.c.room] \in {"sent", "inflight", "done"}
        /\ wk.val = Success => pq[wk.c.room] # "sent"
    <3>1. Outstanding(wk.c)
      BY <2>1 DEF Outstanding, InHand
    <3> QED BY <2>1, <3>1 DEF DisaggInv, Traffic, Queued, ChunkOK, WorkerOK
  <2> QED BY <1>0, <2>1, <2>2 DEF Senders, SenderOK, Failed, WaitingForInput, Success
<1>2. CASE BootstrapUpdate /\ pstatus' # pstatus
  <2>1. /\ bt.room \in Req /\ Handling(bt, bt.room)
        /\ pstatus' = [pstatus EXCEPT ![bt.room] = bt.val]
    BY <1>2, BootstrapUpdateIs DEF DisaggInv, Threads
  <2>2. /\ pq[bt.room] \in {"new", "bootstrap", "done"}
        /\ pq[bt.room] # "done" => bt.val = WaitingForInput /\ infos[bt.room] # NoInfo
    BY <2>1 DEF DisaggInv, Threads, BootstrapOK
  <2> QED BY <1>0, <2>1, <2>2 DEF Senders, SenderOK, Failed, WaitingForInput, Success
<1> QED BY <1>1, <1>2

\* The invariant keeps the states of the senders.
LEMMA SendersStep ==
  ASSUME DisaggInv, Next
  PROVE  Senders'
<1> USE DEF DisaggInv
<1>0. /\ pstatus \in [Req -> Statuses] /\ pconc \in [Req -> {None, Failed, Success}]
      /\ infos \in [Req -> Info]
      /\ pq \in [Req -> {"new", "bootstrap", "waiting", "chunked", "sent", "inflight", "done"}]
  BY DEF PrefillTypes
<1>a. \A r \in Req : SenderOK(r)
  BY DEF Senders
<1>b. ASSUME NEW q \in Req, UNCHANGED <<pconc, infos, pstatus>>,
             \/ pq[q] = "bootstrap" /\ Bootstrapped(q) /\ pq' = [pq EXCEPT ![q] = "waiting"]
             \/ pq[q] = "waiting" /\ pq' = [pq EXCEPT ![q] = "chunked"]
             \/ pq[q] = "chunked" /\ pq' = [pq EXCEPT ![q] = "sent"]
             \/ pq[q] \in {"waiting", "sent"} /\ pq' = [pq EXCEPT ![q] = "inflight"]
             \/ pq[q] = "waiting" /\ pq' = [pq EXCEPT ![q] = "done"]
      PROVE  Senders'
  BY <1>0, <1>a, <1>b DEF Senders, SenderOK, Bootstrapped, Poll, None, NoRoom, Failed,
     Bootstrapping, WaitingForInput, Success
<1>c. ASSUME NEW q \in Req, UpdateStatus(pstatus, q, Failed) = pstatus'
      PROVE  /\ \A r \in Req : r # q => pstatus'[r] = pstatus[r]
             /\ pstatus'[q] = IF pstatus[q] = NoRoom THEN NoRoom ELSE Failed
  BY <1>0, <1>c, UpdateStatusIs, StatusesKnown
<1>d. ASSUME NEW q \in Req, NEW s \in {Bootstrapping, WaitingForInput},
             UpdateStatus(pstatus, q, s) = pstatus'
      PROVE  /\ \A r \in Req : r # q => pstatus'[r] = pstatus[r]
             /\ pstatus'[q] = IF pstatus[q] >= s THEN pstatus[q] ELSE s
  <2>1. s \in Statuses \ {NoRoom} /\ s # Failed
    BY StatusesKnown DEF Failed, Bootstrapping, WaitingForInput
  <2> QED BY <1>0, <1>d, <2>1, UpdateStatusIs
<1>1. ASSUME NEW q \in Req, PrefillAdd(q) PROVE Senders'
  <2>1. UNCHANGED <<pconc, infos>> /\ pq[q] = "new" /\ pq' = [pq EXCEPT ![q] = "bootstrap"]
    BY <1>1 DEF PrefillAdd
  <2>2. CASE pstatus' = UpdateStatus(pstatus, q, Bootstrapping)
    BY <1>0, <1>a, <1>d, <2>1, <2>2
       DEF Senders, SenderOK, Statuses, NoRoom, Failed, Bootstrapping, WaitingForInput, Success
  <2>3. CASE pstatus' = [pstatus EXCEPT ![q] = Bootstrapping]
    BY <1>0, <1>a, <2>1, <2>3 DEF Senders, SenderOK, Bootstrapping, WaitingForInput
  <2> QED BY <1>1, <2>2, <2>3 DEF PrefillAdd
<1>2. ASSUME NEW q \in Req, BootstrapTimeout(q) PROVE Senders'
  BY <1>0, <1>a, <1>2 DEF BootstrapTimeout, prefillMgr, Senders, SenderOK
<1>3. ASSUME NEW q \in Req, PopFailed(q) \/ ProcessInflight(q) PROVE Senders'
  <2>1. /\ pq' = [pq EXCEPT ![q] = "done"]
        /\ pstatus' = [pstatus EXCEPT ![q] = NoRoom] /\ infos' = [infos EXCEPT ![q] = NoInfo]
        /\ \A r \in Req : r # q => pconc'[r] = pconc[r]
    BY <1>0, <1>3 DEF PopFailed, ProcessInflight, ClearSender, PrefillLeave
  <2> QED BY <1>0, <1>a, <2>1 DEF Senders, SenderOK, NoRoom, WaitingForInput
<1>4. ASSUME NEW q \in Req, PopBootstrapped(q) PROVE Senders'
  BY <1>b, <1>4 DEF PopBootstrapped, prefillMgr
<1>5. ASSUME NEW q \in Req, PrefillFirstChunk(q) PROVE Senders'
  BY <1>b, <1>5 DEF PrefillFirstChunk, prefillMgr
<1>6. ASSUME NEW q \in Req, ProcessPrefillChunk(q) PROVE Senders'
  BY <1>b, <1>6 DEF ProcessPrefillChunk
<1>7. ASSUME NEW q \in Req, PrefillLastChunk(q) PROVE Senders'
  BY <1>b, <1>7 DEF PrefillLastChunk
<1>8. ASSUME NEW q \in Req, AbortPrefill(q) PROVE Senders'
  <2>1. CASE AbortQueued(q)
    BY <1>b, <1>8, <2>1 DEF AbortPrefill, AbortQueued, PrefillLeave
  <2>2. CASE AbortSender(q)
    <3>1. /\ pq[q] \in {"bootstrap", "inflight"} /\ pconc' = [pconc EXCEPT ![q] = Failed]
          /\ pstatus' = UpdateStatus(pstatus, q, Failed) /\ UNCHANGED <<pq, infos>>
      BY <1>8, <2>2 DEF AbortPrefill, AbortSender
    <3> QED BY <1>0, <1>a, <1>c, <3>1 DEF Senders, SenderOK, NoRoom, Failed, Bootstrapping,
                                          WaitingForInput, Success
  <2> QED BY <1>8, <2>1, <2>2 DEF AbortPrefill
<1>9. ASSUME NEW q \in Req, BootstrapThread(q) PROVE Senders'
  <2>1. /\ UNCHANGED <<pstatus, pq, pconc>>
        /\ infos' = [infos EXCEPT ![q] = toP[q]] /\ toP[q] # NoInfo
    BY <1>9 DEF BootstrapThread, prefill
  <2> QED BY <1>0, <1>a, <2>1 DEF Senders, SenderOK
<1>10. ASSUME UNCHANGED <<pq, pconc, pstatus, infos>> PROVE Senders'
  BY <1>10 DEF Senders, SenderOK
<1>11. CASE WorkerGet \/ WorkerLook \/ WorkerSendKV \/ WorkerSendAux
  BY <1>10, <1>11 DEF WorkerGet, WorkerLook, WorkerSendKV, WorkerSendAux, prefill
<1>12. CASE BootstrapUpdate \/ WorkerReport
  <2>1. UNCHANGED <<pq, pconc, infos>>
    BY <1>12, QuietSteps DEF prefill
  <2> QED BY <1>10, <1>12, <2>1, StoreSender
<1>14. CASE WorkerCheck
  <2>1. CASE UNCHANGED infos
    BY <1>10, <1>14, <2>1 DEF WorkerCheck, prefill
  <2>2. CASE wk.stage = "pop" /\ infos' = [infos EXCEPT ![wk.c.room] = NoInfo]
    <3>1. \/ pq[wk.c.room] = "done"
          \/ pq[wk.c.room] = "inflight" /\ pstatus[wk.c.room] \in {Failed, Success}
      BY <2>2 DEF Traffic, WorkerOK
    <3>2. UNCHANGED <<pq, pconc, pstatus>>
      BY <1>14 DEF WorkerCheck, prefill
    <3> QED BY <1>0, <1>a, <2>2, <3>1, <3>2 DEF Senders, SenderOK, Failed, WaitingForInput, Success
  <2> QED BY <1>14, <2>1, <2>2 DEF WorkerCheck
<1>15. CASE PrefillCrash
  BY <1>15 DEF PrefillCrash, Senders, SenderOK, NoRoom, WaitingForInput
<1> QED
  BY <1>1, <1>2, <1>3, <1>4, <1>5, <1>6, <1>7, <1>8, <1>9, <1>10, <1>11, <1>12, <1>14,
     <1>15, DecodeFrame, LoseFrame DEF Next, Step, PrefillNext, PrefillLoop, Worker

\* The invariant keeps the states of the receivers.
LEMMA ReceiversStep ==
  ASSUME DisaggInv, Next
  PROVE  Receivers'
<1> USE DEF DisaggInv
<1>0. /\ dstatus \in [Req -> Statuses] /\ dconc \in [Req -> {None, Failed, Success}]
      /\ dq \in [Req -> {"new", "prealloc", "transfer", "running", "done"}]
      /\ ready \subseteq {r \in Req : dq[r] = "prealloc"} /\ pending \subseteq Req
  BY DEF DecodeTypes
<1>a. \A r \in Req : ReceiverOK(r)
  BY DEF Receivers
<1>c. ASSUME NEW q \in Req, NEW s \in {Failed, Bootstrapping, WaitingForInput, Success},
             UpdateStatus(dstatus, q, s) = dstatus'
      PROVE  /\ \A r \in Req : r # q => dstatus'[r] = dstatus[r]
             /\ dstatus'[q] = IF s = Failed THEN IF dstatus[q] = NoRoom THEN NoRoom ELSE Failed
                              ELSE IF dstatus[q] >= s THEN dstatus[q] ELSE s
  BY <1>0, <1>c, UpdateStatusIs, StatusesKnown
<1>1. ASSUME NEW q \in Req, DecodeAdd(q) PROVE Receivers'
  <2>0. PICK miss \in Unreached(IF known THEN {q} ELSE {}) :
          dconc' = [r \in Req |-> IF r \in miss THEN Failed ELSE dconc[r]]
    BY <1>1 DEF DecodeAdd
  <2>1. /\ dq[q] = "new" /\ dq' = [dq EXCEPT ![q] = "prealloc"] /\ UNCHANGED ready
        /\ \A r \in Req : r # q => dconc'[r] = dconc[r]
        /\ dconc'[q] \in {dconc[q], Failed}
        /\ dstatus' = UpdateStatus(dstatus, q, IF known THEN WaitingForInput ELSE Bootstrapping)
        /\ pending' = IF known THEN pending ELSE pending \cup {q}
    BY <1>1, <2>0 DEF DecodeAdd, Unreached
  <2>2. /\ \A r \in Req : r # q => dstatus'[r] = dstatus[r]
        /\ dstatus'[q] = IF known THEN WaitingForInput ELSE Bootstrapping
    BY <1>a, <1>c, <2>1 DEF ReceiverOK, NoRoom, Failed, Bootstrapping, WaitingForInput, Success
  <2> QED BY <1>0, <1>a, <2>1, <2>2 DEF Receivers, ReceiverOK, Failed, Bootstrapping,
                                       WaitingForInput, Success, NoRoom
<1>b. ASSUME NEW q \in Req, dstatus' = [dstatus EXCEPT ![q] = NoRoom],
             \/ dq' = [dq EXCEPT ![q] = "done"]
             \/ dq[q] # "prealloc" /\ q \notin pending /\ dq' = [dq EXCEPT ![q] = "running"],
             ready' = ready \ {q}, UNCHANGED pending,
             \A r \in Req : r # q => dconc'[r] = dconc[r]
      PROVE  Receivers'
  BY <1>0, <1>a, <1>b DEF Receivers, ReceiverOK
<1>2. ASSUME NEW q \in Req, UpdateHandshakeWaiter(q) PROVE Receivers'
  <2>1. CASE /\ Poll(dconc, dstatus, q) = WaitingForInput /\ ready' = ready \cup {q}
             /\ UNCHANGED <<dq, dconc, dstatus>>
    <3>1. dstatus[q] = WaitingForInput
      BY <1>0, <2>1 DEF Poll, None, Failed, WaitingForInput, Success
    <3>2. dq[q] = "prealloc" /\ pending' = pending
      BY <1>2 DEF UpdateHandshakeWaiter
    <3> QED BY <1>0, <1>a, <2>1, <3>1, <3>2 DEF Receivers, ReceiverOK
  <2>2. CASE /\ dconc' = [dconc EXCEPT ![q] = Failed] /\ ready' = ready \ {q}
             /\ ClearReceiver(q) /\ DecodeLeave(q)
    <3>1. /\ dq' = [dq EXCEPT ![q] = "done"] /\ dstatus' = [dstatus EXCEPT ![q] = NoRoom]
          /\ UNCHANGED pending /\ \A r \in Req : r # q => dconc'[r] = dconc[r]
      BY <1>0, <1>2, <2>2 DEF UpdateHandshakeWaiter, ClearReceiver, DecodeLeave
    <3> QED BY <1>b, <2>2, <3>1
  <2> QED BY <1>2, <2>1, <2>2 DEF UpdateHandshakeWaiter
<1>3. ASSUME NEW q \in Req, PopPreallocated(q) PROVE Receivers'
  <2>1. /\ q \in ready /\ dq' = [dq EXCEPT ![q] = "transfer"] /\ ready' = ready \ {q}
        /\ UNCHANGED <<dconc, dstatus, pending>>
    BY <1>3 DEF PopPreallocated, decodeMgr
  <2> QED BY <1>0, <1>a, <2>1 DEF Receivers, ReceiverOK
<1>4. ASSUME NEW q \in Req, WaitingTimeout(q) PROVE Receivers'
  BY <1>0, <1>a, <1>4 DEF WaitingTimeout, decodeMgr, Receivers, ReceiverOK
<1>5. ASSUME NEW q \in Req, PopTransferFailed(q) \/ PopTransferred(q) PROVE Receivers'
  <2>1. /\ dq[q] = "transfer" /\ dstatus' = [dstatus EXCEPT ![q] = NoRoom]
        /\ UNCHANGED <<pending, ready>> /\ \A r \in Req : r # q => dconc'[r] = dconc[r]
        /\ dq' = [dq EXCEPT ![q] = "done"] \/ dq' = [dq EXCEPT ![q] = "running"]
    BY <1>0, <1>5 DEF PopTransferFailed, PopTransferred, ClearReceiver, DecodeLeave
  <2>2. q \notin ready /\ q \notin pending
    BY <1>0, <1>a, <2>1 DEF ReceiverOK
  <2>3. ready' = ready \ {q}
    BY <2>1, <2>2
  <2> QED BY <1>b, <2>1, <2>2, <2>3
<1>6. ASSUME NEW q \in Req, DecodeFinish(q) PROVE Receivers'
  <2>1. /\ dq[q] = "running" /\ dq' = [dq EXCEPT ![q] = "done"]
        /\ UNCHANGED <<dconc, dstatus, pending, ready>>
    BY <1>6 DEF DecodeFinish, DecodeLeave, decodeMgr
  <2> QED BY <1>0, <1>a, <2>1 DEF Receivers, ReceiverOK
<1>7. ASSUME NEW q \in Req, AbortDecode(q) PROVE Receivers'
  <2>1. /\ dq[q] \in {"prealloc", "transfer"} /\ dconc' = [dconc EXCEPT ![q] = Failed]
        /\ dstatus' = UpdateStatus(dstatus, q, Failed) /\ UNCHANGED <<dq, pending, ready>>
    BY <1>7 DEF AbortDecode
  <2>2. /\ \A r \in Req : r # q => dstatus'[r] = dstatus[r]
        /\ dstatus'[q] = Failed
    BY <1>a, <1>c, <2>1 DEF ReceiverOK, NoRoom, Failed, Bootstrapping, WaitingForInput, Success
  <2> QED BY <1>0, <1>a, <2>1, <2>2 DEF Receivers, ReceiverOK, Failed, WaitingForInput
<1>8. CASE ResolvePending
  <2>0. PICK miss \in Unreached(pending) :
          dconc' = [r \in Req |-> IF r \in miss THEN Failed ELSE dconc[r]]
    BY <1>8 DEF ResolvePending
  <2>1. /\ UNCHANGED <<dq, ready>> /\ pending' = {}
        /\ dstatus' = [r \in Req |-> IF r \in pending THEN Max({dstatus[r], WaitingForInput})
                                     ELSE dstatus[r]]
        /\ \A r \in Req : dconc'[r] = dconc[r] \/ (r \in pending /\ dconc'[r] = Failed)
    BY <1>8, <2>0 DEF ResolvePending, Unreached
  <2>2. ASSUME NEW r \in Req PROVE ReceiverOK(r)'
    <3>1. ReceiverOK(r)
      BY <1>a
    <3>2. CASE r \notin pending
      BY <2>1, <3>1, <3>2 DEF ReceiverOK
    <3>3. CASE r \in pending
      <4>1. dq[r] \in {"prealloc", "done"} /\ r \notin ready
            /\ (dq[r] = "prealloc" => dstatus[r] \in {Failed, Bootstrapping})
        BY <3>1, <3>3 DEF ReceiverOK
      <4>2. dstatus[r] \in Int /\ WaitingForInput \in Int
        BY <1>0 DEF Statuses, NoRoom, Failed, Bootstrapping, WaitingForInput, Success
      <4>3. dstatus'[r] = IF dstatus[r] >= WaitingForInput THEN dstatus[r] ELSE WaitingForInput
        BY <2>1, <3>3, <4>2, MaxOfTwo
      <4>4. dq[r] = "prealloc" => dstatus'[r] = WaitingForInput
        BY <4>1, <4>3 DEF Failed, Bootstrapping, WaitingForInput
      <4> QED BY <2>1, <3>1, <4>1, <4>4 DEF ReceiverOK
    <3> QED BY <3>2, <3>3
  <2> QED BY <2>2 DEF Receivers
<1>9. CASE EnsureFails
  <2>1. PICK gone \in SUBSET pending :
          /\ UNCHANGED <<dq, ready>> /\ pending' = pending \ gone
          /\ dconc' = [r \in Req |-> IF r \in gone THEN Failed ELSE dconc[r]]
          /\ dstatus' = [r \in Req |-> IF r \in gone THEN UpdateStatus(dstatus, r, Failed)[r]
                                       ELSE dstatus[r]]
    BY <1>9 DEF EnsureFails
  <2>2. ASSUME NEW r \in gone, NEW s, s = UpdateStatus(dstatus, r, Failed)[r]
        PROVE  s = IF dstatus[r] = NoRoom THEN NoRoom ELSE Failed
    BY <1>0, <2>2, UpdateStatusIs, StatusesKnown
  <2>3. ASSUME NEW r \in Req PROVE ReceiverOK(r)'
    <3>1. CASE r \notin gone
      BY <1>a, <2>1, <3>1 DEF ReceiverOK
    <3>2. CASE r \in gone
      <4>1. ReceiverOK(r) /\ r \in pending
        BY <1>a, <3>2
      <4>2. dstatus'[r] = (IF dstatus[r] = NoRoom THEN NoRoom ELSE Failed) /\ dconc'[r] = Failed
        BY <2>1, <2>2, <3>2
      <4>3. r \notin pending'
        BY <2>1, <3>2
      <4> QED BY <2>1, <4>1, <4>2, <4>3 DEF ReceiverOK, NoRoom, Failed, Bootstrapping, WaitingForInput
    <3> QED BY <3>1, <3>2
  <2> QED BY <2>3 DEF Receivers
<1>10. CASE DecodeUpdate
  <2>1. /\ dt.room \in Req /\ Handling(dt, dt.room) /\ dt.val \in {Failed, Success}
        /\ dstatus' = dstatus \/ dstatus' = [dstatus EXCEPT ![dt.room] = dt.val]
    BY <1>10, DecodeUpdateIs DEF Threads
  <2>2. dq[dt.room] \notin {"new", "prealloc"}
    BY <2>1 DEF Threads, DecodeThreadOK
  <2>3. UNCHANGED <<dq, dconc, ready, pending>>
    BY <1>10, QuietSteps DEF decode
  <2> QED BY <1>0, <1>a, <2>1, <2>2, <2>3 DEF Receivers, ReceiverOK
<1>11. CASE FailRooms
  <2>1. \/ hb.room \in Req /\ dq[hb.room] # "new" /\ dstatus' = [dstatus EXCEPT ![hb.room] = Failed]
        \/ dstatus' = dstatus
    BY <1>11, FailRoomsIs DEF Threads
  <2>2. UNCHANGED <<dq, dconc, ready, pending>>
    BY <1>11, QuietSteps DEF decode
  <2> QED BY <1>0, <1>a, <2>1, <2>2 DEF Receivers, ReceiverOK, Failed, WaitingForInput
<1>12. CASE UNCHANGED <<dq, dconc, ready, pending, dstatus>>
  BY <1>a, <1>12 DEF Receivers, ReceiverOK
<1>13. CASE DecodeThread \/ HeartbeatOK \/ HandleNodeFailure
  BY <1>12, <1>13 DEF DecodeThread, HeartbeatOK, HandleNodeFailure, decode
<1> QED
  BY <1>1, <1>2, <1>3, <1>4, <1>5, <1>6, <1>7, <1>8, <1>9, <1>10, <1>11, <1>12, <1>13,
     PrefillFrame, LoseFrame DEF Next, Step, DecodeNext, DecodeLoop

-----------------------------------------------------------------------------
(* Metadata slots.                                                         *)

\* A request takes the slot at the head of the FIFO.
LEMMA TakeSlot ==
  ASSUME NEW n \in Nat, NEW free \in Seq(1 .. n), NEW meta \in [Req -> Nat],
         EachOnce(free, meta, n), Apart(free, meta), free # <<>>, NEW r \in Req, meta[r] = 0
  PROVE  LET m == [meta EXCEPT ![r] = Head(free)]
         IN  /\ Tail(free) \in Seq(1 .. n) /\ Head(free) \in 1 .. n
             /\ EachOnce(Tail(free), m, n) /\ Apart(Tail(free), m)
<1> DEFINE m == [meta EXCEPT ![r] = Head(free)]
           held == {q \in Req : meta[q] # 0}
           held2 == {q \in Req : m[q] # 0}
<1>1. /\ Tail(free) \in Seq(1 .. n) /\ Len(Tail(free)) = Len(free) - 1 /\ Len(free) \in Nat \ {0}
      /\ Head(free) \in 1 .. n /\ Range(free) = Range(Tail(free)) \cup {Head(free)}
      /\ IsInjective(Tail(free)) /\ Head(free) \notin Range(Tail(free))
  BY TailRange DEF Apart
<1>2. Head(free) # 0 /\ Head(free) \in Range(free)
  BY <1>1
<1>3. held2 = held \cup {r} /\ r \notin held
  BY <1>2
<1>4. Cardinality(held2) = Cardinality(held) + 1 /\ Cardinality(held) \in Nat
  <2>1. IsFiniteSet(held)
    BY DisaggAssumption, FS_Subset
  <2> QED BY <1>3, <2>1, FS_AddElement, FS_CardinalityType
<1>5. Len(free) + Cardinality(held) = n /\ Range(free) \cup {meta[q] : q \in held} = 1 .. n
  BY DEF EachOnce
<1>6. Len(Tail(free)) + Cardinality(held2) = n
  BY <1>1, <1>4, <1>5
<1>7. Range(Tail(free)) \cup {m[q] : q \in held2} = 1 .. n
  <2>1. {m[q] : q \in held2} = {meta[q] : q \in held} \cup {Head(free)}
    BY <1>3
  <2> QED BY <1>1, <1>5, <2>1
<1>8. EachOnce(Tail(free), m, n)
  BY <1>6, <1>7 DEF EachOnce
<1>9. Apart(Tail(free), m)
  BY <1>1, <1>2 DEF Apart
<1> QED BY <1>1, <1>8, <1>9

\* A request gives its slot back.
LEMMA GiveSlot ==
  ASSUME NEW n \in Nat, NEW free \in Seq(1 .. n), NEW meta \in [Req -> Nat],
         EachOnce(free, meta, n), Apart(free, meta), NEW r \in Req, meta[r] # 0
  PROVE  LET m == [meta EXCEPT ![r] = 0]
             f == Append(free, meta[r])
         IN  f \in Seq(1 .. n) /\ EachOnce(f, m, n) /\ Apart(f, m)
<1> DEFINE m == [meta EXCEPT ![r] = 0]
           f == Append(free, meta[r])
           held == {q \in Req : meta[q] # 0}
           held2 == {q \in Req : m[q] # 0}
<1>1. Len(free) + Cardinality(held) = n /\ Range(free) \cup {meta[q] : q \in held} = 1 .. n
  BY DEF EachOnce
<1>2. meta[r] \in 1 .. n /\ meta[r] \notin Range(free) /\ IsInjective(free)
  BY <1>1 DEF Apart
<1>3. /\ f \in Seq(1 .. n) /\ Len(f) = Len(free) + 1 /\ Range(f) = Range(free) \cup {meta[r]}
      /\ IsInjective(f)
  BY <1>2, AppendRange
<1>4. held2 = held \ {r} /\ r \in held
  OBVIOUS
<1>5. Cardinality(held2) = Cardinality(held) - 1 /\ Cardinality(held) \in Nat
  <2>1. IsFiniteSet(held)
    BY DisaggAssumption, FS_Subset
  <2>2. Cardinality(held \ {r}) = IF r \in held THEN Cardinality(held) - 1 ELSE Cardinality(held)
    BY <2>1, FS_RemoveElement
  <2>3. Cardinality(held) \in Nat
    BY <2>1, FS_CardinalityType
  <2> QED BY <1>4, <2>2, <2>3
<1>6. Len(f) + Cardinality(held2) = n
  <2>1. Len(free) \in Nat
    BY LenProperties
  <2> QED BY <1>1, <1>3, <1>5, <2>1
<1>7. Range(f) \cup {m[q] : q \in held2} = 1 .. n
  <2>1. {meta[q] : q \in held} = {m[q] : q \in held2} \cup {meta[r]}
    BY <1>4
  <2> QED BY <1>1, <1>3, <2>1
<1>8. EachOnce(f, m, n)
  BY <1>6, <1>7 DEF EachOnce
<1>9. Apart(f, m)
  BY <1>3 DEF Apart
<1> QED BY <1>3, <1>8, <1>9

\* The invariant keeps the prefill server's slots.
LEMMA PrefillSlotsStep ==
  ASSUME DisaggInv, Next
  PROVE  PrefillSlots'
<1> USE DEF DisaggInv
<1>0. /\ pmeta \in [Req -> Nat] /\ PSlots \in Nat /\ pslots \in Seq(1 .. PSlots)
      /\ EachOnce(pslots, pmeta, PSlots) /\ Apart(pslots, pmeta) /\ DOMAIN pbuf = 1 .. PSlots
      /\ pq \in [Req -> {"new", "bootstrap", "waiting", "chunked", "sent", "inflight", "done"}]
      /\ \A r \in Req : /\ pmeta[r] = 0 <=> pq[r] \in {"new", "bootstrap", "done"}
                        /\ pq[r] = "inflight" => pbuf[pmeta[r]] = r
  BY DisaggAssumption DEF PrefillTypes, PrefillSlots
<1>1. ASSUME NEW q \in Req, PrefillLeave(q), UNCHANGED pbuf PROVE PrefillSlots'
  <2>1. /\ pq' = [pq EXCEPT ![q] = "done"] /\ pmeta' = [pmeta EXCEPT ![q] = 0]
        /\ pslots' = IF pmeta[q] = 0 THEN pslots ELSE Append(pslots, pmeta[q])
    BY <1>1 DEF PrefillLeave
  <2>2. /\ pslots' \in Seq(1 .. PSlots) /\ EachOnce(pslots', pmeta', PSlots)
        /\ Apart(pslots', pmeta')
    <3>1. CASE pmeta[q] = 0
      <4>1. pmeta' = pmeta
        BY <1>0, <2>1, <3>1
      <4> QED BY <1>0, <2>1, <3>1, <4>1
    <3>2. CASE pmeta[q] # 0
      BY <1>0, <2>1, <3>2, GiveSlot
    <3> QED BY <3>1, <3>2
  <2> QED BY <1>0, <1>1, <2>1, <2>2 DEF PrefillSlots
<1>2. ASSUME NEW q \in Req, PopBootstrapped(q) PROVE PrefillSlots'
  <2>1. /\ pq[q] = "bootstrap" /\ pq' = [pq EXCEPT ![q] = "waiting"] /\ pslots # <<>>
        /\ pmeta' = [pmeta EXCEPT ![q] = Head(pslots)] /\ pslots' = Tail(pslots)
        /\ UNCHANGED pbuf
    BY <1>2 DEF PopBootstrapped
  <2>2. /\ pslots' \in Seq(1 .. PSlots) /\ EachOnce(pslots', pmeta', PSlots)
        /\ Apart(pslots', pmeta') /\ Head(pslots) \in 1 .. PSlots
    <3>1. pmeta[q] = 0
      BY <1>0, <2>1
    <3> QED BY <1>0, <2>1, <3>1, TakeSlot
  <2> QED BY <1>0, <2>1, <2>2 DEF PrefillSlots
<1>3. ASSUME NEW q \in Req, UNCHANGED <<pmeta, pslots, pbuf>>,
             \/ pq[q] \in {"waiting", "chunked"} /\ \E w \in {"chunked", "sent"} : pq' = [pq EXCEPT ![q] = w]
             \/ pq[q] = "new" /\ pq' = [pq EXCEPT ![q] = "bootstrap"]
      PROVE  PrefillSlots'
  BY <1>0, <1>3 DEF PrefillSlots
<1>4. ASSUME NEW q \in Req, PrefillLastChunk(q) PROVE PrefillSlots'
  <2>1. /\ pq[q] \in {"sent", "waiting"} /\ pq' = [pq EXCEPT ![q] = "inflight"]
        /\ pbuf' = [pbuf EXCEPT ![pmeta[q]] = q] /\ UNCHANGED <<pmeta, pslots>>
    BY <1>4 DEF PrefillLastChunk
  <2>2. pmeta[q] \in 1 .. PSlots
    <3>1. pmeta[q] # 0
      BY <1>0, <2>1
    <3> QED BY <1>0, <3>1 DEF EachOnce
  <2>3. \A r \in Req : r # q => pmeta[r] # pmeta[q]
    BY <1>0, <2>2 DEF Apart
  <2> QED BY <1>0, <2>1, <2>2, <2>3 DEF PrefillSlots
<1>5. CASE PrefillCrash
  <2>1. /\ pq' = [r \in Req |-> "done"] /\ pmeta' = [r \in Req |-> 0]
        /\ pslots' = [i \in 1 .. PSlots |-> i]
    BY <1>5 DEF PrefillCrash
  <2>2. pslots' \in Seq(1 .. PSlots) /\ Len(pslots') = PSlots /\ Range(pslots') = 1 .. PSlots
        /\ IsInjective(pslots')
    BY <1>0, <2>1, SeqDef DEF Range, IsInjective
  <2>3. EachOnce(pslots', pmeta', PSlots)
    <3> DEFINE held == {r \in Req : pmeta'[r] # 0}
    <3>1. held = {}
      BY <2>1
    <3>2. Cardinality(held) = 0
      BY <3>1, FS_EmptySet
    <3>3. Range(pslots') \cup {pmeta'[r] : r \in held} = 1 .. PSlots
      BY <2>2, <3>1
    <3>4. Len(pslots') + Cardinality(held) = PSlots
      BY <1>0, <2>2, <3>2
    <3> QED BY <3>3, <3>4 DEF EachOnce
  <2>4. Apart(pslots', pmeta')
    BY <2>1, <2>2 DEF Apart
  <2> QED BY <2>1, <2>2, <2>3, <2>4 DEF PrefillSlots
<1>6. CASE UNCHANGED <<pmeta, pslots, pbuf, pq>>
  BY <1>0, <1>6 DEF PrefillSlots
<1>7. CASE PrefillNext
  BY <1>0, <1>1, <1>2, <1>3, <1>4, <1>6, <1>7 DEF PrefillNext, PrefillLoop, Worker, prefill,
                                                  PrefillAdd, BootstrapTimeout, PopFailed,
                                                  PrefillFirstChunk, ProcessPrefillChunk,
                                                  ProcessInflight, AbortPrefill, AbortQueued,
                                                  AbortSender, BootstrapThread, BootstrapUpdate,
                                                  WorkerGet, WorkerLook, WorkerReport, WorkerSendKV,
                                                  WorkerSendAux, WorkerCheck
<1> QED BY <1>5, <1>6, <1>7, DecodeFrame, LoseFrame DEF Next, Step

\* The invariant keeps the decode server's slots.
LEMMA DecodeSlotsStep ==
  ASSUME DisaggInv, Next
  PROVE  DecodeSlots'
<1> USE DEF DisaggInv
<1>0. /\ dmeta \in [Req -> Nat] /\ DSlots \in Nat /\ dslots \in Seq(1 .. DSlots)
      /\ EachOnce(dslots, dmeta, DSlots) /\ Apart(dslots, dmeta)
      /\ dq \in [Req -> {"new", "prealloc", "transfer", "running", "done"}]
      /\ \A r \in Req : dmeta[r] = 0 <=> dq[r] # "transfer"
      /\ ready \subseteq {r \in Req : dq[r] = "prealloc"}
  BY DisaggAssumption DEF DecodeTypes, DecodeSlots
<1>1. ASSUME NEW q \in Req, NEW w \in {"running", "done"}, dq' = [dq EXCEPT ![q] = w],
             dmeta' = [dmeta EXCEPT ![q] = 0],
             dslots' = IF dmeta[q] = 0 THEN dslots ELSE Append(dslots, dmeta[q])
      PROVE  DecodeSlots'
  <2>1. /\ dslots' \in Seq(1 .. DSlots) /\ EachOnce(dslots', dmeta', DSlots)
        /\ Apart(dslots', dmeta')
    <3>1. CASE dmeta[q] = 0
      <4>1. dmeta' = dmeta
        BY <1>0, <1>1, <3>1
      <4> QED BY <1>0, <1>1, <3>1, <4>1
    <3>2. CASE dmeta[q] # 0
      BY <1>0, <1>1, <3>2, GiveSlot
    <3> QED BY <3>1, <3>2
  <2> QED BY <1>0, <1>1, <2>1 DEF DecodeSlots
<1>2. ASSUME NEW q \in Req, PopPreallocated(q) PROVE DecodeSlots'
  <2>1. /\ q \in ready /\ dq' = [dq EXCEPT ![q] = "transfer"] /\ dslots # <<>>
        /\ dmeta' = [dmeta EXCEPT ![q] = Head(dslots)] /\ dslots' = Tail(dslots)
    BY <1>2 DEF PopPreallocated
  <2>2. /\ dslots' \in Seq(1 .. DSlots) /\ EachOnce(dslots', dmeta', DSlots)
        /\ Apart(dslots', dmeta') /\ Head(dslots) \in 1 .. DSlots
    <3>1. dmeta[q] = 0
      BY <1>0, <2>1
    <3> QED BY <1>0, <2>1, <3>1, TakeSlot
  <2> QED BY <1>0, <2>1, <2>2 DEF DecodeSlots
<1>3. ASSUME NEW q \in Req, DecodeAdd(q) PROVE DecodeSlots'
  BY <1>0, <1>3 DEF DecodeAdd, DecodeSlots
<1>4. ASSUME NEW q \in Req, DecodeLeave(q) PROVE DecodeSlots'
  BY <1>1, <1>4 DEF DecodeLeave, Released
<1>5. ASSUME NEW q \in Req, PopTransferred(q) PROVE DecodeSlots'
  <2>1. dmeta[q] # 0
    BY <1>0, <1>5 DEF PopTransferred
  <2>2. \/ DecodeLeave(q)
        \/ /\ dq' = [dq EXCEPT ![q] = "running"] /\ dslots' = Append(dslots, dmeta[q])
           /\ dmeta' = [dmeta EXCEPT ![q] = 0]
    BY <1>5 DEF PopTransferred
  <2> QED BY <1>1, <1>4, <2>1, <2>2
<1>6. CASE UNCHANGED <<dmeta, dslots, dq>>
  BY <1>0, <1>6 DEF DecodeSlots
<1>7. CASE DecodeNext
  BY <1>2, <1>3, <1>4, <1>5, <1>6, <1>7 DEF DecodeNext, DecodeLoop, decode, UpdateHandshakeWaiter,
                                            WaitingTimeout, PopTransferFailed, DecodeFinish,
                                            AbortDecode, ResolvePending, EnsureFails, DecodeThread,
                                            DecodeUpdate, FailRooms, HeartbeatOK, HandleNodeFailure
<1> QED BY <1>6, <1>7, PrefillFrame, LoseFrame DEF Next, Step

-----------------------------------------------------------------------------
(* Pages.                                                                  *)

\* A forward pass adds a page that nobody had, holding the next chunk.
LEMMA ComputePages ==
  ASSUME PrefillTypes, scen \in Scenarios, Computed, NEW q \in Req, NEW k,
         k = Len(ppages[q]) + 1, Compute(q, k)
  PROVE  /\ Computed'
         /\ ppages'[q] \in Seq(Page) /\ Len(ppages'[q]) = Len(ppages[q]) + 1
         /\ \A j \in 1 .. Len(ppages[q]) : ppages'[q][j] = ppages[q][j]
         /\ \A r \in Req : r # q => ppages'[r] = ppages[r]
<1>0. ppages \in [Req -> Seq(Page)] /\ pfree \subseteq Page /\ DOMAIN pkv = Page
  BY DEF PrefillTypes
<1>1. PICK p \in pfree : /\ pfree' = pfree \ {p}
                         /\ ppages' = [ppages EXCEPT ![q] = Append(ppages[q], p)]
                         /\ pkv' = [pkv EXCEPT ![p] = <<q, k>>]
  BY DEF Compute
<1>2. ppages[q] \in Seq(Page) /\ p \in Page /\ p \notin Range(ppages[q]) /\ IsInjective(ppages[q])
  BY <1>0, <1>1 DEF Computed
<1>3. /\ Append(ppages[q], p) \in Seq(Page) /\ Len(Append(ppages[q], p)) = Len(ppages[q]) + 1
      /\ Range(Append(ppages[q], p)) = Range(ppages[q]) \cup {p}
      /\ IsInjective(Append(ppages[q], p))
  BY <1>2, AppendRange
<1>4. /\ \A j \in 1 .. Len(ppages[q]) : Append(ppages[q], p)[j] = ppages[q][j]
      /\ Append(ppages[q], p)[Len(ppages[q]) + 1] = p
  BY <1>2, AppendProperties
<1>5. ppages'[q] = Append(ppages[q], p) /\ \A r \in Req : r # q => ppages'[r] = ppages[r]
  BY <1>0, <1>1
<1>6. \A r \in Req : Range(ppages'[r]) \cap pfree' = {} /\ IsInjective(ppages'[r])
  BY <1>1, <1>3, <1>5 DEF Computed
<1>7. \A r, s \in Req : r # s => Range(ppages'[r]) \cap Range(ppages'[s]) = {}
  BY <1>1, <1>3, <1>5 DEF Computed
<1>8. ASSUME NEW r \in Req, NEW j \in 1 .. Len(ppages'[r])
      PROVE  pkv'[ppages'[r][j]] = <<r, j>>
  <2>1. ASSUME NEW i \in 1 .. Len(ppages[r])
        PROVE  /\ ppages[r][i] \in Page /\ ppages[r][i] # p
               /\ pkv'[ppages[r][i]] = <<r, i>>
    <3>1. ppages[r] \in Seq(Page)
      BY <1>0
    <3>2. DOMAIN ppages[r] = 1 .. Len(ppages[r]) /\ ppages[r][i] \in Page
      BY <3>1, LenProperties, ElementOfSeq
    <3>3. ppages[r][i] # p
      BY <1>1, <3>2 DEF Computed, Range
    <3>4. pkv[ppages[r][i]] = <<r, i>>
      BY DEF Computed
    <3> QED BY <1>0, <1>1, <3>2, <3>3, <3>4
  <2>2. CASE r # q
    BY <1>5, <2>1, <2>2
  <2>3. CASE r = q
    <3>1. Len(ppages[q]) \in Nat /\ j \in 1 .. Len(ppages[q]) + 1
      BY <1>2, <1>3, <1>5, <2>3, LenProperties
    <3>2. CASE j = Len(ppages[q]) + 1
      BY <1>0, <1>1, <1>2, <1>4, <1>5, <2>3, <3>2
    <3>3. CASE j # Len(ppages[q]) + 1
      <4>1. j \in 1 .. Len(ppages[q])
        BY <3>1, <3>3
      <4> QED BY <1>4, <1>5, <2>1, <2>3, <4>1
    <3> QED BY <3>2, <3>3
  <2> QED BY <2>2, <2>3
<1>9. Computed'
  BY <1>6, <1>7, <1>8 DEF Computed
<1> QED BY <1>3, <1>4, <1>5, <1>9

\* The page a chunk goes to: the next one.
LEMMA NextPage ==
  ASSUME PrefillPages, NEW r \in Req
  PROVE  /\ pq[r] = "waiting" => 1 = Len(ppages[r]) + 1
         /\ pq[r] = "sent" => Chunks(r) = Len(ppages[r]) + 1
<1> DEFINE n == Len(ppages[r])
           m == Chunks(r)
<1>1. (pq[r] = "waiting" => n = 0) /\ (pq[r] = "sent" => n = 1 /\ m = 2)
  BY DEF PrefillPages
<1> HIDE DEF n, m
<1>2. (pq[r] = "waiting" => 1 = n + 1) /\ (pq[r] = "sent" => m = n + 1)
  BY <1>1
<1> QED BY <1>2 DEF n, m

\* The invariant keeps the prefill server's pages.
LEMMA PrefillPagesStep ==
  ASSUME DisaggInv, Next
  PROVE  PrefillPages'
<1> USE DEF DisaggInv
<1>0. /\ ppages \in [Req -> Seq(Page)] /\ scen \in Scenarios /\ PrefillTypes
      /\ pq \in [Req -> {"new", "bootstrap", "waiting", "chunked", "sent", "inflight", "done"}]
      /\ \A r \in Req : Chunks(r)' = Chunks(r)
      /\ \A r \in Req : Chunks(r) \in {1, 2}
  BY ScenarioFacts DEF PrefillTypes, NetTypes, Next, Chunks
<1>a. /\ Computed
      /\ \A r \in Req :
           /\ pq[r] \in {"chunked", "sent"} => Chunks(r) = 2
           /\ Len(ppages[r]) = IF pq[r] \in {"chunked", "sent"} THEN 1
                               ELSE IF pq[r] = "inflight" THEN Chunks(r) ELSE 0
  BY DEF PrefillPages
<1>1. ASSUME NEW q \in Req, PrefillLeave(q), UNCHANGED pkv PROVE PrefillPages'
  <2>1. /\ pq' = [pq EXCEPT ![q] = "done"] /\ ppages' = [ppages EXCEPT ![q] = <<>>]
        /\ pfree' = pfree \cup Range(ppages[q])
    BY <1>1 DEF PrefillLeave
  <2>2. Len(<<>>) = 0 /\ Range(<<>>) = {} /\ IsInjective(<<>>)
    BY EmptySeq DEF Range, IsInjective
  <2>3. ppages'[q] = <<>> /\ \A r \in Req : r # q => ppages'[r] = ppages[r]
    BY <1>0, <2>1
  <2>4. Computed'
    <3>1. \A r \in Req : Range(ppages'[r]) \cap pfree' = {} /\ IsInjective(ppages'[r])
      BY <1>a, <2>1, <2>2, <2>3 DEF Computed
    <3>2. \A r, s \in Req : r # s => Range(ppages'[r]) \cap Range(ppages'[s]) = {}
      BY <1>a, <2>2, <2>3 DEF Computed
    <3>3. ASSUME NEW r \in Req, NEW k \in 1 .. Len(ppages'[r])
          PROVE  pkv'[ppages'[r][k]] = <<r, k>>
      <4>1. Len(ppages'[q]) = 0
        BY <2>2, <2>3
      <4>2. r # q
        BY <4>1
      <4>3. ppages'[r] = ppages[r]
        BY <2>3, <4>2
      <4> QED BY <1>1, <1>a, <4>3 DEF Computed
    <3> QED BY <3>1, <3>2, <3>3 DEF Computed
  <2>5. ASSUME NEW r \in Req
        PROVE  /\ pq'[r] \in {"chunked", "sent"} => Chunks(r) = 2
               /\ Len(ppages'[r]) = IF pq'[r] \in {"chunked", "sent"} THEN 1
                                    ELSE IF pq'[r] = "inflight" THEN Chunks(r) ELSE 0
    <3>1. CASE r = q
      <4>1. pq'[r] = "done" /\ Len(ppages'[r]) = 0
        BY <1>0, <2>1, <2>2, <2>3, <3>1
      <4> QED BY <4>1
    <3>2. CASE r # q
      <4>1. pq'[r] = pq[r] /\ ppages'[r] = ppages[r]
        BY <1>0, <2>1, <2>3, <3>2
      <4> QED BY <1>a, <4>1
    <3> QED BY <3>1, <3>2
  <2> QED BY <1>0, <2>4, <2>5 DEF PrefillPages
<1>2. ASSUME NEW q \in Req, PrefillFirstChunk(q) PROVE PrefillPages'
  <2>1. /\ pq[q] = "waiting" /\ Chunks(q) = 2 /\ pq' = [pq EXCEPT ![q] = "chunked"] /\ Compute(q, 1)
    BY <1>2 DEF PrefillFirstChunk
  <2>2. 1 = Len(ppages[q]) + 1
    BY <2>1, NextPage
  <2>3. /\ Computed' /\ Len(ppages'[q]) = Len(ppages[q]) + 1
        /\ \A r \in Req : r # q => ppages'[r] = ppages[r]
    BY <1>0, <1>a, <2>1, <2>2, ComputePages
  <2>4. Len(ppages'[q]) = 1
    BY <2>2, <2>3
  <2> QED BY <1>0, <1>a, <2>1, <2>3, <2>4 DEF PrefillPages
<1>3. ASSUME NEW q \in Req, PrefillLastChunk(q) PROVE PrefillPages'
  <2>1. /\ pq[q] = "sent" \/ (pq[q] = "waiting" /\ Chunks(q) = 1)
        /\ pq' = [pq EXCEPT ![q] = "inflight"] /\ Compute(q, Chunks(q))
    BY <1>3 DEF PrefillLastChunk
  <2>2. Chunks(q) = Len(ppages[q]) + 1
    BY <2>1, NextPage
  <2>3. /\ Computed' /\ Len(ppages'[q]) = Len(ppages[q]) + 1
        /\ \A r \in Req : r # q => ppages'[r] = ppages[r]
    BY <1>0, <1>a, <2>1, <2>2, ComputePages
  <2>4. Len(ppages'[q]) = Chunks(q)
    BY <2>2, <2>3
  <2> QED BY <1>0, <1>a, <2>1, <2>3, <2>4 DEF PrefillPages
<1>4. CASE PrefillCrash
  <2>1. /\ pq' = [r \in Req |-> "done"] /\ ppages' = [r \in Req |-> <<>>]
    BY <1>4 DEF PrefillCrash
  <2>2. Len(<<>>) = 0 /\ Range(<<>>) = {} /\ IsInjective(<<>>)
    BY EmptySeq DEF Range, IsInjective
  <2> QED BY <2>1, <2>2 DEF PrefillPages, Computed
<1>5. ASSUME NEW q \in Req, UNCHANGED <<ppages, pfree, pkv>>,
             \/ pq[q] = "new" /\ pq' = [pq EXCEPT ![q] = "bootstrap"]
             \/ pq[q] = "bootstrap" /\ pq' = [pq EXCEPT ![q] = "waiting"]
             \/ pq[q] = "chunked" /\ pq' = [pq EXCEPT ![q] = "sent"]
      PROVE  PrefillPages'
  BY <1>0, <1>a, <1>5 DEF PrefillPages, Computed
<1>6. CASE UNCHANGED <<ppages, pfree, pkv, pq>>
  BY <1>0, <1>a, <1>6 DEF PrefillPages, Computed
<1>7. CASE PrefillNext
  BY <1>1, <1>2, <1>3, <1>5, <1>6, <1>7 DEF PrefillNext, PrefillLoop, Worker, prefill, PrefillAdd,
                                            BootstrapTimeout, PopFailed, PopBootstrapped,
                                            ProcessPrefillChunk, ProcessInflight, AbortPrefill,
                                            AbortQueued, AbortSender, BootstrapThread,
                                            BootstrapUpdate, WorkerGet, WorkerLook, WorkerReport,
                                            WorkerSendKV, WorkerSendAux, WorkerCheck
<1> QED BY <1>4, <1>6, <1>7, DecodeFrame, LoseFrame DEF Next, Step

\* The invariant keeps the decode server's pages.
LEMMA DecodePagesStep ==
  ASSUME DisaggInv, Next
  PROVE  DecodePages'
<1> USE DEF DisaggInv
<1>0. /\ dpages \in [Req -> Seq(Page)] /\ scen \in Scenarios /\ dfree \subseteq Page
      /\ dq \in [Req -> {"new", "prealloc", "transfer", "running", "done"}]
      /\ ready \subseteq {r \in Req : dq[r] = "prealloc"}
      /\ \A r \in Req : Chunks(r)' = Chunks(r)
      /\ Page' = Page
  BY DEF DecodeTypes, NetTypes, Next, Chunks, Page
<1>a. /\ \A r \in Req : Range(dpages[r]) \cap dfree = {}
      /\ \A q, r \in Req : q # r => Range(dpages[q]) \cap Range(dpages[r]) = {}
      /\ dfree \cup UNION {Range(dpages[r]) : r \in Req} = Page
      /\ \A r \in Req : dq[r] \in {"new", "prealloc", "done"} => dpages[r] = <<>>
      /\ \A r \in Req : dq[r] \in {"transfer", "running"} =>
                          Len(dpages[r]) = Chunks(r) /\ IsInjective(dpages[r])
  BY DEF DecodePages, PagesExact
<1>b. Range(<<>>) = {}
  BY DEF Range
<1>1. ASSUME NEW q \in Req, DecodeLeave(q) PROVE DecodePages'
  <2>1. /\ dq' = [dq EXCEPT ![q] = "done"] /\ dpages' = [dpages EXCEPT ![q] = <<>>]
        /\ dfree' = dfree \cup Range(dpages[q])
    BY <1>1 DEF DecodeLeave, Released
  <2>2. Range(dpages'[q]) = {} /\ \A r \in Req : r # q => dpages'[r] = dpages[r]
    BY <1>0, <1>b, <2>1
  <2>3. dfree' \cup UNION {Range(dpages'[r]) : r \in Req} = Page
    BY <1>a, <2>1, <2>2
  <2>4. /\ \A r \in Req : Range(dpages'[r]) \cap dfree' = {}
        /\ \A s, r \in Req : s # r => Range(dpages'[s]) \cap Range(dpages'[r]) = {}
    BY <1>a, <2>1, <2>2
  <2>5. /\ \A r \in Req : dq'[r] \in {"new", "prealloc", "done"} => dpages'[r] = <<>>
        /\ \A r \in Req : dq'[r] \in {"transfer", "running"} =>
                            Len(dpages'[r]) = Chunks(r) /\ IsInjective(dpages'[r])
    BY <1>0, <1>a, <2>1, <2>2
  <2> QED BY <1>0, <2>3, <2>4, <2>5 DEF DecodePages, PagesExact
<1>2. ASSUME NEW q \in Req, PopPreallocated(q) PROVE DecodePages'
  <2>1. PICK f \in [1 .. Chunks(q) -> dfree] :
          /\ IsInjective(f) /\ dpages' = [dpages EXCEPT ![q] = f] /\ dfree' = dfree \ Range(f)
    BY <1>2 DEF PopPreallocated
  <2>2. dq[q] = "prealloc" /\ dq' = [dq EXCEPT ![q] = "transfer"]
    BY <1>0, <1>2 DEF PopPreallocated
  <2>3. Len(f) = Chunks(q) /\ Range(f) \subseteq dfree
    BY <1>0, PickedPages
  <2>4. dpages'[q] = f /\ dpages[q] = <<>> /\ \A r \in Req : r # q => dpages'[r] = dpages[r]
    BY <1>0, <1>a, <2>1, <2>2
  <2>5. dfree' \cup UNION {Range(dpages'[r]) : r \in Req} = Page
    BY <1>a, <1>b, <2>1, <2>3, <2>4
  <2>6. /\ \A r \in Req : Range(dpages'[r]) \cap dfree' = {}
        /\ \A s, r \in Req : s # r => Range(dpages'[s]) \cap Range(dpages'[r]) = {}
    BY <1>a, <2>1, <2>3, <2>4
  <2>7. /\ \A r \in Req : dq'[r] \in {"new", "prealloc", "done"} => dpages'[r] = <<>>
        /\ \A r \in Req : dq'[r] \in {"transfer", "running"} =>
                            Len(dpages'[r]) = Chunks(r) /\ IsInjective(dpages'[r])
    BY <1>0, <1>a, <2>1, <2>2, <2>3, <2>4
  <2> QED BY <1>0, <2>5, <2>6, <2>7 DEF DecodePages, PagesExact
<1>3. ASSUME NEW q \in Req, UNCHANGED <<dpages, dfree>>,
             \/ dq[q] = "new" /\ dq' = [dq EXCEPT ![q] = "prealloc"]
             \/ dq[q] = "transfer" /\ dq' = [dq EXCEPT ![q] = "running"]
      PROVE  DecodePages'
  BY <1>0, <1>a, <1>3 DEF DecodePages, PagesExact
<1>4. CASE UNCHANGED <<dpages, dfree, dq>>
  BY <1>0, <1>a, <1>4 DEF DecodePages, PagesExact
<1>5. CASE DecodeNext
  BY <1>1, <1>2, <1>3, <1>4, <1>5 DEF DecodeNext, DecodeLoop, decode, DecodeAdd,
                                      UpdateHandshakeWaiter, WaitingTimeout, PopTransferFailed,
                                      PopTransferred, DecodeFinish, AbortDecode, ResolvePending,
                                      EnsureFails, DecodeThread, DecodeUpdate, FailRooms,
                                      HeartbeatOK, HandleNodeFailure
<1> QED BY <1>4, <1>5, PrefillFrame, LoseFrame DEF Next, Step

-----------------------------------------------------------------------------
(* Indices, chunks and statuses under way.                                 *)

\* What the decode server may do to a request prefill knows of.
LEMMA DecodeMoves ==
  ASSUME DisaggInv, DecodeNext
  PROVE  /\ \A r \in Req : dq[r] \notin {"new", "prealloc"} => dq'[r] \notin {"new", "prealloc"}
         /\ \A r \in Req : \/ toP'[r] = toP[r]
                           \/ dq[r] = "prealloc" /\ dq'[r] = "transfer"
         /\ toD' \subseteq toD
<1>0. /\ dq \in [Req -> {"new", "prealloc", "transfer", "running", "done"}]
      /\ toP \in [Req -> Info] /\ ready \subseteq {r \in Req : dq[r] = "prealloc"}
  BY DEF DisaggInv, DecodeTypes, NetTypes
<1>1. ASSUME NEW q \in Req, PopPreallocated(q)
      PROVE  /\ dq[q] = "prealloc" /\ dq' = [dq EXCEPT ![q] = "transfer"] /\ toD' = toD
             /\ \A r \in Req : r # q => toP'[r] = toP[r]
  BY <1>0, <1>1 DEF PopPreallocated
<1>2. CASE \E q \in Req : PopPreallocated(q)
  BY <1>0, <1>1, <1>2
<1>3. CASE /\ UNCHANGED toP /\ toD' \subseteq toD
           /\ \/ UNCHANGED dq
              \/ \E q \in Req : dq[q] = "new" /\ dq' = [dq EXCEPT ![q] = "prealloc"]
              \/ \E q \in Req : \E w \in {"running", "done"} : dq' = [dq EXCEPT ![q] = w]
  BY <1>0, <1>3
<1> QED BY <1>2, <1>3 DEF DecodeNext, DecodeLoop, decode, net, DecodeAdd, UpdateHandshakeWaiter,
                          DecodeLeave, WaitingTimeout, PopTransferFailed, PopTransferred,
                          DecodeFinish, AbortDecode, ResolvePending, EnsureFails, DecodeThread,
                          DecodeUpdate, FailRooms, HeartbeatOK, HandleNodeFailure

\* What the prefill server may do to indices, places and statuses.
LEMMA PrefillMoves ==
  ASSUME DisaggInv, PrefillNext, NEW r \in Req
  PROVE  /\ toP'[r] = toP[r] \/ toP'[r] = NoInfo
         /\ \/ infos'[r] = infos[r]
            \/ infos'[r] = NoInfo
            \/ toP[r] # NoInfo /\ toP'[r] = NoInfo /\ infos'[r] = toP[r]
         /\ \/ pq'[r] = pq[r]
            \/ pq[r] = "new" /\ pq'[r] = "bootstrap"
            \/ pq[r] = "bootstrap" /\ pq'[r] = "done" /\ pstatus'[r] = NoRoom
            \/ pq[r] = "bootstrap" /\ pq'[r] = "waiting" /\ Bootstrapped(r)
            \/ pq[r] = "waiting" /\ pq'[r] \in {"chunked", "inflight", "done"}
            \/ pq[r] = "chunked" /\ pq'[r] = "sent"
            \/ pq[r] = "sent" /\ pq'[r] = "inflight"
            \/ pq[r] = "inflight" /\ pq'[r] = "done" /\ pstatus'[r] = NoRoom
<1>0. /\ pq \in [Req -> {"new", "bootstrap", "waiting", "chunked", "sent", "inflight", "done"}]
      /\ toP \in [Req -> Info] /\ infos \in [Req -> Info] /\ pstatus \in [Req -> Statuses]
  BY DEF DisaggInv, PrefillTypes, NetTypes
<1>1. ASSUME NEW q \in Req, BootstrapThread(q)
      PROVE  /\ UNCHANGED pq /\ toP[q] # NoInfo /\ toP' = [toP EXCEPT ![q] = NoInfo]
             /\ infos' = [infos EXCEPT ![q] = toP[q]]
  BY <1>1 DEF BootstrapThread, prefill
<1>2. \/ \E q \in Req : BootstrapThread(q)
      \/ UNCHANGED toP
  BY QuietSteps
  DEF PrefillNext, PrefillLoop, Worker, net, PrefillAdd, BootstrapTimeout, PopFailed,
      PopBootstrapped, PrefillFirstChunk, ProcessPrefillChunk, PrefillLastChunk, ProcessInflight,
      AbortPrefill, WorkerGet, WorkerSendKV, WorkerSendAux, WorkerCheck
<1>3. \/ \E q \in Req : BootstrapThread(q)
      \/ infos' = infos
      \/ \E q : infos' = [infos EXCEPT ![q] = NoInfo]
  BY QuietSteps
  DEF PrefillNext, PrefillLoop, Worker, prefillMgr, PrefillAdd, BootstrapTimeout, ClearSender,
      PopFailed, PopBootstrapped, PrefillFirstChunk, ProcessPrefillChunk, PrefillLastChunk,
      ProcessInflight, AbortPrefill, WorkerGet, WorkerSendKV, WorkerSendAux, WorkerCheck
<1>4. \/ UNCHANGED pq
      \/ \E q \in Req :
           \/ pq[q] = "new" /\ pq' = [pq EXCEPT ![q] = "bootstrap"]
           \/ pq[q] = "bootstrap" /\ pq' = [pq EXCEPT ![q] = "done"]
              /\ pstatus' = [pstatus EXCEPT ![q] = NoRoom]
           \/ pq[q] = "bootstrap" /\ pq' = [pq EXCEPT ![q] = "waiting"] /\ Bootstrapped(q)
           \/ pq[q] = "waiting" /\ \E w \in {"chunked", "inflight", "done"} : pq' = [pq EXCEPT ![q] = w]
           \/ pq[q] = "chunked" /\ pq' = [pq EXCEPT ![q] = "sent"]
           \/ pq[q] = "sent" /\ pq' = [pq EXCEPT ![q] = "inflight"]
           \/ pq[q] = "inflight" /\ pq' = [pq EXCEPT ![q] = "done"]
              /\ pstatus' = [pstatus EXCEPT ![q] = NoRoom]
  BY DEF PrefillNext, PrefillLoop, Worker, prefill, PrefillAdd, BootstrapTimeout, PrefillLeave,
         ClearSender, PopFailed, PopBootstrapped, PrefillFirstChunk, ProcessPrefillChunk,
         PrefillLastChunk, ProcessInflight, AbortPrefill, AbortQueued, AbortSender, BootstrapThread,
         BootstrapUpdate, WorkerGet, WorkerLook, WorkerReport, WorkerSendKV, WorkerSendAux,
         WorkerCheck
<1> QED BY <1>0, <1>1, <1>2, <1>3, <1>4

\* The invariant keeps the indices and statuses under way.
LEMMA IndicesStep ==
  ASSUME DisaggInv, Next
  PROVE  Indices'
<1> USE DEF DisaggInv
<1>0. /\ \A r \in Req : toP[r] # NoInfo => dq[r] \notin {"new", "prealloc"}
      /\ \A r \in Req : infos[r] # NoInfo \/ pq[r] \in {"waiting", "chunked", "sent", "inflight"}
                          => Arrived(r)
      /\ \A m \in toD : dq[m[1]] \notin {"new", "prealloc"}
      /\ toD \subseteq Req \X {Failed, Success} /\ toP \in [Req -> Info]
  BY DEF Traffic, Indices, NetTypes
<1>1. CASE DecodeNext
  <2>1. UNCHANGED <<infos, pq>>
    BY <1>1, DecodeFrame
  <2> QED BY <1>0, <1>1, <2>1, DecodeMoves DEF Indices, Arrived
<1>2. CASE PrefillNext
  <2>1. UNCHANGED dq
    BY <1>2, PrefillFrame
  <2>2. ASSUME NEW r \in Req
        PROVE  /\ toP'[r] # NoInfo => dq'[r] \notin {"new", "prealloc"}
               /\ infos'[r] # NoInfo \/ pq'[r] \in {"waiting", "chunked", "sent", "inflight"}
                    => Arrived(r)'
    <3>1. pq[r] = "bootstrap" /\ Bootstrapped(r) => infos[r] # NoInfo
      BY DEF Senders, SenderOK, Bootstrapped, Poll, None, Failed, Bootstrapping, WaitingForInput
    <3> QED BY <1>0, <1>2, <2>1, <3>1, PrefillMoves DEF Arrived
  <2>3. ASSUME NEW m \in toD' PROVE dq'[m[1]] \notin {"new", "prealloc"}
    <3>1. WorkerReport => \E v : toD' \subseteq toD \cup {<<wk.c.room, v>>}
      BY WorkerReportIs
    <3>2. toD' \subseteq toD \/ WorkerReport
      BY <1>2, QuietSteps
      DEF PrefillNext, PrefillLoop, Worker, net, PrefillAdd, BootstrapTimeout, PopFailed,
          PopBootstrapped, PrefillFirstChunk, ProcessPrefillChunk, PrefillLastChunk,
          ProcessInflight, AbortPrefill, BootstrapThread, WorkerGet, WorkerSendKV, WorkerSendAux,
          WorkerCheck
    <3>3. WorkerReport => dq[wk.c.room] \notin {"new", "prealloc"}
      BY DEF WorkerReport, Updating, Traffic, WorkerOK, Arrived
    <3> QED BY <1>0, <2>1, <3>1, <3>2, <3>3
  <2> QED BY <2>2, <2>3 DEF Indices
<1>3. CASE PrefillCrash
  <2>1. /\ infos' = [r \in Req |-> NoInfo] /\ toP' = [r \in Req |-> NoInfo]
        /\ pq' = [r \in Req |-> "done"] /\ UNCHANGED <<dq, toD>>
    BY <1>3 DEF PrefillCrash, decode
  <2> QED BY <1>0, <2>1 DEF Indices
<1>4. CASE LoseMessage
  <2>1. UNCHANGED <<infos, pq, dq>>
    BY <1>4, LoseFrame
  <2>2. toD' \subseteq toD /\ \A r \in Req : toP'[r] = toP[r] \/ toP'[r] = NoInfo
    BY <1>0, <1>4 DEF LoseMessage
  <2> QED BY <1>0, <2>1, <2>2 DEF Indices, Arrived
<1> QED BY <1>1, <1>2, <1>3, <1>4 DEF Next, Step

\* A chunk is queued with the page just computed, unless its room has failed or has
\* no destination.
LEMMA Sends ==
  ASSUME DisaggInv, NEW r \in Req, ProcessPrefillChunk(r) \/ PrefillLastChunk(r)
  PROVE  \E k \in {1, 2} :
           /\ k = Len(ppages'[r]) /\ ppages'[r] \in Seq(Page)
           /\ pq' = [pq EXCEPT ![r] = IF k = Chunks(r) THEN "inflight" ELSE "sent"]
           /\ \/ pq[r] = "waiting" /\ k = 1 /\ Chunks(r) = 1
              \/ pq[r] = "chunked" /\ k = 1 /\ Chunks(r) = 2
              \/ pq[r] = "sent" /\ k = 2 /\ Chunks(r) = 2
           /\ NewChunk(r, k, ppages'[r]) \in Chunk
           /\ xq' = IF pstatus[r] \in {NoRoom, Failed} \/ infos[r] = NoInfo THEN xq
                    ELSE Append(xq, NewChunk(r, k, ppages'[r]))
           /\ UNCHANGED <<pconc, pmeta, pstatus, infos, wk, broken, alive, toP, toD, cut>>
<1>0. /\ scen \in Scenarios /\ pmeta \in [Req -> Nat] /\ xq \in Seq(Chunk) /\ PrefillTypes
      /\ ppages \in [Req -> Seq(Page)] /\ PrefillPages /\ Computed
  BY DEF DisaggInv, PrefillTypes, NetTypes, PrefillPages
<1>f. UNCHANGED <<pconc, pmeta, pstatus, infos, wk, broken, alive, toP, toD, cut>>
  BY DEF ProcessPrefillChunk, PrefillLastChunk, net, answers
<1>1. CASE ProcessPrefillChunk(r)
  <2>1. /\ pq[r] = "chunked" /\ pq' = [pq EXCEPT ![r] = "sent"] /\ SendKVChunk(r, 1, ppages'[r])
        /\ ppages' = ppages
    BY <1>1 DEF ProcessPrefillChunk
  <2>2. 1 = Len(ppages'[r]) /\ Chunks(r) = 2 /\ ppages'[r] \in Seq(Page)
    BY <1>0, <2>1 DEF PrefillPages
  <2> DEFINE k == 1
  <2>a. k \in {1, 2} /\ k = Len(ppages'[r])
    BY <2>2
  <2>b. SendKVChunk(r, k, ppages'[r])
    BY <2>1
  <2> HIDE DEF k
  <2>3. k \in {1, 2} /\ k <= Len(ppages'[r]) /\ SendKVChunk(r, k, ppages'[r])
    BY <2>a, <2>b
  <2>4. /\ NewChunk(r, k, ppages'[r]) \in Chunk
        /\ xq' = IF pstatus[r] \in {NoRoom, Failed} \/ infos[r] = NoInfo THEN xq
                 ELSE Append(xq, NewChunk(r, k, ppages'[r]))
    BY <1>0, <2>2, <2>3, SendKVChunkIs
  <2>5. k = 1
    BY DEF k
  <2>6. k # Chunks(r)
    BY <2>2, <2>5
  <2> QED BY <1>f, <2>1, <2>2, <2>3, <2>4, <2>5, <2>6
<1>2. CASE PrefillLastChunk(r)
  <2>1. /\ pq[r] = "sent" \/ (pq[r] = "waiting" /\ Chunks(r) = 1)
        /\ pq' = [pq EXCEPT ![r] = "inflight"] /\ Compute(r, Chunks(r))
        /\ SendKVChunk(r, Chunks(r), ppages'[r])
    BY <1>2 DEF PrefillLastChunk
  <2>2. Chunks(r) = Len(ppages[r]) + 1
    BY <1>0, <2>1, NextPage
  <2>3. ppages'[r] \in Seq(Page) /\ Len(ppages'[r]) = Len(ppages[r]) + 1
    BY <1>0, <2>1, <2>2, ComputePages
  <2> DEFINE k == Chunks(r)
  <2>4. /\ k \in {1, 2} /\ k = Len(ppages'[r]) /\ SendKVChunk(r, k, ppages'[r])
        /\ pq[r] = "sent" => k = 2
    BY <1>0, <2>1, <2>2, <2>3, ScenarioFacts DEF PrefillPages
  <2> HIDE DEF k
  <2>5. k <= Len(ppages'[r])
    BY <2>4
  <2>6. /\ NewChunk(r, k, ppages'[r]) \in Chunk
        /\ xq' = IF pstatus[r] \in {NoRoom, Failed} \/ infos[r] = NoInfo THEN xq
                 ELSE Append(xq, NewChunk(r, k, ppages'[r]))
    BY <1>0, <2>3, <2>4, <2>5, SendKVChunkIs
  <2>7. k = Chunks(r)
    BY DEF k
  <2> QED BY <1>f, <2>1, <2>3, <2>4, <2>6, <2>7
<1> QED BY <1>1, <1>2

\* What a step of the prefill server does to request_status.
LEMMA StatusMoves ==
  ASSUME DisaggInv, PrefillNext, NEW r \in Req
  PROVE  \/ pstatus'[r] = pstatus[r]
         \/ AbortSender(r) /\ pstatus'[r] = IF pstatus[r] = NoRoom THEN NoRoom ELSE Failed
         \/ pstatus'[r] = NoRoom /\ pq'[r] = "done" /\ infos'[r] = NoInfo
         \/ pq[r] = "new" /\ pq'[r] = "bootstrap"
         \/ BootstrapUpdate /\ Handling(bt, r)
         \/ WorkerReport /\ wk.stage = "store" /\ wk.c.room = r /\ pstatus'[r] = wk.val
<1>0. /\ pq \in [Req -> {"new", "bootstrap", "waiting", "chunked", "sent", "inflight", "done"}]
      /\ pstatus \in [Req -> Statuses] /\ infos \in [Req -> Info]
  BY DEF DisaggInv, PrefillTypes
<1>1. ASSUME NEW q \in Req, NEW s \in Statuses \ {NoRoom}, pstatus' = UpdateStatus(pstatus, q, s)
      PROVE  /\ r # q => pstatus'[r] = pstatus[r]
             /\ s = Failed /\ r = q => pstatus'[r] = IF pstatus[r] = NoRoom THEN NoRoom ELSE Failed
  BY <1>0, <1>1, UpdateStatusIs
<1>2. /\ \A q \in Req : PrefillAdd(q) => /\ \/ pstatus' = UpdateStatus(pstatus, q, Bootstrapping)
                                            \/ pstatus' = [pstatus EXCEPT ![q] = Bootstrapping]
                                         /\ pq[q] = "new" /\ pq' = [pq EXCEPT ![q] = "bootstrap"]
      /\ \A q \in Req : AbortPrefill(q) =>
           pstatus' = pstatus \/ (AbortSender(q) /\ pstatus' = UpdateStatus(pstatus, q, Failed))
      /\ \A q \in Req : PopFailed(q) \/ ProcessInflight(q) =>
                          /\ pstatus' = [pstatus EXCEPT ![q] = NoRoom]
                          /\ pq' = [pq EXCEPT ![q] = "done"] /\ infos' = [infos EXCEPT ![q] = NoInfo]
  BY DEF PrefillAdd, AbortPrefill, AbortQueued, AbortSender, PopFailed, ProcessInflight,
         ClearSender, PrefillLeave
<1>3. \/ pstatus' = pstatus
      \/ \E q \in Req : PrefillAdd(q) \/ AbortPrefill(q) \/ PopFailed(q) \/ ProcessInflight(q)
      \/ BootstrapUpdate \/ WorkerReport
  BY DEF PrefillNext, PrefillLoop, Worker, prefillMgr, BootstrapTimeout, PopBootstrapped,
         PrefillFirstChunk, ProcessPrefillChunk, PrefillLastChunk, BootstrapThread, WorkerGet,
         WorkerLook, WorkerSendKV, WorkerSendAux, WorkerCheck
<1>4. CASE \E q \in Req : PrefillAdd(q)
  <2>1. PICK q \in Req : PrefillAdd(q)
    BY <1>4
  <2>2. CASE r = q
    BY <1>0, <1>2, <2>1, <2>2
  <2>3. CASE r # q
    BY <1>0, <1>1, <1>2, <2>1, <2>3, StatusesKnown
  <2> QED BY <2>2, <2>3
<1>5. CASE \E q \in Req : AbortPrefill(q) \/ PopFailed(q) \/ ProcessInflight(q)
  BY <1>0, <1>1, <1>2, <1>5, StatusesKnown
<1>6. CASE BootstrapUpdate
  <2>1. /\ bt.room \in Req /\ Handling(bt, bt.room)
        /\ pstatus' = pstatus \/ pstatus' = [pstatus EXCEPT ![bt.room] = bt.val]
    BY <1>6, BootstrapUpdateIs DEF DisaggInv, Threads
  <2> QED BY <1>0, <1>6, <2>1
<1>7. CASE WorkerReport
  <2>1. /\ wk.c.room \in Req
        /\ \/ pstatus' = pstatus
           \/ wk.stage = "store" /\ pstatus' = [pstatus EXCEPT ![wk.c.room] = wk.val]
    BY <1>7, WorkerReportIs DEF DisaggInv
  <2> QED BY <1>0, <1>7, <2>1
<1> QED BY <1>3, <1>4, <1>5, <1>6, <1>7

\* A chunk that is still outstanding keeps its room as it must be.
LEMMA ChunkKept ==
  ASSUME DisaggInv, Next, NEW c \in Chunk, Outstanding(c), Outstanding(c)'
  PROVE  ChunkOK(c)'
<1>0. /\ c.room \in Req /\ ChunkOK(c) /\ Chunks(c.room)' = Chunks(c.room)
  BY DEF DisaggInv, Traffic, Queued, Chunk, Next, Chunks
<1>1. CASE DecodeNext
  <2>1. UNCHANGED <<pq, pstatus>>
    BY <1>1, DecodeFrame
  <2> QED BY <1>0, <1>1, <2>1, DecodeMoves DEF ChunkOK, Arrived
<1>2. CASE PrefillNext
  <2>1. UNCHANGED dq
    BY <1>2, PrefillFrame
  <2> QED BY <1>0, <1>2, <2>1, PrefillMoves DEF ChunkOK, Arrived
<1>3. CASE PrefillCrash
  <2>1. xq' = <<>> /\ wk' = Idle
    BY <1>3 DEF PrefillCrash
  <2>2. ~Outstanding(c)'
    BY <2>1 DEF Outstanding, InHand, Idle, Range
  <2> QED BY <2>2
<1>4. CASE LoseMessage
  <2>1. UNCHANGED <<pq, dq, pstatus>>
    BY <1>4, LoseFrame
  <2>2. \A r \in Req : toP'[r] = toP[r] \/ toP'[r] = NoInfo
    BY <1>4 DEF LoseMessage, DisaggInv, NetTypes
  <2> QED BY <1>0, <2>1, <2>2 DEF ChunkOK, Arrived
<1> QED BY <1>1, <1>2, <1>3, <1>4 DEF Next, Step

\* Who touches the transfer queue and the transfer thread.
LEMMA QueueMoves ==
  ASSUME DisaggInv, Next
  PROVE  \/ /\ UNCHANGED xq
            /\ InHand' => InHand /\ wk'.c = wk.c
            /\ Untold' => Untold /\ wk'.c = wk.c
         \/ \E r \in Req : ProcessPrefillChunk(r) \/ PrefillLastChunk(r)
         \/ WorkerGet
         \/ PrefillCrash
<1>1. CASE UNCHANGED <<xq, wk>>
  BY <1>1 DEF InHand, Untold
<1>2. CASE WorkerLook \/ WorkerSendKV \/ WorkerSendAux
  <2>1. wk \in WorkerState /\ wk.stage \in {"found", "kv", "aux"}
    BY <1>2, WorkerRooms DEF WorkerLook, WorkerSendKV, WorkerSendAux, DisaggInv
  <2> QED BY <1>2, <2>1
          DEF WorkerLook, WorkerSendKV, WorkerSendAux, Reporting, InHand, Untold, WorkerState
<1>5. CASE WorkerReport
  <2>1. UNCHANGED xq
    BY <1>5, QuietSteps
  <2> QED BY <1>5, <2>1, WorkerReportIs DEF DisaggInv, InHand, Untold, WorkerState
<1>6. CASE BootstrapUpdate
  BY <1>1, <1>6 DEF BootstrapUpdate
<1>3. CASE WorkerCheck
  <2>1. UNCHANGED xq /\ wk.stage # "idle"
    BY <1>3 DEF WorkerCheck
  <2>2. wk \in WorkerState
    BY <2>1, WorkerRooms DEF DisaggInv
  <2>3. ~InHand' /\ ~Untold'
    BY <1>3, <2>2 DEF WorkerCheck, InHand, Untold, WorkerState, Idle
  <2> QED BY <2>1, <2>3
<1>4. CASE PrefillNext
  BY <1>1, <1>2, <1>3, <1>4, <1>5, <1>6
  DEF PrefillNext, PrefillLoop, Worker, prefillMgr, PrefillAdd, BootstrapTimeout, PopFailed,
      PopBootstrapped, PrefillFirstChunk, ProcessInflight, AbortPrefill, BootstrapThread
<1> QED BY <1>1, <1>4, DecodeFrame, LoseFrame DEF Next, Step

\* The invariant keeps the order of the chunks.
LEMMA QueuedStep ==
  ASSUME DisaggInv, Next
  PROVE  Queued'
<1>0. /\ xq \in Seq(Chunk) /\ DOMAIN xq = 1 .. Len(xq) /\ Len(xq) \in Nat
      /\ \A c \in Chunk : Outstanding(c) => ChunkOK(c)
      /\ \A i, j \in 1 .. Len(xq) : i < j /\ xq[i].room = xq[j].room => ~xq[i].last
      /\ Untold /\ wk.c.last => \A i \in 1 .. Len(xq) : xq[i].room # wk.c.room
  BY LenProperties DEF DisaggInv, PrefillTypes, Traffic, Queued
<1>1. CASE /\ UNCHANGED xq
           /\ InHand' => InHand /\ wk'.c = wk.c
           /\ Untold' => Untold /\ wk'.c = wk.c
  <2>1. \A c \in Chunk : Outstanding(c)' => Outstanding(c)
    BY <1>1 DEF Outstanding
  <2>2. \A c \in Chunk : Outstanding(c)' => ChunkOK(c)'
    BY <2>1, ChunkKept
  <2> QED BY <1>0, <1>1, <2>2 DEF Queued
<1>2. ASSUME NEW r \in Req, ProcessPrefillChunk(r) \/ PrefillLastChunk(r)
      PROVE  Queued'
  <2>1. PICK k \in {1, 2} :
           /\ k = Len(ppages'[r]) /\ ppages'[r] \in Seq(Page)
           /\ pq' = [pq EXCEPT ![r] = IF k = Chunks(r) THEN "inflight" ELSE "sent"]
           /\ \/ pq[r] = "waiting" /\ k = 1 /\ Chunks(r) = 1
              \/ pq[r] = "chunked" /\ k = 1 /\ Chunks(r) = 2
              \/ pq[r] = "sent" /\ k = 2 /\ Chunks(r) = 2
           /\ NewChunk(r, k, ppages'[r]) \in Chunk
           /\ xq' = IF pstatus[r] \in {NoRoom, Failed} \/ infos[r] = NoInfo THEN xq
                    ELSE Append(xq, NewChunk(r, k, ppages'[r]))
           /\ UNCHANGED <<pconc, pmeta, pstatus, infos, wk, broken, alive, toP, toD, cut>>
    BY <1>2, Sends
  <2>2. CASE xq' = xq
    BY <1>1, <2>1, <2>2 DEF InHand, Untold
  <2>a. PICK e \in Chunk : e = NewChunk(r, k, ppages'[r])
    BY <2>1
  <2>3. CASE xq' = Append(xq, e) /\ infos[r] # NoInfo
    <3>1. e.room = r /\ e.k = k /\ e.last = (k = Chunks(r))
      BY <2>a DEF NewChunk
    <3>2. /\ xq' \in Seq(Chunk) /\ Len(xq') = Len(xq) + 1 /\ Range(xq') = Range(xq) \cup {e}
          /\ \A i \in 1 .. Len(xq) : xq'[i] = xq[i]
          /\ xq'[Len(xq) + 1] = e
      BY <1>0, <2>3, <3>1, AppendRange, AppendProperties
    <3>3. \A c \in Chunk : Outstanding(c)' => Outstanding(c) \/ c = e
      BY <2>1, <3>2 DEF Outstanding, InHand
    <3>4. ChunkOK(e)'
      <4>1. Arrived(r)' /\ pq'[r] \in {"sent", "inflight"} /\ (e.last => pq'[r] = "inflight")
        <5>1. Arrived(r)
          BY <2>3 DEF DisaggInv, Traffic, Indices
        <5>2. dq' = dq
          BY <1>2 DEF ProcessPrefillChunk, PrefillLastChunk, decode
        <5>3. pq \in [Req -> {"new", "bootstrap", "waiting", "chunked", "sent", "inflight", "done"}]
          BY DEF DisaggInv, PrefillTypes
        <5> QED BY <2>1, <3>1, <5>1, <5>2, <5>3 DEF Arrived
      <4>2. Chunks(r)' = Chunks(r)
        BY DEF Next, Chunks
      <4>3. (e.last <=> e.k = Chunks(r)) /\ e.k <= Chunks(r)
        <5>1. k = Chunks(r) \/ (k = 1 /\ Chunks(r) = 2)
          BY <2>1
        <5>2. k <= Chunks(r)
          BY <5>1
        <5> QED BY <3>1, <5>2
      <4> QED BY <3>1, <4>1, <4>2, <4>3 DEF ChunkOK
    <3>5. \A c \in Chunk : Outstanding(c)' => ChunkOK(c)'
      BY <3>3, <3>4, ChunkKept
    <3>6. ASSUME NEW c \in Chunk, Outstanding(c), c.room = r PROVE ~c.last
      BY <1>0, <2>1, <3>6 DEF ChunkOK
    <3>7. ASSUME NEW i \in 1 .. Len(xq'), NEW j \in 1 .. Len(xq'), i < j,
                 xq'[i].room = xq'[j].room
          PROVE  ~xq'[i].last
      <4> DEFINE n == Len(xq)
      <4>a. n \in Nat /\ i \in 1 .. n + 1 /\ j \in 1 .. n + 1
        BY <1>0, <3>2
      <4> HIDE DEF n
      <4>b. i \in 1 .. n /\ (j \in 1 .. n \/ j = n + 1)
        BY <3>7, <4>a
      <4>1. i \in 1 .. Len(xq) /\ xq'[i] = xq[i] /\ (j \in 1 .. Len(xq) \/ j = Len(xq) + 1)
        BY <3>2, <4>b DEF n
      <4>2. CASE j \in 1 .. Len(xq)
        BY <1>0, <3>2, <3>7, <4>1, <4>2
      <4>3. CASE j = Len(xq) + 1
        <5>1. xq[i] \in Chunk /\ Outstanding(xq[i])
          BY <1>0, <4>1, ElementOfSeq DEF Outstanding, Range
        <5> QED BY <3>1, <3>2, <3>6, <3>7, <4>1, <4>3, <5>1
      <4> QED BY <4>1, <4>2, <4>3
    <3>8. ASSUME Untold', wk'.c.last, NEW i \in 1 .. Len(xq') PROVE xq'[i].room # wk'.c.room
      <4>1. Untold /\ wk.c.last /\ wk'.c = wk.c
        BY <2>1, <3>8 DEF InHand, Untold
      <4>2. /\ wk.c \in Chunk /\ (InHand => Outstanding(wk.c))
            /\ wk.stage = "tell" => pq[wk.c.room] \in {"inflight", "done"}
        BY <4>1, WorkerRooms DEF DisaggInv, Traffic, WorkerOK, InHand, Untold
      <4>3. wk.c.room # r
        BY <2>1, <3>6, <4>1, <4>2 DEF Untold
      <4>4. i \in 1 .. Len(xq) \/ i = Len(xq) + 1
        BY <1>0, <3>2
      <4> QED BY <1>0, <3>1, <3>2, <4>1, <4>3, <4>4
    <3> QED BY <3>5, <3>7, <3>8 DEF Queued
  <2> QED BY <2>1, <2>2, <2>3, <2>a
<1>3. CASE WorkerGet
  <2>1. xq # <<>> /\ xq' = Tail(xq) /\ (InHand' \/ Untold' => wk'.c = Head(xq))
    BY <1>3 DEF WorkerGet, InHand, Untold
  <2>2. /\ Len(xq') = Len(xq) - 1 /\ Range(xq) = Range(xq') \cup {Head(xq)}
        /\ Head(xq) = xq[1] /\ \A i \in 1 .. Len(xq) - 1 : xq'[i] = xq[i + 1]
    BY <1>0, <2>1, TailRange, HeadTailProperties
  <2>3. \A c \in Chunk : Outstanding(c)' => Outstanding(c)
    BY <2>1, <2>2 DEF Outstanding
  <2>4. \A c \in Chunk : Outstanding(c)' => ChunkOK(c)'
    BY <2>3, ChunkKept
  <2>5. ASSUME NEW i \in 1 .. Len(xq'), NEW j \in 1 .. Len(xq'), i < j,
               xq'[i].room = xq'[j].room
        PROVE  ~xq'[i].last
    <3>1. i + 1 \in 1 .. Len(xq) /\ j + 1 \in 1 .. Len(xq) /\ i + 1 < j + 1
      BY <1>0, <2>2, <2>5
    <3>2. xq'[i] = xq[i + 1] /\ xq'[j] = xq[j + 1]
      BY <2>2
    <3> QED BY <1>0, <2>5, <3>1, <3>2
  <2>6. ASSUME Untold', wk'.c.last, NEW i \in 1 .. Len(xq') PROVE xq'[i].room # wk'.c.room
    <3>1. i + 1 \in 1 .. Len(xq) /\ 1 \in 1 .. Len(xq) /\ 1 < i + 1
      BY <1>0, <2>2
    <3>2. xq'[i] = xq[i + 1] /\ wk'.c = xq[1]
      BY <2>1, <2>2, <2>6
    <3> QED BY <1>0, <2>6, <3>1, <3>2
  <2> QED BY <2>4, <2>5, <2>6 DEF Queued
<1>4. CASE PrefillCrash
  <2>1. xq' = <<>> /\ wk' = Idle
    BY <1>4 DEF PrefillCrash
  <2>2. Len(xq') = 0 /\ ~Untold' /\ \A c \in Chunk : ~Outstanding(c)'
    BY <2>1, EmptySeq DEF Outstanding, InHand, Untold, Idle, Range
  <2> QED BY <2>2 DEF Queued
<1> QED BY <1>1, <1>2, <1>3, <1>4, QueueMoves

\* The steps of the prefill server that are not the transfer thread's.
LEMMA ThreadFrame ==
  ASSUME PrefillNext
  PROVE  /\ alive /\ UNCHANGED alive
         /\ Worker \/ UNCHANGED <<wk, broken, toD, dbuf, dkv>>
BY DEF PrefillNext, PrefillLoop, Worker, prefillMgr, memory, net, PrefillAdd, BootstrapTimeout,
       PopFailed, PopBootstrapped, PrefillFirstChunk, ProcessPrefillChunk, PrefillLastChunk,
       ProcessInflight, AbortPrefill, BootstrapThread, BootstrapUpdate, WorkerGet, WorkerLook,
       WorkerReport, WorkerSendKV, WorkerSendAux, WorkerCheck

\* A room that has reached the transfer thread stays known, and so does its end.
LEMMA RoomKept ==
  ASSUME DisaggInv, Next, ~PrefillCrash, NEW r \in Req, Arrived(r),
         pq[r] \in {"sent", "inflight", "done"}
  PROVE  /\ Arrived(r)' /\ pq'[r] \in {"sent", "inflight", "done"}
         /\ pq[r] = "done" => pq'[r] = "done"
         /\ pq[r] \in {"inflight", "done"} => pq'[r] \in {"inflight", "done"}
         /\ \/ pq'[r] = "done"
            \/ pstatus'[r] = pstatus[r]
            \/ pstatus'[r] \in {Failed, Success}
            \/ pstatus[r] = NoRoom
<1>1. CASE DecodeNext
  <2>1. UNCHANGED <<pq, pstatus>>
    BY <1>1, DecodeFrame
  <2> QED BY <1>1, <2>1, DecodeMoves DEF Arrived
<1>2. CASE PrefillNext
  <2>1. UNCHANGED dq
    BY <1>2, PrefillFrame
  <2>a. WorkerReport => wk.val \in {Failed, Success}
    BY WorkerReportIs DEF DisaggInv, WorkerState
  <2>b. Handling(bt, r) => pq[r] = "done"
    BY DEF DisaggInv, Threads, BootstrapOK
  <2>2. \/ pstatus'[r] = pstatus[r]
        \/ pstatus'[r] = IF pstatus[r] = NoRoom THEN NoRoom ELSE Failed
        \/ pq'[r] = "done"
        \/ pq[r] = "done"
        \/ pstatus'[r] \in {Failed, Success}
    BY <1>2, <2>a, <2>b, StatusMoves
  <2>3. /\ toP'[r] = toP[r] \/ toP'[r] = NoInfo
        /\ \/ pq'[r] = pq[r]
           \/ pq[r] = "sent" /\ pq'[r] = "inflight"
           \/ pq[r] = "inflight" /\ pq'[r] = "done"
    BY <1>2, PrefillMoves
  <2> QED BY <2>1, <2>2, <2>3 DEF Arrived
<1>3. CASE LoseMessage
  <2>1. UNCHANGED <<pq, dq, pstatus>>
    BY <1>3, LoseFrame
  <2>2. toP'[r] = toP[r] \/ toP'[r] = NoInfo
    BY <1>3 DEF LoseMessage, DisaggInv, NetTypes
  <2> QED BY <2>1, <2>2 DEF Arrived
<1> QED BY <1>1, <1>2, <1>3 DEF Next, Step

\* The invariant keeps what the transfer thread relies on.
LEMMA WorkerOKStep ==
  ASSUME DisaggInv, Next
  PROVE  WorkerOK'
<1> DEFINE Over(r) == \/ pq[r] = "done"
                      \/ pq[r] = "inflight" /\ pstatus[r] \in {Failed, Success}
<1>0. /\ wk.stage = "aux" => wk.c.last
      /\ wk.stage \in {"test", "read", "store", "tell"} /\ (wk.val = Success \/ ~broken) => wk.c.last
      /\ wk.stage = "read" => wk.val = Success
      /\ wk.stage = "tell" /\ wk.c.last => pq[wk.c.room] \in {"inflight", "done"}
      /\ wk.stage # "idle" => /\ wk \in WorkerState /\ wk.c.room \in Req
                              /\ Arrived(wk.c.room) /\ pq[wk.c.room] \in {"sent", "inflight", "done"}
      /\ wk.stage \in {"in_infos", "pop"} => Over(wk.c.room)
      /\ broken => wk.stage \notin {"kv", "aux"}
  BY WorkerRooms DEF DisaggInv, Traffic, WorkerOK
<1>1. CASE PrefillCrash
  BY <1>1 DEF PrefillCrash, WorkerOK, Idle
<1>2. ASSUME ~PrefillCrash, NEW r \in Req, Arrived(r), pq[r] \in {"sent", "inflight", "done"}
      PROVE  /\ Arrived(r)' /\ pq'[r] \in {"sent", "inflight", "done"}
             /\ pq[r] \in {"inflight", "done"} => pq'[r] \in {"inflight", "done"}
             /\ Over(r) => Over(r)'
  BY <1>2, RoomKept DEF Failed, Success, NoRoom
<1>3. CASE UNCHANGED <<wk, broken>> /\ ~PrefillCrash
  <2>1. CASE wk.stage = "idle"
    BY <1>3, <2>1 DEF WorkerOK
  <2>2. CASE wk.stage # "idle"
    <3>1. PICK r \in Req : r = wk.c.room
      BY <1>0, <2>2
    <3>2. /\ Arrived(r)' /\ pq'[r] \in {"sent", "inflight", "done"}
          /\ pq[r] \in {"inflight", "done"} => pq'[r] \in {"inflight", "done"}
          /\ Over(r) => Over(r)'
      BY <1>0, <1>2, <1>3, <2>2, <3>1
    <3>3. wk'.c.room = r
      BY <1>3, <3>1
    <3> QED BY <1>0, <1>3, <3>1, <3>2, <3>3 DEF WorkerOK
  <2> QED BY <2>1, <2>2
<1>4. CASE WorkerGet
  <2>1. xq # <<>> /\ UNCHANGED <<pq, dq, toP, broken>>
    BY <1>4 DEF WorkerGet, prefill, decode, net
  <2>2. wk'.c = Head(xq) /\ wk'.stage \in {"check", "found"}
    BY <1>4 DEF WorkerGet, Idle
  <2>3. ChunkOK(Head(xq))
    BY <2>1, WorkerRooms DEF DisaggInv, Traffic, Queued
  <2>4. (Arrived(wk.c.room) /\ pq[wk.c.room] \in {"sent", "inflight", "done"})'
    BY <2>1, <2>2, <2>3 DEF ChunkOK, Arrived
  <2> QED BY <2>1, <2>2, <2>4 DEF WorkerOK
<1>a. CASE WorkerLook
  <2>1. /\ wk.stage = "found" /\ wk'.c = wk.c
        /\ \/ wk'.stage = "dead"
           \/ broken /\ wk'.stage = "test" /\ wk'.val = Failed
           \/ ~broken /\ wk'.stage = "kv"
    BY <1>0, <1>a DEF WorkerLook, Reporting, WorkerState
  <2>2. UNCHANGED <<pq, dq, toP, broken>>
    BY <1>a DEF WorkerLook, prefill, decode, net
  <2> QED BY <1>0, <2>1, <2>2 DEF WorkerOK, Arrived, Failed, Success
<1>5. CASE WorkerSendKV
  <2>1. /\ wk.stage = "kv" /\ ~broken /\ wk'.c = wk.c
        /\ \/ wk'.stage = "check" /\ broken' = broken
           \/ wk'.stage = "aux" /\ wk.c.last /\ broken' = broken
           \/ wk'.stage = "test" /\ wk'.val = Failed /\ broken' = TRUE
    BY <1>0, <1>5 DEF WorkerSendKV, Reporting, WorkerState
  <2>2. UNCHANGED <<pq, dq, toP>>
    BY <1>5 DEF WorkerSendKV, prefill, decode, net
  <2> QED BY <1>0, <2>1, <2>2 DEF WorkerOK, Arrived, Failed, Success
<1>6. CASE WorkerSendAux
  <2>1. wk.stage = "aux" /\ wk'.c = wk.c /\ wk'.stage = "test" /\ wk.c.last
    BY <1>0, <1>6 DEF WorkerSendAux, Reporting, WorkerState
  <2>2. UNCHANGED <<pq, dq, toP, broken>>
    BY <1>6 DEF WorkerSendAux, prefill, decode, net
  <2> QED BY <1>0, <2>1, <2>2 DEF WorkerOK, Arrived
<1>b. CASE WorkerReport
  <2>1. UNCHANGED <<pq, dq, toP, broken>>
    BY <1>b, QuietSteps DEF prefill, decode
  <2>2. /\ wk.stage \in {"test", "read", "store", "tell"} /\ wk'.c = wk.c /\ wk'.val = wk.val
        /\ \/ wk'.stage = "tell" /\ wk.stage \in {"test", "read", "store"}
           \/ wk'.stage = "read" /\ wk.val = Success
           \/ wk'.stage \in {"store", "check", "dead"}
        /\ wk'.stage = "store" => wk.stage \in {"test", "read"}
    BY <1>b, WorkerReportIs DEF DisaggInv, WorkerState
  <2>3. wk.stage \in {"test", "read", "store"} /\ wk.c.last => pq[wk.c.room] \in {"inflight", "done"}
    BY WorkerRooms DEF DisaggInv, InHand, Traffic, Queued, ChunkOK
  <2> QED BY <1>0, <2>1, <2>2, <2>3 DEF WorkerOK, Arrived
<1>7. CASE WorkerCheck
  <2>1. UNCHANGED <<pq, dq, toP, pstatus, broken>> /\ wk.stage \in {"check", "status", "in_infos", "pop"}
    BY <1>7 DEF WorkerCheck, prefill, decode, net
  <2>2. \/ wk' = Idle
        \/ /\ wk'.c = wk.c /\ wk'.stage \in {"status", "dead", "in_infos", "pop"}
           /\ wk'.stage \in {"in_infos", "pop"} =>
                \/ wk.stage = "in_infos"
                \/ pstatus[wk.c.room] \in {NoRoom, Success}
    BY <1>0, <1>7, <2>1 DEF WorkerCheck, WorkerState
  <2>3. pstatus[wk.c.room] \in {NoRoom, Success} => Over(wk.c.room)
    <3>1. wk.c.room \in Req /\ pq[wk.c.room] \in {"sent", "inflight", "done"}
      BY <1>0, <2>1
    <3> QED BY <3>1 DEF DisaggInv, Senders, SenderOK, NoRoom, Failed, WaitingForInput, Success
  <2>4. CASE wk' = Idle
    BY <2>4 DEF WorkerOK, Idle
  <2>5. CASE wk' # Idle
    <3>1. wk'.stage \in {"in_infos", "pop"} => Over(wk.c.room)
      BY <1>0, <2>2, <2>3, <2>5
    <3> QED BY <1>0, <2>1, <2>2, <2>5, <3>1 DEF WorkerOK, Arrived
  <2> QED BY <2>4, <2>5
<1>8. CASE DecodeNext \/ LoseMessage
  <2>1. UNCHANGED <<wk, broken, alive>>
    BY <1>8, DecodeFrame, LoseFrame
  <2>2. ~PrefillCrash
    BY <2>1 DEF PrefillCrash
  <2> QED BY <1>3, <2>1, <2>2
<1>9. CASE PrefillNext
  <2>1. ~PrefillCrash
    BY <1>9, ThreadFrame DEF PrefillCrash
  <2> QED BY <1>3, <1>4, <1>5, <1>6, <1>7, <1>9, <1>a, <1>b, <2>1, ThreadFrame DEF Worker
<1> QED BY <1>1, <1>8, <1>9 DEF Next, Step

\* The last chunk of a room that still waits stays outstanding.
LEMMA LastStays ==
  ASSUME DisaggInv, PrefillNext, NEW r \in Req, pq[r] = "inflight",
         pstatus[r] = WaitingForInput, pstatus'[r] = WaitingForInput,
         NEW c \in Chunk, Outstanding(c), c.room = r, c.last
  PROVE  Outstanding(c)'
<1>0. /\ xq \in Seq(Chunk) /\ infos[r] # NoInfo /\ pstatus \in [Req -> Statuses]
      /\ wk.stage # "idle" => wk \in WorkerState /\ wk.c.room \in Req
  BY WorkerRooms DEF DisaggInv, PrefillTypes, Senders, SenderOK
<1>1. CASE WorkerGet
  <2>1. xq # <<>> /\ xq' = Tail(xq) /\ wk.stage = "idle"
    BY <1>1 DEF WorkerGet
  <2>2. c \in Range(xq) /\ Range(xq) = Range(xq') \cup {Head(xq)}
    BY <1>0, <2>1, TailRange DEF Outstanding, InHand
  <2>3. CASE c = Head(xq)
    <3>1. wk'.stage = "found" /\ wk'.c = c
      BY <1>0, <1>1, <2>3 DEF WorkerGet, Idle
    <3> QED BY <3>1 DEF Outstanding, InHand
  <2> QED BY <2>2, <2>3 DEF Outstanding
<1>2. CASE WorkerLook \/ WorkerSendKV \/ WorkerSendAux
  <2>1. xq' = xq /\ wk.stage \in {"found", "kv", "aux"} /\ wk \in WorkerState
    BY <1>0, <1>2 DEF WorkerLook, WorkerSendKV, WorkerSendAux
  <2>2. CASE c = wk.c
    <3>1. wk'.c = c /\ wk'.stage \in {"kv", "aux", "test"}
      BY <1>0, <1>2, <2>1, <2>2
      DEF WorkerLook, WorkerSendKV, WorkerSendAux, Reporting, WorkerState
    <3> QED BY <3>1 DEF Outstanding, InHand
  <2> QED BY <2>1, <2>2 DEF Outstanding
<1>3. CASE WorkerReport
  <2>1. xq' = xq
    BY <1>3, QuietSteps
  <2>2. CASE c \in Range(xq)
    BY <2>1, <2>2 DEF Outstanding
  <2>3. CASE InHand /\ c = wk.c
    <3>1. wk \in WorkerState /\ wk.stage # "tell" /\ pstatus[wk.c.room] = WaitingForInput
      BY <1>0, <2>3 DEF InHand
    <3>2. wk.stage # "store"
      <4> SUFFICES ASSUME wk.stage = "store" PROVE FALSE
        OBVIOUS
      <4>1. pstatus' = [pstatus EXCEPT ![wk.c.room] = wk.val]
        BY <1>3, WorkerReportIs DEF DisaggInv
      <4> QED BY <1>0, <2>3, <3>1, <4>1 DEF WorkerState, Failed, Success, WaitingForInput
    <3>3. \E x \in {"read", "store"} : wk' = [wk EXCEPT !.stage = x]
      BY <1>3, <3>1, <3>2, WorkerReportIs DEF DisaggInv, NoRoom, WaitingForInput
    <3>4. wk'.c = c /\ wk'.stage \in {"read", "store"}
      BY <2>3, <3>1, <3>3 DEF WorkerState
    <3> QED BY <3>4 DEF Outstanding, InHand
  <2> QED BY <2>2, <2>3 DEF Outstanding
<1>4. CASE WorkerCheck
  <2>1. xq' = xq /\ ~InHand
    BY <1>4 DEF WorkerCheck, InHand
  <2> QED BY <2>1 DEF Outstanding
<1>5. CASE UNCHANGED <<xq, wk>>
  BY <1>5 DEF Outstanding, InHand
<1>6. ASSUME NEW q \in Req, ProcessPrefillChunk(q) \/ PrefillLastChunk(q)
      PROVE  Outstanding(c)'
  <2>1. PICK k \in {1, 2} :
           /\ NewChunk(q, k, ppages'[q]) \in Chunk
           /\ xq' = IF pstatus[q] \in {NoRoom, Failed} \/ infos[q] = NoInfo THEN xq
                    ELSE Append(xq, NewChunk(q, k, ppages'[q]))
           /\ UNCHANGED wk
    BY <1>6, Sends
  <2>2. Range(xq) \subseteq Range(xq')
    BY <1>0, <2>1, AppendRange
  <2> QED BY <2>1, <2>2 DEF Outstanding, InHand
<1>7. BootstrapUpdate => UNCHANGED <<xq, wk>>
  BY DEF BootstrapUpdate
<1> QED BY <1>1, <1>2, <1>3, <1>4, <1>5, <1>6, <1>7
        DEF PrefillNext, PrefillLoop, Worker, prefillMgr, PrefillAdd, BootstrapTimeout, PopFailed,
            PopBootstrapped, PrefillFirstChunk, ProcessInflight, AbortPrefill, BootstrapThread

\* A request that is sent and waits has waited before.
LEMMA StillWaiting ==
  ASSUME DisaggInv, PrefillNext, NEW r \in Req, pq[r] \in {"waiting", "chunked", "sent", "inflight"},
         pstatus'[r] = WaitingForInput
  PROVE  pstatus[r] = WaitingForInput
<1>1. WorkerReport => wk.val \in {Failed, Success}
  BY WorkerReportIs DEF DisaggInv, WorkerState
<1>2. ~Handling(bt, r)
  BY DEF DisaggInv, Threads, BootstrapOK
<1> QED BY <1>1, <1>2, StatusMoves DEF NoRoom, Failed, Success, WaitingForInput

\* The invariant keeps a last chunk for every request that waits for it.
LEMMA InFlightStep ==
  ASSUME DisaggInv, Next
  PROVE  InFlight'
<1>0. /\ ~alive => xq = <<>> /\ wk = Idle /\ \A r \in Req : pq[r] = "done"
      /\ \A r \in Req : pq[r] = "inflight" /\ pstatus[r] = WaitingForInput =>
           \E c \in Chunk : Outstanding(c) /\ c.room = r /\ c.last
  BY DEF DisaggInv, Traffic, InFlight
<1>1. CASE DecodeNext \/ LoseMessage
  <2>1. UNCHANGED <<alive, xq, wk, pq, pstatus>>
    BY <1>1, DecodeFrame, LoseFrame
  <2> QED BY <1>0, <2>1 DEF InFlight, Outstanding, InHand
<1>2. CASE PrefillCrash
  BY <1>2 DEF PrefillCrash, InFlight
<1>3. CASE PrefillNext
  <2>1. alive'
    BY <1>3, ThreadFrame
  <2>2. ASSUME NEW r \in Req, pq'[r] = "inflight", pstatus'[r] = WaitingForInput
        PROVE  \E c \in Chunk : Outstanding(c)' /\ c.room = r /\ c.last
    <3>1. CASE pq[r] = "inflight"
      <4>3. pstatus[r] = WaitingForInput
        BY <1>3, <2>2, <3>1, StillWaiting
      <4>4. PICK c \in Chunk : Outstanding(c) /\ c.room = r /\ c.last
        BY <1>0, <3>1, <4>3
      <4> QED BY <1>3, <2>2, <3>1, <4>3, <4>4, LastStays
    <3>2. CASE pq[r] # "inflight"
      <4>1. PrefillLastChunk(r)
        BY <1>3, <2>2, <3>2 DEF PrefillNext, PrefillLoop, Worker, prefill, PrefillAdd,
                                BootstrapTimeout, PrefillLeave, PopFailed, PopBootstrapped,
                                PrefillFirstChunk, ProcessPrefillChunk, PrefillLastChunk,
                                ProcessInflight, AbortPrefill, AbortQueued, AbortSender,
                                BootstrapThread, BootstrapUpdate, WorkerGet, WorkerLook,
                                WorkerReport, WorkerSendKV, WorkerSendAux, WorkerCheck, DisaggInv,
                                PrefillTypes
      <4>2. PICK k \in {1, 2} :
           /\ pq' = [pq EXCEPT ![r] = IF k = Chunks(r) THEN "inflight" ELSE "sent"]
           /\ \/ pq[r] = "waiting" /\ k = 1 /\ Chunks(r) = 1
              \/ pq[r] = "chunked" /\ k = 1 /\ Chunks(r) = 2
              \/ pq[r] = "sent" /\ k = 2 /\ Chunks(r) = 2
           /\ NewChunk(r, k, ppages'[r]) \in Chunk
           /\ xq' = IF pstatus[r] \in {NoRoom, Failed} \/ infos[r] = NoInfo THEN xq
                    ELSE Append(xq, NewChunk(r, k, ppages'[r]))
           /\ UNCHANGED pstatus
        BY <4>1, Sends
      <4>3. pstatus[r] = WaitingForInput /\ infos[r] # NoInfo /\ k = Chunks(r)
        BY <2>2, <4>2 DEF DisaggInv, Senders, SenderOK, PrefillTypes
      <4>4. PICK e \in Chunk : e = NewChunk(r, k, ppages'[r])
        BY <4>2
      <4>a. pstatus[r] \notin {NoRoom, Failed}
        BY <4>3 DEF NoRoom, Failed, WaitingForInput
      <4>b. xq' = Append(xq, e)
        BY <4>2, <4>3, <4>4, <4>a
      <4>c. e.room = r /\ e.last
        BY <4>3, <4>4 DEF NewChunk
      <4>5. xq' = Append(xq, e) /\ e.room = r /\ e.last
        BY <4>b, <4>c
      <4>6. e \in Range(xq')
        BY <4>5, AppendRange DEF DisaggInv, PrefillTypes
      <4>7. Outstanding(e)'
        BY <4>6 DEF Outstanding
      <4> QED BY <4>5, <4>7
    <3> QED BY <3>1, <3>2
  <2> QED BY <2>1, <2>2 DEF InFlight
<1> QED BY <1>1, <1>2, <1>3 DEF Next, Step

-----------------------------------------------------------------------------
(* Delivery, while nobody gives up a request in mid-transfer.              *)

\* What does not happen as long as cut does not.
LEMMA Uncut ==
  ASSUME DisaggInv, Next, ~cut'
  PROVE  /\ ~cut /\ Delivery
         /\ \A r \in Req : ~WaitingTimeout(r) /\ ~AbortDecode(r)
         /\ \A r \in Req : AbortPrefill(r) => pq[r] # "inflight"
         /\ alive => ~HandleNodeFailure
<1>1. cut \in BOOLEAN
  BY DEF DisaggInv, NetTypes
<1>2. ASSUME DecodeNext PROVE ~cut
  BY <1>1, <1>2 DEF DecodeNext, DecodeLoop, answers, DecodeAdd, UpdateHandshakeWaiter,
                    PopPreallocated, WaitingTimeout, PopTransferFailed, PopTransferred,
                    DecodeFinish, AbortDecode, ResolvePending, EnsureFails, DecodeThread,
                    DecodeUpdate, FailRooms, HeartbeatOK, HandleNodeFailure
<1>3. ASSUME PrefillNext \/ PrefillCrash PROVE ~cut
  BY <1>1, <1>3 DEF PrefillNext, PrefillLoop, Worker, PrefillCrash, answers, PrefillAdd,
                    BootstrapTimeout, PrefillLeave, PopFailed, PopBootstrapped, PrefillFirstChunk,
                    ProcessPrefillChunk, PrefillLastChunk, ProcessInflight, AbortPrefill,
                    AbortQueued, AbortSender, BootstrapThread, BootstrapUpdate, WorkerGet,
                    WorkerLook, WorkerReport, WorkerSendKV, WorkerSendAux, WorkerCheck
<1>4. ~cut
  BY <1>2, <1>3, LoseFrame DEF Next, Step
<1>5. \A r \in Req : ~WaitingTimeout(r) /\ ~AbortDecode(r)
  BY DEF WaitingTimeout, AbortDecode
<1>6. \A r \in Req : AbortPrefill(r) => pq[r] # "inflight"
  BY DEF AbortPrefill, AbortQueued, AbortSender
<1>7. alive => ~HandleNodeFailure
  BY DEF HandleNodeFailure
<1> QED BY <1>4, <1>5, <1>6, <1>7 DEF DisaggInv

\* What the decode thread takes up.
LEMMA HandlingMoves ==
  ASSUME DisaggInv, DecodeNext, NEW r \in Req, Handling(dt, r)'
  PROVE  \/ Handling(dt, r)
         \/ DecodeThread /\ \E m \in toD : m[1] = r /\ toD' = toD \ {m}
<1>1. CASE DecodeThread
  <2>1. PICK m \in toD : /\ toD' = toD \ {m}
                         /\ \/ dt' = Resting
                            \/ dt' = [stage |-> IF m[2] = Success THEN "count" ELSE "test",
                                      room |-> m[1], val |-> m[2]]
    BY <1>1 DEF DecodeThread
  <2> QED BY <1>1, <2>1 DEF Handling, Resting
<1>2. CASE DecodeUpdate
  <2>1. Handling(dt, dt.room) /\ (dt' = Resting \/ dt'.room = dt.room)
    BY <1>2, DecodeUpdateIs DEF DisaggInv, Threads, DecodeThreadOK
  <2> QED BY <2>1 DEF Handling, Resting
<1>3. CASE dt' = dt
  BY <1>3 DEF Handling
<1> QED BY <1>1, <1>2, <1>3, QuietSteps
        DEF DecodeNext, DecodeLoop, decodeMgr, UpdateHandshakeWaiter, WaitingTimeout,
            PopPreallocated, PopTransferFailed, PopTransferred, DecodeFinish, AbortDecode,
            FailRooms, HeartbeatOK, HandleNodeFailure

\* A room that has its indices keeps them.
LEMMA ArrivedKept ==
  ASSUME DisaggInv, Next, ~PrefillCrash, NEW r \in Req, Arrived(r)
  PROVE  Arrived(r)'
<1>1. CASE DecodeNext
  BY <1>1, DecodeMoves DEF Arrived
<1>2. CASE PrefillNext
  BY <1>2, PrefillFrame, PrefillMoves DEF Arrived
<1>3. CASE LoseMessage
  <2>1. dq' = dq /\ (toP'[r] = toP[r] \/ toP'[r] = NoInfo)
    BY <1>3, LoseFrame DEF LoseMessage, DisaggInv, NetTypes
  <2> QED BY <2>1 DEF Arrived
<1> QED BY <1>1, <1>2, <1>3 DEF Next, Step

\* The bootstrap thread takes up a request whose indices are new.
LEMMA BootstrapTakes ==
  ASSUME DisaggInv, Next, NEW q \in Req, BootstrapThread(q)
  PROVE  BootstrapOK'
<1>1. /\ toP[q] # NoInfo /\ toP' = [toP EXCEPT ![q] = NoInfo]
      /\ infos' = [infos EXCEPT ![q] = toP[q]]
      /\ bt' = [stage |-> "count", room |-> q, val |-> WaitingForInput]
      /\ UNCHANGED <<pq, pstatus, dq>>
  BY DEF BootstrapThread, prefill, decode
<1>2. dq[q] \notin {"new", "prealloc"} /\ ~Arrived(q)
  BY <1>1 DEF Arrived, DisaggInv, Traffic, Indices
<1>3. /\ pq[q] \in {"new", "bootstrap", "done"} /\ infos[q] = NoInfo
      /\ toP \in [Req -> Info] /\ infos \in [Req -> Info]
  BY <1>2 DEF DisaggInv, Traffic, Indices, PrefillTypes, NetTypes
<1>4. pq[q] # "done" => pstatus[q] # WaitingForInput
  BY <1>3 DEF DisaggInv, Senders, SenderOK
<1>5. BootstrapTypes' /\ bt'.room # 0
  BY <1>1, DisaggAssumption DEF BootstrapTypes
<1>6. ASSUME NEW r \in Req, Handling(bt, r)' PROVE r = q
  BY <1>1, <1>6 DEF Handling
<1>7. /\ bt'.val = WaitingForInput /\ WaitingForInput # 0 /\ Arrived(q)'
      /\ infos'[q] # NoInfo
  BY <1>1, <1>2, <1>3 DEF WaitingForInput, Arrived
<1> QED BY <1>1, <1>3, <1>4, <1>5, <1>6, <1>7 DEF BootstrapOK

\* A request the bootstrap thread handles stays where it is, unless it fails.
LEMMA BootstrapKeeps ==
  ASSUME DisaggInv, Next, PrefillNext, NEW r \in Req, Handling(bt, r), Handling(bt, r)', bt' = bt
  PROVE  /\ pq'[r] \in {"new", "bootstrap", "done"}
         /\ pq'[r] # "done" => infos'[r] # NoInfo /\ pstatus'[r] # WaitingForInput
         /\ pq'[r] # "done" => pq[r] # "done"
<1>1. /\ pq[r] \in {"new", "bootstrap", "done"}
      /\ pq[r] # "done" => infos[r] # NoInfo /\ pstatus[r] # WaitingForInput
  BY DEF DisaggInv, Threads, BootstrapOK
<1>2. SenderOK(r) /\ pstatus \in [Req -> Statuses] /\ infos \in [Req -> Info]
  BY DEF DisaggInv, Senders, PrefillTypes
<1>3. ~(pq[r] = "bootstrap" /\ Bootstrapped(r))
  BY <1>1, <1>2 DEF SenderOK, Bootstrapped, Poll, None, Failed
<1>4. pq'[r] \in {"new", "bootstrap", "done"} /\ (pq'[r] # "done" => pq[r] # "done")
  BY <1>1, <1>3, PrefillMoves
<1>5. ASSUME pq'[r] # "done" PROVE infos'[r] # NoInfo
  <2>1. pq[r] \in {"new", "bootstrap"} /\ infos[r] # NoInfo
    BY <1>1, <1>4, <1>5
  <2>2. ASSUME NEW q \in Req, BootstrapThread(q) PROVE infos'[r] # NoInfo
    BY <1>2, <2>1, <2>2 DEF BootstrapThread
  <2>3. ASSUME NEW q \in Req, PopFailed(q) \/ ProcessInflight(q) PROVE infos'[r] # NoInfo
    <3>1. infos' = [infos EXCEPT ![q] = NoInfo] /\ pq' = [pq EXCEPT ![q] = "done"]
      BY <2>3 DEF PopFailed, ProcessInflight, ClearSender, PrefillLeave
    <3>2. q # r
      BY <1>5, <3>1 DEF DisaggInv, PrefillTypes
    <3> QED BY <1>2, <2>1, <3>1, <3>2
  <2>4. CASE WorkerCheck
    <3>1. infos' = infos \/ (wk.stage = "pop" /\ infos' = [infos EXCEPT ![wk.c.room] = NoInfo])
      BY <2>4 DEF WorkerCheck
    <3>2. wk.stage = "pop" => pq[wk.c.room] \in {"inflight", "done"}
      BY DEF DisaggInv, Traffic, WorkerOK
    <3> QED BY <1>2, <2>1, <3>1, <3>2
  <2>5. CASE infos' = infos
    BY <2>1, <2>5
  <2> QED BY <2>2, <2>3, <2>4, <2>5, QuietSteps
          DEF PrefillNext, PrefillLoop, Worker, prefillMgr, PrefillAdd, BootstrapTimeout,
              PopBootstrapped, PrefillFirstChunk, ProcessPrefillChunk, PrefillLastChunk,
              AbortPrefill, WorkerGet, WorkerSendKV, WorkerSendAux
<1>6. ASSUME pq'[r] # "done" PROVE pstatus'[r] # WaitingForInput
  <2>1. pq[r] \in {"new", "bootstrap"} /\ pstatus[r] # WaitingForInput
    BY <1>1, <1>4, <1>6
  <2>2. WorkerReport /\ wk.stage = "store" => wk.c.room # r
    BY <2>1 DEF DisaggInv, Traffic, WorkerOK
  <2>3. CASE pq[r] = "new" /\ pq'[r] = "bootstrap"
    <3>1. PrefillAdd(r)
      BY <2>3 DEF PrefillNext, PrefillLoop, Worker, prefill, PrefillAdd, BootstrapTimeout,
                  PrefillLeave, PopFailed, PopBootstrapped, PrefillFirstChunk,
                  ProcessPrefillChunk, PrefillLastChunk, ProcessInflight, AbortPrefill,
                  AbortQueued, AbortSender, BootstrapThread, BootstrapUpdate, WorkerGet,
                  WorkerLook, WorkerReport, WorkerSendKV, WorkerSendAux, WorkerCheck, DisaggInv,
                  PrefillTypes
    <3>2. \/ pstatus' = UpdateStatus(pstatus, r, Bootstrapping)
          \/ pstatus' = [pstatus EXCEPT ![r] = Bootstrapping]
      BY <3>1 DEF PrefillAdd
    <3>3. pstatus[r] = NoRoom
      BY <1>2, <2>1, <2>3 DEF SenderOK
    <3>4. UpdateStatus(pstatus, r, Bootstrapping)[r] = Bootstrapping
      <4>1. Bootstrapping \in Statuses \ {NoRoom} /\ Bootstrapping # Failed
        BY StatusesKnown DEF Bootstrapping, Failed
      <4>2. UpdateStatus(pstatus, r, Bootstrapping)[r] =
              IF pstatus[r] >= Bootstrapping THEN pstatus[r] ELSE Bootstrapping
        BY <1>2, <4>1, UpdateStatusIs
      <4> QED BY <3>3, <4>2 DEF NoRoom, Bootstrapping
    <3> QED BY <1>2, <3>2, <3>4 DEF Bootstrapping, WaitingForInput
  <2>4. CASE ~(pq[r] = "new" /\ pq'[r] = "bootstrap")
    <3>1. \/ pstatus'[r] = pstatus[r]
          \/ pstatus'[r] \in {NoRoom, Failed}
          \/ BootstrapUpdate
      BY <2>2, <2>4, StatusMoves
    <3>2. BootstrapUpdate => pstatus' = pstatus
      <4>1. BootstrapUpdate => bt' = Resting \/ pstatus' = pstatus
        BY BootstrapUpdateIs DEF DisaggInv, Threads
      <4>2. bt' # Resting
        BY DEF Handling, Resting
      <4> QED BY <4>1, <4>2
    <3> QED BY <2>1, <3>1, <3>2 DEF NoRoom, Failed, WaitingForInput
  <2> QED BY <2>3, <2>4
<1> QED BY <1>4, <1>5, <1>6

\* The invariant keeps what the bootstrap thread relies on.
LEMMA BootstrapStep ==
  ASSUME DisaggInv, Next
  PROVE  BootstrapOK'
<1>0. BootstrapOK /\ BootstrapTypes
  BY DEF DisaggInv, Threads, BootstrapOK
<1>1. CASE bt' = Resting
  <2>1. BootstrapTypes' /\ \A r : ~Handling(bt, r)'
    BY <1>1 DEF BootstrapTypes, Resting, Handling
  <2>2. bt'.stage = "idle"
    BY <1>1 DEF Resting
  <2> QED BY <2>1, <2>2 DEF BootstrapOK
<1>2. CASE \E q \in Req : BootstrapThread(q)
  BY <1>2, BootstrapTakes
<1>3. CASE BootstrapUpdate /\ bt' # Resting
  <2>1. /\ bt.room \in Req /\ Handling(bt, bt.room) /\ bt.val \in {WaitingForInput, Success}
        /\ pstatus' = pstatus /\ bt'.room = bt.room /\ BootstrapTypes'
        /\ bt'.stage # "idle"
        /\ bt'.val = bt.val \/ (bt'.val = pstatus[bt.room] /\ bt'.val > bt.val)
    BY <1>3, BootstrapUpdateIs DEF DisaggInv, Threads
  <2>2. UNCHANGED <<pq, infos, dq, toP>>
    BY <1>3, QuietSteps DEF prefill, decode
  <2>3. PICK q \in Req : q = bt.room
    BY <2>1
  <2>4. /\ Arrived(q) /\ pq[q] \in {"new", "bootstrap", "done"}
        /\ pq[q] # "done" => /\ bt.val = WaitingForInput
                             /\ infos[q] # NoInfo /\ pstatus[q] # WaitingForInput
    BY <1>0, <2>1, <2>3 DEF BootstrapOK
  <2>5. pq[q] # "done" => pstatus[q] \in {NoRoom, Failed, Bootstrapping}
    BY <2>4 DEF DisaggInv, Senders, SenderOK
  <2>6. pq[q] # "done" => bt'.val = WaitingForInput
    BY <2>1, <2>3, <2>4, <2>5 DEF NoRoom, Failed, Bootstrapping, WaitingForInput
  <2>7. bt'.val # 0
    BY <2>1 DEF WaitingForInput, Success
  <2>8. \A r \in Req : Handling(bt, r)' => r = q
    BY <2>1, <2>3 DEF Handling
  <2>9. Arrived(q)' /\ bt'.room # 0
    BY <2>1, <2>2, <2>4, DisaggAssumption DEF Arrived
  <2> QED BY <2>1, <2>2, <2>4, <2>6, <2>7, <2>8, <2>9 DEF BootstrapOK
<1>4. CASE bt' = bt /\ ~PrefillCrash
  <2>1. BootstrapTypes' /\ (bt'.stage \in {"count", "test", "read", "store"} => bt'.room # 0)
    BY <1>0, <1>4 DEF BootstrapOK, BootstrapTypes
  <2>2. ASSUME NEW r \in Req, Handling(bt, r)'
        PROVE  /\ bt'.val # 0 /\ Arrived(r)' /\ pq'[r] \in {"new", "bootstrap", "done"}
               /\ pq'[r] # "done" => /\ bt'.val = WaitingForInput
                                     /\ infos'[r] # NoInfo /\ pstatus'[r] # WaitingForInput
    <3>1. Handling(bt, r)
      BY <1>4, <2>2 DEF Handling
    <3>2. /\ bt.val # 0 /\ Arrived(r) /\ pq[r] \in {"new", "bootstrap", "done"}
          /\ pq[r] # "done" => /\ bt.val = WaitingForInput
                               /\ infos[r] # NoInfo /\ pstatus[r] # WaitingForInput
      BY <1>0, <3>1 DEF BootstrapOK
    <3>3. Arrived(r)'
      BY <1>4, <3>2, ArrivedKept
    <3>4. CASE PrefillNext
      BY <1>4, <2>2, <3>1, <3>2, <3>3, <3>4, BootstrapKeeps
    <3>5. CASE DecodeNext \/ LoseMessage
      <4>1. UNCHANGED <<pq, infos, pstatus>>
        BY <3>5, DecodeFrame, LoseFrame
      <4> QED BY <1>4, <3>2, <3>3, <4>1
    <3> QED BY <1>4, <3>4, <3>5 DEF Next, Step
  <2> QED BY <2>1, <2>2 DEF BootstrapOK
<1>5. PrefillNext => \/ bt' = Resting \/ bt' = bt \/ BootstrapUpdate
                     \/ \E q \in Req : BootstrapThread(q)
  BY DEF PrefillNext, PrefillLoop, Worker, prefillMgr, PrefillAdd, BootstrapTimeout, PopFailed,
         PopBootstrapped, PrefillFirstChunk, ProcessPrefillChunk, PrefillLastChunk,
         ProcessInflight, AbortPrefill, WorkerGet, WorkerLook, WorkerReport, WorkerSendKV,
         WorkerSendAux, WorkerCheck
<1>6. PrefillCrash => bt' = Resting
  BY DEF PrefillCrash
<1> QED BY <1>1, <1>2, <1>3, <1>4, <1>5, <1>6, DecodeFrame, LoseFrame DEF Next, Step

\* The invariant keeps what the decode thread relies on.
LEMMA DecodeThreadStep ==
  ASSUME DisaggInv, Next
  PROVE  DecodeThreadOK'
<1> DEFINE T == [stage : {"idle", "count", "test", "read", "store", "dead"}, room : Req \cup {0},
                 val : {Failed, Success}]
           Form(th) == /\ th \in T
                       /\ th.stage \in {"count", "test", "read", "store"} => th.room # 0
                       /\ th.stage \in {"count", "read"} => th.val = Success
<1>0. /\ Form(dt) /\ \A r \in Req : Handling(dt, r) => dq[r] \notin {"new", "prealloc"}
      /\ toD \subseteq Req \X {Failed, Success} /\ 0 \notin Req
  BY DisaggAssumption DEF DisaggInv, Threads, DecodeThreadOK, NetTypes
<1>a. Form(dt') /\ (\A r \in Req : Handling(dt, r)' => dq'[r] \notin {"new", "prealloc"})
        => DecodeThreadOK'
  BY DEF DecodeThreadOK
<1>1. CASE PrefillNext \/ PrefillCrash \/ LoseMessage
  <2>1. UNCHANGED <<dt, dq>>
    BY <1>1, PrefillFrame, LoseFrame
  <2> QED BY <1>0, <1>a, <2>1 DEF Handling
<1>2. CASE DecodeNext
  <2>1. ASSUME NEW r \in Req, Handling(dt, r)' PROVE dq'[r] \notin {"new", "prealloc"}
    <3>1. dq[r] \notin {"new", "prealloc"}
      BY <1>0, <1>2, <2>1, HandlingMoves DEF DisaggInv, Traffic, Indices
    <3> QED BY <1>2, <3>1, DecodeMoves
  <2>2. CASE DecodeThread
    <3>1. PICK m \in toD : \/ dt' = Resting
                           \/ dt' = [stage |-> IF m[2] = Success THEN "count" ELSE "test",
                                     room |-> m[1], val |-> m[2]]
      BY <2>2 DEF DecodeThread
    <3>2. m[1] \in Req /\ m[1] # 0 /\ m[2] \in {Failed, Success}
      BY <1>0
    <3>3. Form(dt')
      BY <3>1, <3>2 DEF Resting, Failed
    <3> QED BY <1>a, <2>1, <3>3
  <2>3. CASE DecodeUpdate
    <3>1. /\ dt.room \in Req
          /\ \/ dt' = Resting
             \/ \E x \in {"test", "read", "store", "dead"} : /\ dt' = [dt EXCEPT !.stage = x]
                                                             /\ x = "read" => dt.val = Success
      BY <2>3, DecodeUpdateIs DEF DisaggInv, Threads
    <3>2. Form(dt')
      BY <1>0, <3>1 DEF Resting, Failed
    <3> QED BY <1>a, <2>1, <3>2
  <2>4. CASE dt' = dt
    BY <1>0, <1>a, <2>1, <2>4
  <2> QED BY <1>2, <2>2, <2>3, <2>4, QuietSteps
          DEF DecodeNext, DecodeLoop, decodeMgr, UpdateHandshakeWaiter, WaitingTimeout,
              PopPreallocated, PopTransferFailed, PopTransferred, DecodeFinish, AbortDecode,
              FailRooms, HeartbeatOK, HandleNodeFailure
<1> QED BY <1>1, <1>2 DEF Next, Step

\* The invariant keeps what the heartbeat thread relies on.
LEMMA HeartbeatStep ==
  ASSUME DisaggInv, Next
  PROVE  HeartbeatThreadOK'
<1> DEFINE T == [stage : {"idle", "next", "look", "test", "store", "dead"}, room : Req \cup {0},
                 val : {Failed}, todo : SUBSET Req]
<1>0. /\ hb \in T /\ tracker \subseteq Req /\ 0 \notin Req
      /\ \A r \in tracker \cup hb.todo : dq[r] # "new"
      /\ hb.stage \in {"look", "test", "store"} => hb.room # 0 /\ dq[hb.room] # "new"
      /\ alive /\ ~cut => hb.stage = "idle"
      /\ dq \in [Req -> {"new", "prealloc", "transfer", "running", "done"}]
  BY DisaggAssumption DEF DisaggInv, Threads, HeartbeatThreadOK, DecodeTypes
<1>1. ASSUME NEW r \in Req, dq[r] # "new" PROVE dq'[r] # "new"
  <2>1. CASE DecodeNext
    <3>1. \/ dq' = dq
          \/ \E q \in Req : \E w \in {"prealloc", "transfer", "running", "done"} :
               dq' = [dq EXCEPT ![q] = w]
      BY <2>1, QuietSteps
      DEF DecodeNext, DecodeLoop, decode, UpdateHandshakeWaiter, PopPreallocated, DecodeLeave,
          WaitingTimeout, PopTransferFailed, PopTransferred, DecodeFinish, AbortDecode,
          FailRooms, HeartbeatOK, HandleNodeFailure
    <3> QED BY <1>0, <1>1, <3>1
  <2>2. CASE PrefillNext \/ PrefillCrash \/ LoseMessage
    BY <1>1, <2>2, PrefillFrame, LoseFrame
  <2> QED BY <2>1, <2>2 DEF Next, Step
<1>2. alive' => alive
  <2>1. CASE PrefillNext \/ PrefillCrash
    BY <2>1, ThreadFrame DEF PrefillCrash
  <2>2. CASE DecodeNext \/ LoseMessage
    <3>1. alive' = alive
      BY <2>2, DecodeFrame, LoseFrame
    <3> QED BY <3>1
  <2> QED BY <2>1, <2>2 DEF Next, Step
<1>3. ~cut' => ~cut
  BY Uncut
<1>4. CASE hb' = hb
  <2>1. \A r \in tracker' : dq'[r] # "new"
    <3>1. ASSUME NEW q \in Req, DecodeAdd(q) PROVE tracker' \subseteq tracker \cup {q} /\ dq'[q] # "new"
      BY <1>0, <3>1 DEF DecodeAdd
    <3>2. (\E q \in Req : DecodeAdd(q)) \/ tracker' \subseteq tracker
      BY PrefillFrame, LoseFrame, QuietSteps
      DEF Next, Step, DecodeNext, DecodeLoop, decodeMgr, UpdateHandshakeWaiter, PopPreallocated,
          WaitingTimeout, PopTransferFailed, PopTransferred, DecodeFinish, AbortDecode,
          HeartbeatOK, HandleNodeFailure, FailRooms
    <3> QED BY <1>0, <1>1, <3>1, <3>2
  <2>2. \A r \in hb'.todo : dq'[r] # "new"
    BY <1>0, <1>1, <1>4
  <2>3. hb'.stage \in {"look", "test", "store"} => hb'.room # 0 /\ dq'[hb'.room] # "new"
    BY <1>0, <1>1, <1>4
  <2> QED BY <1>0, <1>2, <1>3, <1>4, <2>1, <2>2, <2>3 DEF HeartbeatThreadOK
<1>5. CASE HandleNodeFailure
  <2>1. hb' = At("next", 0, tracker) /\ tracker' = {} /\ dq' = dq
    BY <1>5 DEF HandleNodeFailure, decode
  <2>2. alive' /\ ~cut' => FALSE
    BY <1>2, <1>5, Uncut
  <2> QED BY <1>0, <2>1, <2>2 DEF HeartbeatThreadOK, At
<1>6. CASE FailRooms
  <2>1. UNCHANGED <<dq, tracker, alive, cut>>
    BY <1>6, QuietSteps DEF decode, prefillMgr, answers
  <2>2. /\ hb.stage # "idle"
        /\ \/ hb' = Watching
           \/ \E r \in hb.todo, x \in {"next", "look"} : hb' = At(x, r, hb.todo \ {r})
           \/ hb' = At("next", 0, hb.todo)
           \/ hb.stage \in {"look", "test"} /\ \E x \in {"test", "store", "dead"} :
                                                 hb' = [hb EXCEPT !.stage = x]
    BY <1>6, FailRoomsIs DEF DisaggInv, Threads
  <2>3. ~(alive' /\ ~cut')
    BY <1>0, <2>1, <2>2
  <2>4. CASE hb' = Watching \/ hb' = At("next", 0, hb.todo)
    BY <1>0, <2>1, <2>3, <2>4 DEF HeartbeatThreadOK, Watching, At
  <2>5. ASSUME NEW r \in hb.todo, NEW x \in {"next", "look"}, hb' = At(x, r, hb.todo \ {r})
        PROVE  HeartbeatThreadOK'
    BY <1>0, <2>1, <2>3, <2>5 DEF HeartbeatThreadOK, At
  <2>6. ASSUME hb.stage \in {"look", "test"}, NEW x \in {"test", "store", "dead"},
               hb' = [hb EXCEPT !.stage = x]
        PROVE  HeartbeatThreadOK'
    BY <1>0, <2>1, <2>3, <2>6 DEF HeartbeatThreadOK
  <2> QED BY <2>2, <2>4, <2>5, <2>6
<1> QED BY <1>4, <1>5, <1>6, PrefillFrame, LoseFrame, QuietSteps
        DEF Next, Step, DecodeNext, DecodeLoop, decodeMgr, UpdateHandshakeWaiter, PopPreallocated,
            WaitingTimeout, PopTransferFailed, PopTransferred, DecodeFinish, AbortDecode,
            HeartbeatOK, DecodeThread, DecodeUpdate

\* The decode server leaves a request alone that is in transfer, until the status it
\* was told is stored.
LEMMA ExpectsKept ==
  ASSUME DisaggInv, Next, DecodeNext, ~cut', alive, NEW r \in Req, Expects(r),
         ~(DecodeUpdate /\ dt.room = r)
  PROVE  /\ dq'[r] = dq[r] /\ dconc'[r] = dconc[r] /\ dstatus'[r] = dstatus[r]
         /\ dpages'[r] = dpages[r] /\ dmeta'[r] = dmeta[r] /\ toP'[r] = toP[r]
<1>0. /\ dq \in [Req -> {"new", "prealloc", "transfer", "running", "done"}]
      /\ dstatus \in [Req -> Statuses] /\ dconc \in [Req -> {None, Failed, Success}]
      /\ dmeta \in [Req -> Nat] /\ dpages \in [Req -> Seq(Page)] /\ toP \in [Req -> Info]
      /\ ready \subseteq {q \in Req : dq[q] = "prealloc"} /\ toD \subseteq Req \X {Failed, Success}
  BY DEF DisaggInv, DecodeTypes, NetTypes
<1>1. /\ dq[r] = "transfer" /\ dconc[r] = None /\ dstatus[r] = WaitingForInput
      /\ Poll(dconc, dstatus, r) = WaitingForInput
      /\ r \notin pending /\ r \notin ready
  BY <1>0 DEF Expects, Poll, DisaggInv, Receivers, ReceiverOK
<1>a. WaitingForInput \notin {Failed, Success}
  BY DEF WaitingForInput, Failed, Success
<1>2. ASSUME NEW q \in Req, \/ DecodeAdd(q) \/ UpdateHandshakeWaiter(q) \/ PopPreallocated(q)
                            \/ PopTransferFailed(q) \/ PopTransferred(q) \/ DecodeFinish(q)
      PROVE  q # r
  BY <1>1, <1>2, <1>a DEF DecodeAdd, UpdateHandshakeWaiter, PopPreallocated, PopTransferFailed,
     PopTransferred, DecodeFinish
<1>3. ASSUME NEW q \in Req, DecodeAdd(q)
      PROVE  /\ dq'[r] = dq[r] /\ dconc'[r] = dconc[r] /\ dstatus'[r] = dstatus[r]
             /\ dpages'[r] = dpages[r] /\ dmeta'[r] = dmeta[r] /\ toP'[r] = toP[r]
  <2>1. PICK s \in Statuses \ {NoRoom} : dstatus' = UpdateStatus(dstatus, q, s)
    BY <1>3, StatusesKnown DEF DecodeAdd
  <2>2. dstatus'[r] = dstatus[r]
    <3>1. q # r /\ dstatus \in [Req -> Statuses]
      BY <1>0, <1>2, <1>3
    <3> QED BY <2>1, <3>1, UpdateStatusIs
  <2>3. \E miss \in SUBSET {q} : dconc' = [x \in Req |-> IF x \in miss THEN Failed ELSE dconc[x]]
    BY <1>3 DEF DecodeAdd, Unreached
  <2>4. dconc'[r] = dconc[r]
    BY <1>2, <1>3, <2>3
  <2> QED BY <1>0, <1>2, <1>3, <2>2, <2>4, QuietSteps DEF net
<1>4. ASSUME NEW q \in Req, \/ UpdateHandshakeWaiter(q) \/ PopTransferFailed(q)
                            \/ PopTransferred(q) \/ DecodeFinish(q) \/ PopPreallocated(q)
      PROVE  /\ dq'[r] = dq[r] /\ dconc'[r] = dconc[r] /\ dstatus'[r] = dstatus[r]
             /\ dpages'[r] = dpages[r] /\ dmeta'[r] = dmeta[r] /\ toP'[r] = toP[r]
  <2>1. q # r
    BY <1>2, <1>4
  <2> QED BY <1>0, <1>4, <2>1 DEF net, decodeMgr, UpdateHandshakeWaiter, PopTransferFailed, PopTransferred,
     DecodeFinish, DecodeLeave, Released, ClearReceiver, PopPreallocated
<1>5. CASE ResolvePending
  <2>1. /\ \E miss \in SUBSET pending : dconc' = [x \in Req |-> IF x \in miss THEN Failed ELSE dconc[x]]
        /\ dstatus' = [x \in Req |-> IF x \in pending THEN Max({dstatus[x], WaitingForInput})
                                     ELSE dstatus[x]]
    BY <1>5 DEF ResolvePending, Unreached
  <2> QED BY <1>0, <1>1, <1>5, <2>1, QuietSteps DEF net
<1>6. CASE EnsureFails
  BY <1>0, <1>1, <1>6 DEF EnsureFails, net
<1>7. CASE DecodeThread
  BY <1>7 DEF DecodeThread, decode
<1>8. CASE DecodeUpdate
  <2>1. UNCHANGED <<decode, toP>>
    BY <1>8, QuietSteps
  <2>2. /\ dt.room \in Req /\ dt.room # r
        /\ dstatus' = dstatus \/ dstatus' = [dstatus EXCEPT ![dt.room] = dt.val]
    BY <1>8, DecodeUpdateIs DEF DisaggInv, Threads
  <2> QED BY <1>0, <2>1, <2>2 DEF decode
<1>9. CASE HeartbeatOK
  BY <1>9 DEF HeartbeatOK, decode, net
<1>d. ~FailRooms
  BY FailRoomsIs, Uncut DEF DisaggInv, Threads, HeartbeatThreadOK
<1> QED BY <1>3, <1>4, <1>5, <1>6, <1>7, <1>8, <1>9, <1>d, Uncut DEF DecodeNext, DecodeLoop

\* The same of a request that waits, and the decode thread does not turn to it.
LEMMA WaitsKept ==
  ASSUME DisaggInv, Next, DecodeNext, ~cut', alive, NEW r \in Req, Waits(r)
  PROVE  /\ dq'[r] = dq[r] /\ dconc'[r] = dconc[r] /\ dstatus'[r] = dstatus[r]
         /\ dpages'[r] = dpages[r] /\ dmeta'[r] = dmeta[r] /\ toP'[r] = toP[r]
         /\ ~Handling(dt, r)'
<1>1. Expects(r) /\ ~Handling(dt, r) /\ \A m \in toD : m[1] # r
  BY DEF Waits
<1>2. DecodeUpdate => dt.room # r
  BY <1>1, DecodeUpdateIs DEF DisaggInv, Threads
<1>3. ~Handling(dt, r)'
  BY <1>1, HandlingMoves
<1> QED BY <1>1, <1>2, <1>3, ExpectsKept

\* A chunk that is outstanding after a step was so before, or has just been queued.
LEMMA NewOutstanding ==
  ASSUME DisaggInv, Next, NEW c \in Chunk, Outstanding(c)', ~Outstanding(c)
  PROVE  /\ ProcessPrefillChunk(c.room) \/ PrefillLastChunk(c.room)
         /\ pq[c.room] \in {"waiting", "chunked", "sent"}
         /\ infos[c.room] # NoInfo /\ pstatus[c.room] \notin {NoRoom, Failed}
         /\ c = NewChunk(c.room, c.k, ppages'[c.room])
         /\ c.k = Len(ppages'[c.room])
<1>0. xq \in Seq(Chunk)
  BY DEF DisaggInv, PrefillTypes
<1>1. ~(UNCHANGED xq /\ (InHand' => InHand /\ wk'.c = wk.c))
  BY DEF Outstanding
<1>2. ~PrefillCrash
  BY DEF PrefillCrash, Outstanding, InHand, Idle, Range
<1>3. ~WorkerGet
  <2> SUFFICES ASSUME WorkerGet PROVE FALSE
    OBVIOUS
  <2>1. xq # <<>> /\ xq' = Tail(xq) /\ (InHand' => wk'.c = Head(xq))
    BY DEF WorkerGet, InHand
  <2>2. Range(xq) = Range(xq') \cup {Head(xq)}
    BY <1>0, <2>1, TailRange
  <2> QED BY <2>1, <2>2 DEF Outstanding
<1>4. PICK r \in Req : ProcessPrefillChunk(r) \/ PrefillLastChunk(r)
  BY <1>1, <1>2, <1>3, QueueMoves
<1>5. PICK k \in {1, 2} :
           /\ k = Len(ppages'[r])
           /\ pq[r] \in {"waiting", "chunked", "sent"}
           /\ NewChunk(r, k, ppages'[r]) \in Chunk
           /\ xq' = IF pstatus[r] \in {NoRoom, Failed} \/ infos[r] = NoInfo THEN xq
                    ELSE Append(xq, NewChunk(r, k, ppages'[r]))
           /\ UNCHANGED wk
  BY <1>4, Sends
<1>6. xq' # xq
  BY <1>1, <1>5 DEF InHand
<1>7. /\ infos[r] # NoInfo /\ pstatus[r] \notin {NoRoom, Failed}
      /\ Range(xq') = Range(xq) \cup {NewChunk(r, k, ppages'[r])}
  BY <1>0, <1>5, <1>6, AppendRange
<1>8. c = NewChunk(r, k, ppages'[r])
  BY <1>5, <1>7 DEF Outstanding, InHand
<1>9. c.room = r /\ c.k = k
  BY <1>8 DEF NewChunk
<1> QED BY <1>4, <1>5, <1>7, <1>8, <1>9

\* Over a good session the transfer thread only tells decode what it has written.
LEMMA GoodSession ==
  ASSUME DisaggInv, PrefillNext, ~broken'
  PROVE  /\ ~broken
         /\ toD' = toD \/ (WorkerReport /\ wk.stage = "tell")
         /\ WorkerSendKV => dkv' = [dkv EXCEPT ![wk.info.pages[wk.c.k]] = pkv[wk.c.src]]
         /\ dbuf' = dbuf \/ WorkerSendAux
<1>1. WorkerReport => UNCHANGED <<broken, memory>> /\ (toD' = toD \/ wk.stage = "tell")
  BY QuietSteps DEF WorkerReport
<1>2. WorkerLook => UNCHANGED <<broken, memory, toD>>
  BY QuietSteps
<1>3. /\ WorkerGet \/ WorkerCheck => UNCHANGED <<broken, memory, toD>>
      /\ WorkerSendKV => /\ UNCHANGED <<dbuf, toD>>
                         /\ \/ broken' = TRUE
                            \/ UNCHANGED broken /\
                               dkv' = [dkv EXCEPT ![wk.info.pages[wk.c.k]] = pkv[wk.c.src]]
      /\ WorkerSendAux => UNCHANGED <<broken, dkv, toD>>
  BY DEF WorkerGet, WorkerSendKV, WorkerSendAux, WorkerCheck, net
<1> QED BY <1>1, <1>2, <1>3, ThreadFrame DEF Worker, memory

\* Once the transfer thread has told decode, nothing of its room is left.
LEMMA TellEnds ==
  ASSUME DisaggInv, WorkerReport, wk.stage = "tell", ~broken
  PROVE  /\ wk \in WorkerState /\ wk.c \in Chunk /\ wk.c.room \in Req /\ wk.c.last
         /\ wk' = [wk EXCEPT !.stage = "check"] /\ toD' = toD \cup {<<wk.c.room, wk.val>>}
         /\ xq' = xq /\ ~InHand' /\ ~Untold'
         /\ \A c \in Chunk : Outstanding(c)' => Outstanding(c) /\ c.room # wk.c.room
         /\ toP'[wk.c.room] = NoInfo /\ pq'[wk.c.room] \in {"inflight", "done"}
<1>1. /\ wk \in WorkerState /\ wk.c \in Chunk /\ wk.c.room \in Req
      /\ wk' = [wk EXCEPT !.stage = "check"] /\ toD' = toD \cup {<<wk.c.room, wk.val>>}
  BY WorkerReportIs DEF DisaggInv
<1>2. xq' = xq /\ UNCHANGED <<toP, pq>>
  BY QuietSteps DEF prefill
<1>3. ~InHand' /\ ~Untold'
  BY <1>1 DEF InHand, Untold, WorkerState
<1>4. /\ wk.c.last /\ pq[wk.c.room] \in {"inflight", "done"} /\ toP[wk.c.room] = NoInfo
      /\ \A i \in 1 .. Len(xq) : xq[i].room # wk.c.room
  BY DEF DisaggInv, Traffic, WorkerOK, Queued, Untold, Arrived
<1>5. ASSUME NEW c \in Chunk, Outstanding(c)' PROVE Outstanding(c) /\ c.room # wk.c.room
  <2>1. c \in Range(xq) /\ DOMAIN xq = 1 .. Len(xq)
    BY <1>2, <1>3, <1>5, LenProperties DEF Outstanding, DisaggInv, PrefillTypes
  <2>2. PICK i \in 1 .. Len(xq) : xq[i] = c
    BY <2>1 DEF Range
  <2> QED BY <1>4, <2>1, <2>2 DEF Outstanding
<1> QED BY <1>1, <1>2, <1>3, <1>4, <1>5

\* The transfer thread comes to tell decode of a request with its last chunk.
LEMMA TellingMoves ==
  ASSUME DisaggInv, Next, NEW r \in Req, Telling(r)'
  PROVE  Telling(r) \/ \E c \in Chunk : Outstanding(c) /\ c.room = r
<1>1. CASE Untold' => Untold /\ wk'.c = wk.c
  <2>1. Untold /\ wk.c.room = r
    BY <1>1 DEF Telling, Untold
  <2>2. InHand => wk.c \in Chunk /\ Outstanding(wk.c)
    BY WorkerRooms DEF DisaggInv, InHand
  <2> QED BY <2>1, <2>2 DEF Untold, Telling
<1>2. ~WorkerGet /\ ~PrefillCrash
  <2>1. WorkerGet => wk'.stage \in {"check", "found"}
    BY DEF WorkerGet, Idle
  <2>2. PrefillCrash => wk'.stage = "idle"
    BY DEF PrefillCrash, Idle
  <2> QED BY <2>1, <2>2 DEF Telling
<1>3. ASSUME NEW q \in Req, ProcessPrefillChunk(q) \/ PrefillLastChunk(q) PROVE wk' = wk
  BY <1>3, Sends
<1>4. wk' = wk => (Untold' => Untold /\ wk'.c = wk.c)
  BY DEF Untold, InHand
<1> QED BY <1>1, <1>2, <1>3, <1>4, QueueMoves

\* A request prefill may write for could be written for before, or decode has just
\* sent its indices.
LEMMA PendMoves ==
  ASSUME DisaggInv, Next, NEW r \in Req, Pend(r)'
  PROVE  Pend(r) \/ PopPreallocated(r)
<1>0. /\ alive' /\ ~broken' /\ toP \in [Req -> Info]
  BY DEF Pend, DisaggInv, NetTypes
<1>1. CASE DecodeNext
  <2>1. UNCHANGED <<alive, broken, infos, pq, xq, wk>>
    BY <1>1, DecodeFrame
  <2>2. \/ \E q \in Req : PopPreallocated(q)
        \/ toP' = toP
    BY <1>1 DEF DecodeNext, DecodeLoop, net, DecodeAdd, UpdateHandshakeWaiter, WaitingTimeout,
                PopTransferFailed, PopTransferred, DecodeFinish, AbortDecode, ResolvePending,
                EnsureFails, DecodeThread, DecodeUpdate, FailRooms, HeartbeatOK, HandleNodeFailure
  <2>3. \A q \in Req : PopPreallocated(q) /\ q # r => toP'[r] = toP[r]
    BY <1>0 DEF PopPreallocated
  <2>4. PopPreallocated(r) \/ toP'[r] = toP[r]
    BY <2>2, <2>3
  <2>5. (\A c : Outstanding(c)' => Outstanding(c)) /\ (Telling(r)' => Telling(r))
    BY <2>1 DEF Outstanding, InHand, Telling
  <2> QED BY <1>0, <2>1, <2>4, <2>5 DEF Pend
<1>2. CASE PrefillNext
  <2>1. alive /\ ~broken
    BY <1>0, <1>2, ThreadFrame, GoodSession
  <2>2. CASE toP'[r] # NoInfo
    BY <1>2, <2>1, <2>2, PrefillMoves DEF Pend
  <2>3. CASE infos'[r] # NoInfo /\ pq'[r] \notin {"inflight", "done"}
    BY <1>2, <2>1, <2>3, PrefillMoves DEF Pend
  <2>4. ASSUME NEW c \in Chunk, Outstanding(c)', c.room = r PROVE Pend(r)
    BY <2>1, <2>4, NewOutstanding DEF Pend
  <2>5. CASE Telling(r)'
    BY <2>1, <2>5, TellingMoves DEF Pend
  <2> QED BY <2>2, <2>3, <2>4, <2>5 DEF Pend
<1>3. CASE PrefillCrash
  BY <1>0, <1>3 DEF PrefillCrash
<1>4. CASE LoseMessage
  <2>1. UNCHANGED <<alive, broken, infos, pq, xq, wk>>
    BY <1>4, LoseFrame
  <2>2. toP'[r] = toP[r] \/ toP'[r] = NoInfo
    BY <1>0, <1>4 DEF LoseMessage
  <2>5. (\A c : Outstanding(c)' => Outstanding(c)) /\ (Telling(r)' => Telling(r))
    BY <2>1 DEF Outstanding, InHand, Telling
  <2> QED BY <1>0, <2>1, <2>2, <2>5 DEF Pend
<1> QED BY <1>1, <1>2, <1>3, <1>4 DEF Next, Step

\* A request decode is about to send the indices of has not failed.
LEMMA ReadiedStep ==
  ASSUME DisaggInv, Next, ~cut'
  PROVE  Readied'
<1>0. /\ dq \in [Req -> {"new", "prealloc", "transfer", "running", "done"}]
      /\ dstatus \in [Req -> Statuses] /\ dconc \in [Req -> {None, Failed, Success}]
      /\ ready \subseteq {q \in Req : dq[q] = "prealloc"} /\ toD \subseteq Req \X {Failed, Success}
      /\ \A r \in ready : alive => dconc[r] = None /\ dstatus[r] = WaitingForInput
      /\ \A r \in ready : r \notin pending
      /\ \A m \in toD : dq[m[1]] \notin {"new", "prealloc"}
  BY Uncut DEF DisaggInv, DecodeTypes, NetTypes, Delivery, Readied, Receivers, ReceiverOK,
     Traffic, Indices
<1>1. CASE UNCHANGED <<ready, dconc, dstatus>> /\ (alive' => alive)
  BY <1>0, <1>1 DEF Readied
<1>2. CASE DecodeNext
  <2>0. alive' = alive
    BY <1>2, DecodeFrame
  <2>1. ASSUME NEW q \in Req, DecodeAdd(q) PROVE Readied'
    <3>1. PICK s \in Statuses \ {NoRoom} : dstatus' = UpdateStatus(dstatus, q, s)
      BY <2>1, StatusesKnown DEF DecodeAdd
    <3>2. dstatus \in [Req -> Statuses]
      BY <1>0
    <3>3. \A r \in Req : r # q => dstatus'[r] = dstatus[r]
      BY <3>1, <3>2, UpdateStatusIs
    <3>4. q \notin ready /\ UNCHANGED ready
      BY <1>0, <2>1, QuietSteps
    <3>5. \E miss \in SUBSET {q} : dconc' = [x \in Req |-> IF x \in miss THEN Failed ELSE dconc[x]]
      BY <2>1 DEF DecodeAdd, Unreached
    <3> QED BY <1>0, <2>0, <3>3, <3>4, <3>5 DEF Readied
  <2>2. ASSUME NEW q \in Req, UpdateHandshakeWaiter(q) PROVE Readied'
    <3>1. CASE ready' = ready \cup {q} /\ UNCHANGED <<dconc, dstatus>>
                /\ Poll(dconc, dstatus, q) = WaitingForInput
      <4>1. dconc[q] = None /\ dstatus[q] = WaitingForInput
        BY <1>0, <3>1 DEF Poll, None, Failed, Success, WaitingForInput
      <4> QED BY <1>0, <2>0, <3>1, <4>1 DEF Readied
    <3>2. CASE /\ ready' = ready \ {q} /\ dconc' = [dconc EXCEPT ![q] = Failed]
               /\ dstatus' = [dstatus EXCEPT ![q] = NoRoom]
      BY <1>0, <2>0, <3>2 DEF Readied
    <3> QED BY <2>2, <3>1, <3>2 DEF UpdateHandshakeWaiter, ClearReceiver
  <2>3. ASSUME NEW q \in Req, PopPreallocated(q) PROVE Readied'
    BY <1>0, <2>0, <2>3 DEF PopPreallocated, decodeMgr, Readied
  <2>4. ASSUME NEW q \in Req, PopTransferFailed(q) \/ PopTransferred(q) \/ DecodeFinish(q)
        PROVE  Readied'
    <3>1. q \notin ready /\ ready' = ready
      BY <1>0, <2>4 DEF PopTransferFailed, PopTransferred, DecodeFinish
    <3>2. \A r \in Req : r # q => dconc'[r] = dconc[r] /\ dstatus'[r] = dstatus[r]
      BY <1>0, <2>4 DEF PopTransferFailed, PopTransferred, DecodeFinish, ClearReceiver, decodeMgr
    <3> QED BY <1>0, <2>0, <3>1, <3>2 DEF Readied
  <2>5. CASE ResolvePending
    <3>1. /\ \E miss \in SUBSET pending : dconc' = [x \in Req |-> IF x \in miss THEN Failed ELSE dconc[x]]
          /\ dstatus' = [x \in Req |-> IF x \in pending THEN Max({dstatus[x], WaitingForInput})
                                       ELSE dstatus[x]]
      BY <2>5 DEF ResolvePending, Unreached
    <3> QED BY <1>0, <2>0, <2>5, <3>1, QuietSteps DEF Readied
  <2>9. CASE EnsureFails
    BY <1>0, <2>0, <2>9 DEF EnsureFails, Readied
  <2>6. CASE DecodeUpdate
    <3>1. /\ dt.room \in Req /\ dt.room \notin ready
          /\ dstatus' = dstatus \/ dstatus' = [dstatus EXCEPT ![dt.room] = dt.val]
      BY <1>0, <2>6, DecodeUpdateIs DEF DisaggInv, Threads, DecodeThreadOK
    <3>2. UNCHANGED <<ready, dconc>>
      BY <2>6, QuietSteps DEF decode
    <3> QED BY <1>0, <2>0, <3>1, <3>2 DEF Readied
  <2>7. CASE HeartbeatOK \/ DecodeThread
    BY <1>1, <2>0, <2>7 DEF HeartbeatOK, DecodeThread, decode
  <2>8. CASE ~alive
    BY <2>0, <2>8 DEF Readied
  <2>a. alive => ~FailRooms
    BY FailRoomsIs, Uncut DEF DisaggInv, Threads, HeartbeatThreadOK
  <2> QED BY <1>2, <2>1, <2>2, <2>3, <2>4, <2>5, <2>6, <2>7, <2>8, <2>9, <2>a, Uncut
          DEF DecodeNext, DecodeLoop
<1>3. CASE PrefillNext \/ PrefillCrash
  <2>1. UNCHANGED <<ready, dconc, dstatus>>
    BY <1>3, PrefillFrame
  <2>2. alive' => alive
    BY <1>3, ThreadFrame DEF PrefillCrash
  <2> QED BY <1>1, <2>1, <2>2
<1> QED BY <1>1, <1>2, <1>3, LoseFrame DEF Next, Step

\* A request that prefill may still write for keeps waiting.
LEMMA WaitingStep ==
  ASSUME DisaggInv, Next, ~cut'
  PROVE  Waiting'
<1> SUFFICES ASSUME NEW r \in Req, Pend(r)' PROVE Waits(r)'
  BY DEF Waiting
<1>0. /\ toP \in [Req -> Info] /\ infos \in [Req -> Info]
      /\ toD \subseteq Req \X {Failed, Success} /\ alive' /\ ~broken'
  BY DEF DisaggInv, PrefillTypes, NetTypes, Pend
<1>1. CASE PopPreallocated(r)
  <2>1. /\ r \in ready /\ dq' = [dq EXCEPT ![r] = "transfer"] /\ UNCHANGED <<dconc, dstatus, toD, alive, infos>>
        /\ dmeta' = [dmeta EXCEPT ![r] = Head(dslots)]
    BY <1>1 DEF PopPreallocated, decodeMgr, prefillMgr
  <2>2. PICK f \in [1 .. Chunks(r) -> dfree] :
          /\ dpages' = [dpages EXCEPT ![r] = f]
          /\ toP' = IF alive THEN [toP EXCEPT ![r] = [pages |-> f, aux |-> Head(dslots)]] ELSE toP
    BY <1>1 DEF PopPreallocated
  <2>3. /\ dq \in [Req -> {"new", "prealloc", "transfer", "running", "done"}]
        /\ dq[r] = "prealloc" /\ dmeta \in [Req -> Nat] /\ dpages \in [Req -> Seq(Page)]
    BY <2>1 DEF DisaggInv, DecodeTypes
  <2>4. dconc[r] = None /\ dstatus[r] = WaitingForInput
    BY <1>0, <2>1, Uncut DEF Delivery, Readied
  <2>5. (\A m \in toD : m[1] # r) /\ infos[r] = NoInfo /\ ~Handling(dt, r)
    BY <2>3 DEF DisaggInv, Traffic, Indices, Arrived, Threads, DecodeThreadOK
  <2>7. dt' = dt
    BY <1>1 DEF PopPreallocated, decodeMgr
  <2>6. toP'[r] = Dest(r)'
    BY <1>0, <2>1, <2>2, <2>3 DEF Dest
  <2> QED BY <2>1, <2>3, <2>4, <2>5, <2>6, <2>7 DEF Waits, Expects, Handling
<1>2. CASE ~PopPreallocated(r)
  <2>0. Pend(r) /\ Waits(r) /\ alive
    BY <1>2, PendMoves, Uncut DEF Delivery, Waiting, Pend
  <2>1. CASE DecodeNext
    <3>1. /\ dq'[r] = dq[r] /\ dconc'[r] = dconc[r] /\ dstatus'[r] = dstatus[r]
          /\ dpages'[r] = dpages[r] /\ dmeta'[r] = dmeta[r] /\ toP'[r] = toP[r]
          /\ ~Handling(dt, r)'
      BY <2>0, <2>1, WaitsKept
    <3>2. UNCHANGED infos /\ toD' \subseteq toD
      BY <2>1, DecodeFrame, DecodeMoves
    <3> QED BY <2>0, <3>1, <3>2 DEF Waits, Expects, Dest
  <2>2. CASE PrefillNext
    <3>1. UNCHANGED <<dq, dconc, dstatus, dpages, dmeta, dt>>
      BY <2>2, PrefillFrame
    <3>2. \A m \in toD' : m[1] # r
      <4>1. CASE toD' = toD
        BY <2>0, <4>1 DEF Waits
      <4>2. CASE WorkerReport /\ wk.stage = "tell" /\ ~broken
        <5>1. toD' = toD \cup {<<wk.c.room, wk.val>>}
          BY <4>2, TellEnds
        <5>2. ASSUME wk.c.room = r PROVE FALSE
          <6>1. toP'[r] = NoInfo /\ pq'[r] \in {"inflight", "done"} /\ ~Telling(r)'
            BY <4>2, <5>2, TellEnds DEF Telling, Untold
          <6>2. \A c \in Chunk : Outstanding(c)' => c.room # r
            BY <4>2, <5>2, TellEnds
          <6> QED BY <6>1, <6>2 DEF Pend
        <5> QED BY <2>0, <5>1, <5>2 DEF Waits
      <4> QED BY <1>0, <2>2, <4>1, <4>2, GoodSession
    <3>3. /\ toP'[r] = toP[r] \/ toP'[r] = NoInfo
          /\ \/ infos'[r] = infos[r]
             \/ infos'[r] = NoInfo
             \/ toP[r] # NoInfo /\ toP'[r] = NoInfo /\ infos'[r] = toP[r]
      BY <2>2, PrefillMoves
    <3> QED BY <2>0, <3>1, <3>2, <3>3 DEF Waits, Expects, Handling, Dest
  <2>3. CASE LoseMessage
    <3>1. UNCHANGED <<dq, dconc, dstatus, dpages, dmeta, infos, dt>>
      BY <2>3, LoseFrame
    <3>2. toD' \subseteq toD /\ (toP'[r] = toP[r] \/ toP'[r] = NoInfo)
      BY <1>0, <2>3 DEF LoseMessage
    <3> QED BY <2>0, <3>1, <3>2 DEF Waits, Expects, Handling, Dest
  <2>4. CASE PrefillCrash
    BY <1>0, <2>4 DEF PrefillCrash
  <2> QED BY <2>1, <2>2, <2>3, <2>4 DEF Next, Step
<1> QED BY <1>1, <1>2

\* The prefill scheduler leaves a request alone that is being sent, but for computing
\* its last chunk.
LEMMA BusyKept ==
  ASSUME DisaggInv, Next, PrefillNext, ~cut', NEW r \in Req, pq[r] \in {"sent", "inflight"},
         pconc[r] = None, pstatus[r] = WaitingForInput
  PROVE  /\ pconc'[r] = pconc[r] /\ pmeta'[r] = pmeta[r]
         /\ PrefillLastChunk(r) \/ (pq'[r] = pq[r] /\ ppages'[r] = ppages[r])
<1>0. /\ pq \in [Req -> {"new", "bootstrap", "waiting", "chunked", "sent", "inflight", "done"}]
      /\ pconc \in [Req -> {None, Failed, Success}] /\ pmeta \in [Req -> Nat]
      /\ ppages \in [Req -> Seq(Page)]
  BY DEF DisaggInv, PrefillTypes
<1>1. ~Concluded(r)
  BY DEF Concluded, Poll, WaitingForInput, Success, Failed
<1>2. ASSUME NEW q \in Req, \/ PrefillAdd(q) \/ BootstrapTimeout(q) \/ PopFailed(q)
                            \/ PopBootstrapped(q) \/ PrefillFirstChunk(q) \/ ProcessPrefillChunk(q)
                            \/ ProcessInflight(q) \/ AbortPrefill(q)
      PROVE  q # r
  <2>1. AbortPrefill(q) => pq[q] \in {"waiting", "bootstrap", "inflight"} /\ pq[q] # "inflight"
    BY Uncut DEF AbortPrefill, AbortQueued, AbortSender
  <2> QED BY <1>1, <1>2, <2>1 DEF PrefillAdd, BootstrapTimeout, PopFailed, PopBootstrapped,
          PrefillFirstChunk, ProcessPrefillChunk, ProcessInflight
<1>3. ASSUME NEW q \in Req, q # r, \/ PrefillAdd(q) \/ BootstrapTimeout(q) \/ PopFailed(q)
                            \/ PopBootstrapped(q) \/ PrefillFirstChunk(q) \/ ProcessPrefillChunk(q)
                            \/ ProcessInflight(q) \/ AbortPrefill(q) \/ PrefillLastChunk(q)
      PROVE  pq'[r] = pq[r] /\ pconc'[r] = pconc[r] /\ pmeta'[r] = pmeta[r] /\ ppages'[r] = ppages[r]
  BY <1>0, <1>3 DEF PrefillAdd, BootstrapTimeout, PopFailed, PopBootstrapped, PrefillFirstChunk,
     Compute, ProcessPrefillChunk, ProcessInflight, AbortPrefill, AbortQueued, AbortSender,
     PrefillLeave, PrefillLastChunk
<1>4. PrefillLastChunk(r) => UNCHANGED <<pconc, pmeta>>
  BY DEF PrefillLastChunk
<1>5. CASE UNCHANGED prefill
  BY <1>5 DEF prefill
<1>6. Worker \/ BootstrapUpdate \/ (\E q \in Req : BootstrapThread(q)) => UNCHANGED prefill
  BY QuietSteps DEF Worker, BootstrapThread, WorkerGet, WorkerSendKV, WorkerSendAux, WorkerCheck
<1> QED BY <1>2, <1>3, <1>4, <1>5, <1>6 DEF PrefillNext, PrefillLoop

\* The pages of a request after its last chunk was computed.
LEMMA LastPages ==
  ASSUME DisaggInv, NEW r \in Req, PrefillLastChunk(r)
  PROVE  /\ Len(ppages[r]) \in Nat /\ Len(ppages'[r]) = Len(ppages[r]) + 1
         /\ \A j \in 1 .. Len(ppages[r]) : ppages'[r][j] = ppages[r][j]
         /\ pq'[r] = "inflight"
<1>0. /\ scen \in Scenarios /\ PrefillTypes /\ PrefillPages /\ Computed
      /\ pq \in [Req -> {"new", "bootstrap", "waiting", "chunked", "sent", "inflight", "done"}]
  BY DEF DisaggInv, NetTypes, PrefillPages, PrefillTypes
<1>1. /\ pq[r] = "sent" \/ (pq[r] = "waiting" /\ Chunks(r) = 1)
      /\ pq' = [pq EXCEPT ![r] = "inflight"] /\ Compute(r, Chunks(r))
  BY DEF PrefillLastChunk
<1>2. Chunks(r) = Len(ppages[r]) + 1
  BY <1>0, <1>1, NextPage
<1>3. Len(ppages[r]) \in Nat
  BY <1>0, LenProperties DEF PrefillTypes
<1> QED BY <1>0, <1>1, <1>2, <1>3, ComputePages

\* Chunks on their way belong to requests that have not ended, with their pages.
LEMMA SourcesStep ==
  ASSUME DisaggInv, Next, ~cut'
  PROVE  Sources'
<1> SUFFICES ASSUME ~broken', NEW c \in Chunk, Outstanding(c)' PROVE Live(c)'
  BY DEF Sources
<1>0. /\ c.room \in Req /\ c.k \in {1, 2}
      /\ pq \in [Req -> {"new", "bootstrap", "waiting", "chunked", "sent", "inflight", "done"}]
  BY DEF DisaggInv, PrefillTypes, Chunk
<1>1. CASE DecodeNext \/ LoseMessage
  <2>1. UNCHANGED <<xq, wk, broken, pq, pconc, pstatus, ppages, pmeta>>
    BY <1>1, DecodeFrame, LoseFrame
  <2>2. Outstanding(c)
    BY <2>1 DEF Outstanding, InHand
  <2>3. Live(c)
    BY <2>1, <2>2, Uncut DEF Delivery, Sources
  <2> QED BY <2>1, <2>3 DEF Live
<1>2. CASE PrefillCrash
  <2>1. ~Outstanding(c)'
    BY <1>2 DEF PrefillCrash, Outstanding, InHand, Idle, Range
  <2> QED BY <2>1
<1>3. CASE PrefillNext /\ Outstanding(c)
  <2>0. Live(c) /\ ChunkOK(c)
    BY <1>3, GoodSession, Uncut DEF Delivery, Sources, DisaggInv, Traffic, Queued
  <2>1. /\ pconc'[c.room] = pconc[c.room] /\ pmeta'[c.room] = pmeta[c.room]
        /\ \/ PrefillLastChunk(c.room)
           \/ pq'[c.room] = pq[c.room] /\ ppages'[c.room] = ppages[c.room]
    BY <1>0, <1>3, <2>0, BusyKept DEF Live
  <2>2. pstatus'[c.room] = pstatus[c.room]
    <3>1. pq'[c.room] # "done" /\ pq[c.room] \in {"sent", "inflight"}
      BY <2>0, <2>1, LastPages, <1>0 DEF Live
    <3>2. ~AbortSender(c.room)
      BY <3>1 DEF AbortSender
    <3>3. ~Handling(bt, c.room)
      BY <1>0, <3>1 DEF DisaggInv, Threads, BootstrapOK
    <3>4. ASSUME WorkerReport, wk.stage = "store", wk.c.room = c.room PROVE FALSE
      <4>1. wk.c.last /\ (\A i \in 1 .. Len(xq) : xq[i].room # c.room)
        BY <1>3, <3>4, GoodSession DEF DisaggInv, Traffic, WorkerOK, Queued, InHand, Untold
      <4>2. xq' = xq /\ ~InHand'
        BY <3>4, WorkerReportIs, QuietSteps DEF DisaggInv, InHand, WorkerState
      <4>3. c \in Range(xq) /\ DOMAIN xq = 1 .. Len(xq)
        BY <4>2, LenProperties DEF Outstanding, DisaggInv, PrefillTypes
      <4> QED BY <4>1, <4>3 DEF Range
    <3> QED BY <1>0, <1>3, <3>1, <3>2, <3>3, <3>4, StatusMoves
  <2>3. CASE PrefillLastChunk(c.room)
    <3>1. pq[c.room] = "sent" /\ ~c.last
      BY <2>0, <2>3 DEF Live, ChunkOK, PrefillLastChunk
    <3>2. /\ Len(ppages[c.room]) \in Nat /\ Len(ppages'[c.room]) = Len(ppages[c.room]) + 1
          /\ \A j \in 1 .. Len(ppages[c.room]) : ppages'[c.room][j] = ppages[c.room][j]
          /\ pq'[c.room] = "inflight"
      BY <1>0, <2>3, LastPages
    <3>3. c.k <= Len(ppages[c.room]) /\ c.src = ppages[c.room][c.k]
      BY <2>0 DEF Live
    <3> DEFINE n == Len(ppages[c.room])
    <3>4. n \in Nat /\ c.k <= n
      BY <3>2, <3>3
    <3> HIDE DEF n
    <3>5. c.k \in 1 .. n /\ c.k <= n + 1
      BY <1>0, <3>4
    <3>6. c.k <= Len(ppages'[c.room]) /\ c.src = ppages'[c.room][c.k]
      BY <3>2, <3>3, <3>5 DEF n
    <3> QED BY <2>0, <2>1, <2>2, <3>1, <3>2, <3>6 DEF Live
  <2>4. CASE pq'[c.room] = pq[c.room] /\ ppages'[c.room] = ppages[c.room]
    BY <2>0, <2>1, <2>2, <2>4 DEF Live
  <2> QED BY <2>1, <2>3, <2>4
<1>4. CASE PrefillNext /\ ~Outstanding(c)
  <2>1. /\ ProcessPrefillChunk(c.room) \/ PrefillLastChunk(c.room)
        /\ pq[c.room] \in {"waiting", "chunked", "sent"}
        /\ pstatus[c.room] \notin {NoRoom, Failed}
        /\ c = NewChunk(c.room, c.k, ppages'[c.room])
        /\ c.k = Len(ppages'[c.room])
    BY <1>4, NewOutstanding
  <2>2. /\ pq'[c.room] \in {"sent", "inflight"} /\ UNCHANGED <<pconc, pstatus, pmeta>>
    BY <1>0, <2>1, Sends
  <2>3. pconc[c.room] = None /\ pstatus[c.room] = WaitingForInput
    BY <1>0, <2>1 DEF DisaggInv, Senders, SenderOK
  <2>a. \A r, k, pages : LET e == NewChunk(r, k, pages)
                         IN e.src = pages[k] /\ (e.last => e.aux = pmeta[r])
    BY DEF NewChunk
  <2>4. c.src = ppages'[c.room][c.k] /\ (c.last => c.aux = pmeta[c.room])
    BY <2>1, <2>a
  <2>5. c.k <= Len(ppages'[c.room])
    BY <1>0, <2>1
  <2> QED BY <2>2, <2>3, <2>4, <2>5 DEF Live
<1> QED BY <1>1, <1>2, <1>3, <1>4 DEF Next, Step

\* A chunk on its way over a good session means that prefill may still write.
LEMMA ChunkPend ==
  ASSUME DisaggInv, NEW c \in Chunk, Outstanding(c), ~broken
  PROVE  alive /\ Pend(c.room)
<1>1. alive
  BY DEF DisaggInv, Traffic, InFlight, Outstanding, InHand, Idle, Range
<1> QED BY <1>1 DEF Pend

\* The transfer thread holds the pages and the slot decode waits with.
LEMMA TargetStep ==
  ASSUME DisaggInv, Next, ~cut'
  PROVE  Target'
<1>0. Delivery /\ ~cut
  BY Uncut
<1> DEFINE Writes == wk.stage \in {"kv", "aux"}
<1>1. CASE WorkerLook
  <2> SUFFICES ASSUME Writes' PROVE (wk.info = Dest(wk.c.room))'
    BY DEF Target
  <2>1. wk.stage = "found" /\ wk \in WorkerState /\ wk.c \in Chunk /\ wk.c.room \in Req
        /\ Outstanding(wk.c) /\ UNCHANGED <<dpages, dmeta>>
    BY <1>1, WorkerRooms DEF WorkerLook, decode, DisaggInv, InHand
  <2>2. /\ ~broken /\ infos[wk.c.room] # NoInfo
        /\ wk'.c = wk.c /\ wk'.info = infos[wk.c.room]
    BY <1>1, <2>1 DEF WorkerLook, Reporting, WorkerState
  <2>3. infos[wk.c.room] = Dest(wk.c.room)
    BY <1>0, <2>1, <2>2, ChunkPend DEF Delivery, Waiting, Waits
  <2> QED BY <2>1, <2>2, <2>3 DEF Dest
<1>2. CASE UNCHANGED <<dpages, dmeta>> /\ (Writes' => Writes /\ wk'.c = wk.c /\ wk'.info = wk.info)
  BY <1>0, <1>2 DEF Delivery, Target, Dest
<1>3. CASE PrefillNext
  <2>1. UNCHANGED <<dpages, dmeta>>
    BY <1>3, PrefillFrame
  <2>2. CASE WorkerSendKV \/ WorkerSendAux \/ WorkerCheck
    <3>1. wk.stage # "idle"
      BY <2>2 DEF WorkerSendKV, WorkerSendAux, WorkerCheck
    <3>2. wk \in WorkerState
      BY <3>1, WorkerRooms DEF DisaggInv
    <3>3. WorkerSendKV => Writes /\ wk'.c = wk.c /\ wk'.info = wk.info
      BY <3>2 DEF WorkerSendKV, Reporting, WorkerState
    <3>4. WorkerSendAux => wk'.stage = "test"
      BY <3>2 DEF WorkerSendAux, Reporting, WorkerState
    <3>5. WorkerCheck => ~Writes'
      BY <3>2 DEF WorkerCheck, WorkerState, Idle
    <3> QED BY <1>2, <2>1, <2>2, <3>3, <3>4, <3>5
  <2>3. CASE UNCHANGED wk
    BY <1>2, <2>1, <2>3
  <2>4. WorkerReport => ~Writes'
    BY WorkerReportIs DEF DisaggInv, WorkerState
  <2>5. WorkerGet => ~Writes'
    BY DEF WorkerGet, Idle
  <2> QED BY <1>1, <1>2, <1>3, <2>1, <2>2, <2>3, <2>4, <2>5, ThreadFrame DEF Worker
<1>4. CASE PrefillCrash
  BY <1>4 DEF PrefillCrash, Target, Idle
<1>5. CASE LoseMessage
  BY <1>2, <1>5, LoseFrame
<1>6. CASE DecodeNext
  <2> SUFFICES ASSUME Writes' PROVE (wk.info = Dest(wk.c.room))'
    BY DEF Target
  <2>1. UNCHANGED wk /\ InHand /\ Writes /\ ~broken
    BY <1>6, DecodeFrame DEF InHand, DisaggInv, Traffic, WorkerOK
  <2>2. wk.c \in Chunk /\ wk.c.room \in Req /\ Outstanding(wk.c)
    BY <2>1, WorkerRooms DEF DisaggInv, InHand
  <2>3. alive /\ Waits(wk.c.room)
    BY <1>0, <2>1, <2>2, ChunkPend DEF Delivery, Waiting
  <2>4. dpages'[wk.c.room] = dpages[wk.c.room] /\ dmeta'[wk.c.room] = dmeta[wk.c.room]
    BY <1>6, <2>2, <2>3, WaitsKept
  <2> QED BY <1>0, <2>1, <2>4 DEF Delivery, Target, Dest
<1> QED BY <1>3, <1>4, <1>5, <1>6 DEF Next, Step

\* What send_kvcache writes, and where: a chunk of its own request, in the page decode
\* holds for it.
LEMMA SendKVWrites ==
  ASSUME DisaggInv, ~cut, WorkerSendKV
  PROVE  /\ wk.c \in Chunk /\ wk.c.room \in Req /\ wk.c.k \in 1 .. Len(dpages[wk.c.room])
         /\ dq[wk.c.room] = "transfer"
         /\ wk.info.pages[wk.c.k] = dpages[wk.c.room][wk.c.k]
         /\ dpages[wk.c.room][wk.c.k] \in DOMAIN dkv
         /\ pkv[wk.c.src] = <<wk.c.room, wk.c.k>>
<1>0. Delivery /\ InHand /\ wk.stage = "kv" /\ ~broken
  BY DEF DisaggInv, WorkerSendKV, InHand, Traffic, WorkerOK
<1>1. wk.c \in Chunk /\ wk.c.room \in Req /\ wk.c.k \in {1, 2} /\ Outstanding(wk.c)
  BY <1>0, WorkerRooms DEF DisaggInv, InHand, Chunk
<1>2. Waits(wk.c.room) /\ Live(wk.c) /\ wk.info = Dest(wk.c.room) /\ ChunkOK(wk.c)
  BY <1>0, <1>1, ChunkPend DEF Delivery, Waiting, Sources, Target, DisaggInv, Traffic, Queued
<1>3. dq[wk.c.room] = "transfer" /\ Len(dpages[wk.c.room]) = Chunks(wk.c.room)
      /\ dpages[wk.c.room] \in Seq(Page) /\ DOMAIN dkv = Page
      /\ ppages[wk.c.room] \in Seq(Page)
  BY <1>1, <1>2 DEF Waits, Expects, DisaggInv, DecodePages, DecodeTypes, PrefillTypes
<1> DEFINE n == Len(dpages[wk.c.room])
           m == Len(ppages[wk.c.room])
<1>4. n \in Nat /\ m \in Nat /\ wk.c.k <= n /\ wk.c.k <= m
  BY <1>2, <1>3, LenProperties DEF ChunkOK, Live
<1> HIDE DEF n, m
<1>5. wk.c.k \in 1 .. n /\ wk.c.k \in 1 .. m
  BY <1>1, <1>4
<1>6. dpages[wk.c.room][wk.c.k] \in Page
  BY <1>3, <1>5, ElementOfSeq DEF n
<1>7. pkv[ppages[wk.c.room][wk.c.k]] = <<wk.c.room, wk.c.k>>
  BY <1>1, <1>5 DEF m, DisaggInv, PrefillPages, Computed
<1> QED BY <1>1, <1>2, <1>3, <1>5, <1>6, <1>7 DEF Dest, Live, n

\* A write of the transfer thread never disturbs a chunk that has landed.
LEMMA LandedKept ==
  ASSUME DisaggInv, Next, PrefillNext, ~cut', NEW r \in Req, NEW k \in 1 .. Len(dpages[r]),
         Landed(r, k)
  PROVE  Landed(r, k)'
<1>0. UNCHANGED dpages /\ ~cut
  BY PrefillFrame, Uncut
<1>1. CASE UNCHANGED dkv
  BY <1>0, <1>1 DEF Landed
<1>2. CASE WorkerSendKV /\ dkv' = [dkv EXCEPT ![wk.info.pages[wk.c.k]] = pkv[wk.c.src]]
  <2>1. /\ wk.c.room \in Req /\ wk.c.k \in 1 .. Len(dpages[wk.c.room])
        /\ dq[wk.c.room] = "transfer"
        /\ wk.info.pages[wk.c.k] = dpages[wk.c.room][wk.c.k]
        /\ dpages[wk.c.room][wk.c.k] \in DOMAIN dkv
        /\ pkv[wk.c.src] = <<wk.c.room, wk.c.k>>
    BY <1>0, <1>2, SendKVWrites
  <2>a. PICK s \in Req : s = wk.c.room
    BY <2>1
  <2>b. PICK j \in 1 .. Len(dpages[s]) : j = wk.c.k
    BY <2>1, <2>a
  <2>2. /\ dq[s] = "transfer" /\ dpages[s][j] \in DOMAIN dkv
        /\ dkv' = [dkv EXCEPT ![dpages[s][j]] = <<s, j>>]
    BY <1>2, <2>1, <2>a, <2>b
  <2>3. CASE dpages[r][k] # dpages[s][j]
    BY <1>0, <2>2, <2>3 DEF Landed
  <2>4. CASE dpages[r][k] = dpages[s][j]
    <3>1. /\ dpages[r] \in Seq(Page) /\ dpages[s] \in Seq(Page) /\ IsInjective(dpages[s])
          /\ \A q \in Req : q # s => Range(dpages[q]) \cap Range(dpages[s]) = {}
      BY <2>2 DEF DisaggInv, DecodeTypes, DecodePages, PagesExact
    <3>2. DOMAIN dpages[r] = 1 .. Len(dpages[r]) /\ DOMAIN dpages[s] = 1 .. Len(dpages[s])
      BY <3>1, LenProperties
    <3>3. dpages[r][k] \in Range(dpages[r]) /\ dpages[s][j] \in Range(dpages[s])
      BY <3>2 DEF Range
    <3>4. r = s
      BY <2>4, <3>1, <3>3
    <3>5. k = j
      BY <2>4, <3>1, <3>2, <3>4 DEF IsInjective
    <3> QED BY <1>0, <2>2, <3>4, <3>5 DEF Landed
  <2> QED BY <2>3, <2>4
<1> QED BY <1>1, <1>2, ThreadFrame, QuietSteps
        DEF Worker, WorkerGet, WorkerSendKV, WorkerSendAux, WorkerCheck, memory

\* A request that is being sent over a good session is waited for.
LEMMA SentWaits ==
  ASSUME DisaggInv, ~cut, ~broken, NEW r \in Req, pq[r] \in {"sent", "inflight"},
         pstatus[r] = WaitingForInput
  PROVE  /\ alive /\ Waits(r) /\ pconc[r] = None /\ infos[r] # NoInfo
         /\ Len(ppages[r]) \in Nat /\ Len(dpages[r]) \in Nat /\ Len(ppages[r]) <= Len(dpages[r])
<1>0. Delivery
  BY DEF DisaggInv
<1>1. alive /\ infos[r] # NoInfo
  BY DEF DisaggInv, Traffic, InFlight, Senders, SenderOK
<1>4. Waits(r) /\ pconc[r] = None
  <2>1. CASE pq[r] = "sent"
    BY <1>0, <1>1, <2>1 DEF Delivery, Waiting, Pend, DisaggInv, Senders, SenderOK
  <2>2. CASE pq[r] = "inflight"
    <3>1. PICK c \in Chunk : Outstanding(c) /\ c.room = r
      BY <2>2 DEF DisaggInv, Traffic, InFlight
    <3> QED BY <1>0, <1>1, <3>1 DEF Delivery, Waiting, Sources, Live, Pend
  <2> QED BY <2>1, <2>2
<1> DEFINE n == Len(ppages[r])
           m == Len(dpages[r])
<1>5. n \in Nat /\ m \in Nat
  BY LenProperties DEF DisaggInv, PrefillTypes, DecodeTypes
<1>6. (n = m \/ (n = 1 /\ m = 2))
  BY <1>4 DEF Waits, Expects, DisaggInv, DecodePages, PrefillPages
<1> HIDE DEF n, m
<1>7. n <= m
  BY <1>5, <1>6
<1> QED BY <1>1, <1>4, <1>5, <1>7 DEF n, m

\* A chunk that is coming lands, or is still coming.
LEMMA ComingKept ==
  ASSUME DisaggInv, Next, PrefillNext, ~cut', ~broken', NEW r \in Req, infos[r] # NoInfo, NEW k,
         Coming(r, k)
  PROVE  Landed(r, k)' \/ Coming(r, k)'
<1>0. xq \in Seq(Chunk) /\ ~broken /\ ~cut
  BY GoodSession, Uncut DEF DisaggInv, PrefillTypes
<1>1. PICK c \in Chunk : /\ c.room = r /\ c.k = k
                         /\ c \in Range(xq) \/ (wk.stage \in {"found", "kv"} /\ c = wk.c)
  BY DEF Coming
<1>2. CASE c \in Range(xq')
  BY <1>1, <1>2 DEF Coming
<1>3. CASE WorkerGet
  <2>1. xq # <<>> /\ xq' = Tail(xq) /\ wk.stage = "idle"
    BY <1>3 DEF WorkerGet
  <2>2. c \in Range(xq) /\ Range(xq) = Range(xq') \cup {Head(xq)}
    BY <1>0, <1>1, <2>1, TailRange
  <2>3. CASE c = Head(xq)
    <3>1. wk'.stage = "found" /\ wk'.c = c
      BY <1>1, <1>3, <2>3 DEF WorkerGet, Idle
    <3> QED BY <1>1, <3>1 DEF Coming
  <2> QED BY <1>2, <2>2, <2>3
<1>8. CASE WorkerLook
  <2>1. xq' = xq /\ wk.stage = "found" /\ wk \in WorkerState
    BY <1>8, WorkerRooms DEF WorkerLook, DisaggInv
  <2>2. CASE c = wk.c
    <3>1. wk'.stage = "kv" /\ wk'.c = c
      BY <1>0, <1>1, <1>8, <2>1, <2>2 DEF WorkerLook, WorkerState
    <3> QED BY <1>1, <3>1 DEF Coming
  <2> QED BY <1>1, <1>2, <2>1, <2>2
<1>4. CASE WorkerSendKV
  <2>1. xq' = xq /\ wk.stage = "kv" /\ UNCHANGED dpages
    BY <1>4 DEF WorkerSendKV, decode
  <2>2. CASE c = wk.c
    <3>1. dkv' = [dkv EXCEPT ![wk.info.pages[wk.c.k]] = pkv[wk.c.src]]
      BY <1>4, GoodSession
    <3>2. dkv' = [dkv EXCEPT ![dpages[r][k]] = <<r, k>>] /\ dpages[r][k] \in DOMAIN dkv
      BY <1>0, <1>1, <1>4, <2>2, <3>1, SendKVWrites
    <3> QED BY <2>1, <3>2 DEF Landed
  <2> QED BY <1>1, <1>2, <2>1, <2>2
<1>5. CASE WorkerSendAux \/ WorkerReport \/ WorkerCheck
  <2>1. xq' = xq /\ wk.stage \notin {"found", "kv"}
    BY <1>5 DEF WorkerSendAux, WorkerReport, Updating, WorkerCheck
  <2> QED BY <1>1, <1>2, <2>1
<1>6. CASE UNCHANGED wk /\ Range(xq) \subseteq Range(xq')
  BY <1>1, <1>2, <1>6 DEF Coming
<1>7. ASSUME NEW q \in Req, ProcessPrefillChunk(q) \/ PrefillLastChunk(q)
      PROVE  UNCHANGED wk /\ Range(xq) \subseteq Range(xq')
  <2>1. PICK i \in {1, 2} :
           /\ NewChunk(q, i, ppages'[q]) \in Chunk
           /\ xq' = IF pstatus[q] \in {NoRoom, Failed} \/ infos[q] = NoInfo THEN xq
                    ELSE Append(xq, NewChunk(q, i, ppages'[q]))
           /\ UNCHANGED wk
    BY <1>7, Sends
  <2> QED BY <1>0, <2>1, AppendRange
<1> QED BY <1>3, <1>4, <1>5, <1>6, <1>7, <1>8
        DEF PrefillNext, PrefillLoop, Worker, prefillMgr, PrefillAdd, BootstrapTimeout, PopFailed,
            PopBootstrapped, PrefillFirstChunk, ProcessInflight, AbortPrefill, BootstrapThread,
            BootstrapUpdate

\* Every chunk computed for a request that is being sent has landed or is coming.
LEMMA WrittenStep ==
  ASSUME DisaggInv, Next, ~cut'
  PROVE  Written'
<1> SUFFICES ASSUME ~broken', NEW r \in Req, pq'[r] \in {"sent", "inflight"},
                    pstatus'[r] = WaitingForInput, NEW k \in 1 .. Len(ppages'[r])
             PROVE  Landed(r, k)' \/ Coming(r, k)'
  BY DEF Written
<1>0. ~cut /\ Delivery
  BY Uncut
<1>1. CASE DecodeNext \/ LoseMessage
  <2>1. UNCHANGED <<pq, pstatus, ppages, xq, wk, dkv, broken>>
    BY <1>1, DecodeFrame, LoseFrame
  <2>2. Landed(r, k) \/ Coming(r, k)
    BY <1>0, <2>1 DEF Delivery, Written
  <2>3. dpages'[r] = dpages[r]
    <3>1. alive /\ Waits(r)
      BY <1>0, <2>1, SentWaits
    <3> QED BY <1>1, <3>1, WaitsKept, LoseFrame
  <2> QED BY <2>1, <2>2, <2>3 DEF Landed, Coming
<1>2. CASE PrefillCrash
  BY <1>2 DEF PrefillCrash
<1>3. CASE PrefillNext
  <2>0. ~broken
    BY <1>3, GoodSession
  <2>1. \/ ProcessPrefillChunk(r) \/ PrefillLastChunk(r)
        \/ pq[r] \in {"sent", "inflight"}
    BY <1>3 DEF PrefillNext, PrefillLoop, Worker, prefill, PrefillAdd, BootstrapTimeout,
                PrefillLeave, PopFailed, PopBootstrapped, PrefillFirstChunk, ProcessPrefillChunk,
                PrefillLastChunk, ProcessInflight, AbortPrefill, AbortQueued, AbortSender,
                BootstrapThread, BootstrapUpdate, WorkerGet, WorkerLook, WorkerReport, WorkerSendKV,
                WorkerSendAux, WorkerCheck, DisaggInv, PrefillTypes
  <2>2. pq[r] \in {"waiting", "chunked", "sent", "inflight"}
    BY <2>1 DEF ProcessPrefillChunk, PrefillLastChunk
  <2>3. pstatus[r] = WaitingForInput /\ infos[r] # NoInfo
    <3>1. pstatus[r] = WaitingForInput
      BY <1>3, <2>2, StillWaiting
    <3> QED BY <2>2, <3>1 DEF DisaggInv, Senders, SenderOK
  <2>4. ASSUME pq[r] \in {"sent", "inflight"}, k \in 1 .. Len(ppages[r])
        PROVE  Landed(r, k)' \/ Coming(r, k)'
    <3>1. Landed(r, k) \/ Coming(r, k)
      BY <1>0, <2>0, <2>3, <2>4 DEF Delivery, Written
    <3>2. /\ Len(ppages[r]) \in Nat /\ Len(dpages[r]) \in Nat /\ Len(ppages[r]) <= Len(dpages[r])
      BY <1>0, <2>0, <2>3, <2>4, SentWaits
    <3>3. k \in 1 .. Len(dpages[r])
      BY <2>4, <3>2
    <3> QED BY <1>3, <2>3, <3>1, <3>3, LandedKept, ComingKept
  <2>5. CASE ProcessPrefillChunk(r) \/ PrefillLastChunk(r)
    <3>1. PICK i \in {1, 2} :
           /\ i = Len(ppages'[r])
           /\ \/ pq[r] = "waiting" /\ i = 1 /\ Chunks(r) = 1
              \/ pq[r] = "chunked" /\ i = 1 /\ Chunks(r) = 2
              \/ pq[r] = "sent" /\ i = 2 /\ Chunks(r) = 2
           /\ NewChunk(r, i, ppages'[r]) \in Chunk
           /\ xq' = IF pstatus[r] \in {NoRoom, Failed} \/ infos[r] = NoInfo THEN xq
                    ELSE Append(xq, NewChunk(r, i, ppages'[r]))
      BY <2>5, Sends
    <3>2. PICK e \in Chunk : e = NewChunk(r, i, ppages'[r])
      BY <3>1
    <3>3. pstatus[r] \notin {NoRoom, Failed}
      BY <2>3 DEF WaitingForInput, NoRoom, Failed
    <3>4. xq' = Append(xq, e)
      BY <2>3, <3>1, <3>2, <3>3
    <3>5. e.room = r /\ e.k = i /\ e \in Range(xq')
      BY <3>2, <3>4, AppendRange DEF NewChunk, DisaggInv, PrefillTypes
    <3>6. CASE k = i
      BY <3>5, <3>6 DEF Coming
    <3>7. CASE k # i
      <4>a. k \in 1 .. i
        BY <3>1
      <4>b. k = 1 /\ i = 2
        BY <3>7, <4>a
      <4>1. k = 1 /\ pq[r] = "sent"
        BY <3>1, <4>b
      <4>2. Len(ppages[r]) = 1
        BY <4>1 DEF DisaggInv, PrefillPages
      <4>3. k \in 1 .. Len(ppages[r])
        BY <4>1, <4>2
      <4> QED BY <2>4, <4>1, <4>3
    <3> QED BY <3>6, <3>7
  <2>6. CASE ~(ProcessPrefillChunk(r) \/ PrefillLastChunk(r))
    <3>1. pq[r] \in {"sent", "inflight"}
      BY <2>1, <2>6
    <3>2. pconc[r] = None
      BY <1>0, <2>0, <2>3, <3>1, SentWaits
    <3>3. ppages'[r] = ppages[r]
      BY <1>3, <2>3, <2>6, <3>1, <3>2, BusyKept
    <3> QED BY <2>4, <3>1, <3>3
  <2> QED BY <2>5, <2>6
<1> QED BY <1>1, <1>2, <1>3 DEF Next, Step

\* The metadata of a request lands in the slot decode holds for it, once all of its
\* chunks have landed.
LEMMA SendAuxWrites ==
  ASSUME DisaggInv, ~cut, WorkerSendAux
  PROVE  /\ wk.c.room \in Req /\ dq[wk.c.room] = "transfer" /\ dstatus[wk.c.room] = WaitingForInput
         /\ OwnKV(wk.c.room)
         /\ wk.info.aux = dmeta[wk.c.room] /\ dmeta[wk.c.room] \in DOMAIN dbuf
         /\ pbuf[wk.c.aux] = wk.c.room
<1>0. Delivery /\ InHand /\ ~broken /\ wk.stage = "aux" /\ wk.c.last
  BY DEF DisaggInv, WorkerSendAux, InHand, Traffic, WorkerOK
<1>1. wk.c \in Chunk /\ wk.c.room \in Req /\ Outstanding(wk.c)
  BY <1>0, WorkerRooms DEF DisaggInv, InHand
<1>2. Waits(wk.c.room) /\ Live(wk.c) /\ wk.info = Dest(wk.c.room) /\ ChunkOK(wk.c)
  BY <1>0, <1>1, ChunkPend DEF Delivery, Waiting, Sources, Target, DisaggInv, Traffic, Queued
<1>3. PICK r \in Req : r = wk.c.room
  BY <1>1
<1>4. pq[r] = "inflight" /\ pstatus[r] = WaitingForInput /\ dq[r] = "transfer"
  BY <1>0, <1>2, <1>3 DEF Live, ChunkOK, Waits, Expects
<1>5. Len(ppages[r]) = Chunks(r) /\ pbuf[pmeta[r]] = r
  BY <1>4 DEF DisaggInv, PrefillPages, PrefillSlots
<1>6. ASSUME NEW k \in 1 .. Chunks(r) PROVE Landed(r, k)
  <2>1. Landed(r, k) \/ Coming(r, k)
    BY <1>0, <1>4, <1>5 DEF Delivery, Written
  <2>2. ~Coming(r, k)
    <3>1. \A i \in 1 .. Len(xq) : xq[i].room # r
      BY <1>0, <1>3 DEF DisaggInv, Traffic, Queued, Untold
    <3>2. DOMAIN xq = 1 .. Len(xq)
      BY LenProperties DEF DisaggInv, PrefillTypes
    <3> QED BY <1>0, <3>1, <3>2 DEF Coming, Range
  <2> QED BY <2>1, <2>2
<1>7. OwnKV(r)
  BY <1>6 DEF OwnKV, Landed
<1>8. dmeta[r] # 0 /\ dmeta[r] \in DOMAIN dbuf
  BY <1>4 DEF DisaggInv, DecodeSlots, EachOnce, DecodeTypes
<1> QED BY <1>0, <1>1, <1>2, <1>3, <1>4, <1>5, <1>7, <1>8 DEF Dest, Live, Waits, Expects

\* The status that the worker goes on to report.
LEMMA ReportingIs ==
  ASSUME wk \in WorkerState, NEW s
  PROVE  Reporting(s).val = s /\ Reporting(s).stage = "test" /\ Reporting(s).c = wk.c
BY DEF Reporting, WorkerState

\* Decode comes to be told of a request by the metadata step only.
LEMMA ToldMoves ==
  ASSUME DisaggInv, PrefillNext, NEW r \in Req, Told(r)'
  PROVE  \/ Told(r)
         \/ WorkerSendAux /\ wk' = Reporting(Success) /\ wk.c.room = r
<1>0. UNCHANGED <<dq, dstatus, dt>> /\ dq[r] = "transfer"
  BY PrefillFrame DEF Told
<1> DEFINE Says == wk.stage \in {"test", "read", "store", "tell"} /\ wk.c.room = r /\ wk.val = Success
<1>1. CASE WorkerReport
  <2>1. wk \in WorkerState /\ toD \subseteq Req \X {Failed, Success}
    BY <1>1, WorkerReportIs DEF DisaggInv, NetTypes
  <2>2. /\ <<r, Success>> \in toD' => <<r, Success>> \in toD \/ Says
        /\ Says' => Says
    BY <1>1, <2>1, WorkerReportIs DEF DisaggInv, WorkerState
  <2> QED BY <1>0, <2>2 DEF Told, Handling
<1>2. CASE UNCHANGED toD /\ (Says' => Says)
  BY <1>0, <1>2 DEF Told, Handling
<1>3. CASE WorkerLook \/ WorkerSendKV
  <2>1. wk \in WorkerState /\ UNCHANGED toD
    BY <1>3, WorkerRooms DEF WorkerLook, WorkerSendKV, net, DisaggInv
  <2>2. wk' = Reporting(Failed) \/ wk'.stage \in {"dead", "kv", "aux", "check"}
    BY <1>3, <2>1 DEF WorkerLook, WorkerSendKV, WorkerState
  <2>3. ~Says'
    BY <2>1, <2>2, ReportingIs DEF Failed, Success
  <2> QED BY <1>2, <2>1, <2>3
<1>4. CASE WorkerGet \/ WorkerCheck
  <2>1. UNCHANGED toD
    BY <1>4 DEF WorkerGet, WorkerCheck, net
  <2>2. WorkerGet => ~Says'
    BY DEF WorkerGet, Idle
  <2>3. WorkerCheck => wk.stage # "idle"
    BY DEF WorkerCheck
  <2>4. WorkerCheck => wk \in WorkerState
    BY <2>3, WorkerRooms DEF DisaggInv
  <2>5. WorkerCheck => ~Says'
    BY <2>4 DEF WorkerCheck, WorkerState, Idle
  <2> QED BY <1>2, <1>4, <2>1, <2>2, <2>5
<1>5. CASE WorkerSendAux
  <2>1. wk.stage = "aux" /\ UNCHANGED toD /\ (wk' = Reporting(Failed) \/ wk' = Reporting(Success))
    BY <1>5 DEF WorkerSendAux, net
  <2>2. wk \in WorkerState
    BY <2>1, WorkerRooms DEF DisaggInv
  <2>3. Says' => wk' = Reporting(Success) /\ wk.c.room = r
    BY <2>1, <2>2 DEF Reporting, WorkerState, Failed, Success
  <2> QED BY <1>0, <1>2, <1>5, <2>1, <2>3
<1>6. CASE UNCHANGED <<wk, toD>>
  BY <1>2, <1>6
<1> QED BY <1>1, <1>3, <1>4, <1>5, <1>6, ThreadFrame DEF Worker

\* What decode is told of is complete, and stays so until the request has ended.
LEMMA CompleteStep ==
  ASSUME DisaggInv, Next, ~cut'
  PROVE  Complete'
<1>0. /\ ~cut /\ Delivery
      /\ \A r \in Req : Told(r) => OwnKV(r) /\ dbuf[dmeta[r]] = r
      /\ \A r \in Req : dq[r] = "running" => OwnKV(r)
      /\ corrupt = {}
  BY Uncut DEF Delivery, Complete
<1>a. /\ dq \in [Req -> {"new", "prealloc", "transfer", "running", "done"}]
      /\ dstatus \in [Req -> Statuses] /\ dconc \in [Req -> {None, Failed, Success}]
      /\ dmeta \in [Req -> Nat] /\ dpages \in [Req -> Seq(Page)]
      /\ toD \subseteq Req \X {Failed, Success}
      /\ ready \subseteq {q \in Req : dq[q] = "prealloc"}
      /\ \A r \in Req : Chunks(r)' = Chunks(r)
  BY DEF DisaggInv, DecodeTypes, NetTypes, Next, Chunks
<1>1. CASE PrefillNext
  <2>1. UNCHANGED <<dq, dstatus, dpages, dmeta, corrupt>>
    BY <1>1, PrefillFrame
  <2>2. ASSUME NEW r \in Req, dq[r] \in {"transfer", "running"}, OwnKV(r) PROVE OwnKV(r)'
    <3>1. Len(dpages[r]) = Chunks(r)
      BY <2>2 DEF DisaggInv, DecodePages
    <3>2. \A k \in 1 .. Chunks(r) : Landed(r, k)
      BY <2>2 DEF OwnKV, Landed
    <3>3. \A k \in 1 .. Chunks(r) : Landed(r, k)'
      BY <1>1, <3>1, <3>2, LandedKept
    <3> QED BY <1>a, <3>3 DEF OwnKV, Landed
  <2>3. CASE WorkerSendAux
    <3>1. /\ wk.c.room \in Req /\ dq[wk.c.room] = "transfer"
          /\ OwnKV(wk.c.room)
          /\ wk.info.aux = dmeta[wk.c.room] /\ dmeta[wk.c.room] \in DOMAIN dbuf
          /\ pbuf[wk.c.aux] = wk.c.room
      BY <1>0, <2>3, SendAuxWrites
    <3>2. PICK s \in Req : s = wk.c.room
      BY <3>1
    <3>3. \/ dbuf' = [dbuf EXCEPT ![dmeta[s]] = s]
          \/ dbuf' = dbuf /\ wk' = Reporting(Failed)
      BY <2>3, <3>1, <3>2 DEF WorkerSendAux
    <3>a. wk' = Reporting(Failed) => wk' # Reporting(Success)
      <4>1. wk \in WorkerState
        BY <2>3, WorkerRooms DEF WorkerSendAux, DisaggInv
      <4> QED BY <4>1, ReportingIs DEF Failed, Success
    <3>4. ASSUME NEW r \in Req, Told(r)' PROVE OwnKV(r)' /\ dbuf'[dmeta'[r]] = r
      <4>0. dq[r] = "transfer"
        BY <2>1, <3>4 DEF Told
      <4>1. CASE r = s /\ dbuf' = [dbuf EXCEPT ![dmeta[s]] = s]
        BY <2>1, <2>2, <3>1, <3>2, <4>0, <4>1
      <4>2. CASE ~(r = s /\ dbuf' = [dbuf EXCEPT ![dmeta[s]] = s])
        <5>1. Told(r)
          BY <1>1, <3>2, <3>3, <3>4, <3>a, <4>2, ToldMoves
        <5>2. OwnKV(r)' /\ dbuf[dmeta[r]] = r
          BY <1>0, <2>2, <4>0, <5>1
        <5>3. /\ r # s => dmeta[r] # dmeta[s]
              /\ dmeta[r] \in DOMAIN dbuf
          BY <4>0 DEF DisaggInv, DecodeSlots, Apart, EachOnce, DecodeTypes
        <5>4. dbuf'[dmeta[r]] = dbuf[dmeta[r]]
          BY <3>3, <4>2, <5>3
        <5> QED BY <2>1, <5>2, <5>4
      <4> QED BY <4>1, <4>2
    <3> QED BY <1>0, <2>1, <2>2, <3>4 DEF Complete
  <2>4. CASE ~WorkerSendAux
    <3>1. dbuf' = dbuf
      BY <1>1, <2>4, ThreadFrame, QuietSteps DEF Worker, WorkerGet, WorkerSendKV, WorkerCheck, memory
    <3>3. ASSUME NEW r \in Req, Told(r)' PROVE OwnKV(r)' /\ dbuf'[dmeta'[r]] = r
      <4>1. Told(r) /\ dq[r] = "transfer"
        BY <1>1, <2>1, <2>4, <3>3, ToldMoves DEF Told
      <4> QED BY <1>0, <2>1, <2>2, <3>1, <4>1
    <3> QED BY <1>0, <2>1, <2>2, <3>3 DEF Complete
  <2> QED BY <2>3, <2>4
<1>2. CASE PrefillCrash \/ LoseMessage
  <2>1. UNCHANGED <<dq, dstatus, dpages, dmeta, corrupt, dbuf, dkv, dt>> /\ toD' \subseteq toD
    BY <1>2, PrefillFrame, LoseFrame DEF PrefillCrash, LoseMessage, memory
  <2>2. wk' = wk \/ wk'.stage = "idle"
    BY <1>2, LoseFrame DEF PrefillCrash, Idle
  <2>3. \A r \in Req : (OwnKV(r) => OwnKV(r)') /\ (Told(r)' => Told(r))
    BY <1>a, <2>1, <2>2 DEF Told, OwnKV, Handling
  <2> QED BY <1>0, <2>1, <2>3 DEF Complete
<1>3. CASE DecodeNext
  <2>1. UNCHANGED <<dbuf, dkv>> /\ toD' \subseteq toD
    BY <1>3, DecodeFrame, DecodeMoves
  <2>2. ASSUME NEW q \in Req, PopTransferred(q)
        PROVE  dstatus[q] = Success /\ Told(q) /\ OwnKV(q) /\ dbuf[dmeta[q]] = q
    <3>1. dq[q] = "transfer" /\ Poll(dconc, dstatus, q) = Success
      BY <2>2 DEF PopTransferred
    <3>2. dstatus[q] = Success
      BY <3>1 DEF Poll, DisaggInv, Receivers, ReceiverOK, None, Failed, Success
    <3> QED BY <1>0, <3>1, <3>2 DEF Told
  <2>3. corrupt' = {}
    <3>1. ASSUME NEW q \in Req, PopTransferred(q) PROVE corrupt' = corrupt
      BY <2>2, <3>1 DEF PopTransferred
    <3> QED BY <1>0, <1>3, <3>1 DEF DecodeNext, DecodeLoop, answers, DecodeAdd,
                                    UpdateHandshakeWaiter, PopPreallocated, WaitingTimeout,
                                    PopTransferFailed, DecodeFinish, AbortDecode, ResolvePending,
                                    EnsureFails, DecodeThread, DecodeUpdate, FailRooms, HeartbeatOK,
                                    HandleNodeFailure
  <2>4. ASSUME NEW r \in Req
        PROVE  /\ dq'[r] = "running" => dpages'[r] = dpages[r] /\ (dq[r] = "running" \/ Told(r))
               /\ Told(r)' => Told(r) /\ dpages'[r] = dpages[r] /\ dmeta'[r] = dmeta[r]
    <3> DEFINE Else == \/ <<r, Success>> \in toD
                       \/ Handling(dt, r) /\ dt.val = Success
                       \/ /\ wk.stage \in {"test", "read", "store", "tell"} /\ wk.c.room = r
                          /\ wk.val = Success
    <3>a. Told(r) <=> dq[r] = "transfer" /\ (dstatus[r] = Success \/ Else)
      BY DEF Told
    <3>b. Told(r)' <=> dq'[r] = "transfer" /\ (dstatus'[r] = Success \/ Else')
      BY DEF Told
    <3>w. wk' = wk
      BY <1>3, DecodeFrame
    <3>t. dt' = dt => (Else' => Else)
      BY <2>1, <3>w DEF Handling
    <3>e. Else => dq[r] \notin {"new", "prealloc"}
      BY DEF DisaggInv, Traffic, Indices, WorkerOK, Arrived, Threads, DecodeThreadOK
    <3> HIDE DEF Else
    <3>1. ASSUME NEW q \in Req, DecodeAdd(q)
          PROVE  /\ UNCHANGED <<dpages, dmeta, dt>> /\ (r = q => dq'[r] = "prealloc")
                 /\ r # q => dq'[r] = dq[r] /\ dstatus'[r] = dstatus[r]
      <4>1. PICK s \in Statuses \ {NoRoom} : dstatus' = UpdateStatus(dstatus, q, s)
        BY <3>1, StatusesKnown DEF DecodeAdd
      <4>2. dstatus \in [Req -> Statuses]
        BY <1>a
      <4>3. r # q => dstatus'[r] = dstatus[r]
        BY <4>1, <4>2, UpdateStatusIs
      <4> QED BY <1>a, <3>1, <4>3, QuietSteps
    <3>2. CASE \E q \in Req : DecodeAdd(q)
      BY <3>1, <3>2, <3>a, <3>b, <3>t
    <3>3. ASSUME NEW q \in Req, \/ UpdateHandshakeWaiter(q) \/ PopTransferFailed(q)
                                \/ DecodeFinish(q)
          PROVE  /\ dt' = dt
                 /\ \/ UNCHANGED <<dq, dstatus, dpages, dmeta>>
                    \/ /\ r = q => dq'[r] = "done"
                       /\ r # q => /\ dq'[r] = dq[r] /\ dstatus'[r] = dstatus[r]
                                   /\ dpages'[r] = dpages[r] /\ dmeta'[r] = dmeta[r]
      BY <1>a, <3>3 DEF UpdateHandshakeWaiter, PopTransferFailed, DecodeFinish, ClearReceiver,
         DecodeLeave, Released, decodeMgr
    <3>4. CASE \E q \in Req : UpdateHandshakeWaiter(q) \/ PopTransferFailed(q) \/ DecodeFinish(q)
      BY <3>3, <3>4, <3>a, <3>b, <3>t
    <3>5. ASSUME NEW q \in Req, PopTransferred(q)
          PROVE  /\ r = q => dq'[r] = "running" /\ dpages'[r] = dpages[r] /\ Told(r)
                 /\ r # q => /\ dq'[r] = dq[r] /\ dstatus'[r] = dstatus[r]
                             /\ dpages'[r] = dpages[r] /\ dmeta'[r] = dmeta[r]
                 /\ dt' = dt
      BY <1>a, <2>2, <3>5 DEF PopTransferred, ClearReceiver
    <3>6. CASE \E q \in Req : PopTransferred(q)
      BY <3>5, <3>6, <3>a, <3>b, <3>t
    <3>7. ASSUME NEW q \in Req, PopPreallocated(q)
          PROVE  /\ r = q => dq'[r] = "transfer" /\ ~Told(r)'
                 /\ r # q => /\ dq'[r] = dq[r] /\ dstatus'[r] = dstatus[r]
                             /\ dpages'[r] = dpages[r] /\ dmeta'[r] = dmeta[r]
                 /\ dt' = dt
      <4>1. /\ q \in ready /\ dq[q] = "prealloc" /\ UNCHANGED <<dstatus, dt>>
            /\ dq' = [dq EXCEPT ![q] = "transfer"]
        BY <1>a, <3>7 DEF PopPreallocated, decodeMgr
      <4>2. dstatus[q] # Success
        BY <4>1 DEF DisaggInv, Receivers, ReceiverOK, Failed, WaitingForInput, Success
      <4>3. r = q => ~Told(r)'
        BY <3>b, <3>e, <3>t, <4>1, <4>2
      <4> QED BY <1>a, <3>7, <4>1, <4>3 DEF PopPreallocated
    <3>8. CASE \E q \in Req : PopPreallocated(q)
      BY <3>7, <3>8, <3>a, <3>b, <3>t
    <3>9. CASE ResolvePending \/ EnsureFails
      <4>1. UNCHANGED <<dq, dpages, dmeta, dt>> /\ (r \notin pending => dstatus'[r] = dstatus[r])
        BY <1>a, <3>9 DEF ResolvePending, EnsureFails
      <4>2. r \in pending => dq[r] # "transfer"
        BY DEF DisaggInv, Receivers, ReceiverOK
      <4> QED BY <3>a, <3>b, <3>t, <4>1, <4>2
    <3>10. CASE DecodeThread
      <4>1. PICK m \in toD : \/ dt' = Resting
                             \/ dt' = [stage |-> IF m[2] = Success THEN "count" ELSE "test",
                                       room |-> m[1], val |-> m[2]]
        BY <3>10 DEF DecodeThread
      <4>2. m = <<m[1], m[2]>>
        BY <1>a
      <4>3. Handling(dt, r)' /\ dt'.val = Success => <<r, Success>> \in toD
        BY <4>1, <4>2 DEF Handling, Resting
      <4>4. Else' => Else
        BY <2>1, <3>w, <4>3 DEF Else
      <4>5. UNCHANGED <<dq, dpages, dmeta, dstatus>>
        BY <3>10 DEF DecodeThread, decode
      <4> QED BY <3>a, <3>b, <4>4, <4>5
    <3>11. CASE DecodeUpdate
      <4>1. UNCHANGED <<dq, dpages, dmeta, toD>>
        BY <3>11, QuietSteps DEF decode
      <4>2. /\ dt.room \in Req /\ Handling(dt, dt.room)
            /\ dstatus' = dstatus \/ dstatus' = [dstatus EXCEPT ![dt.room] = dt.val]
            /\ dt' = Resting \/ \E x \in {"test", "read", "store", "dead"} : dt' = [dt EXCEPT !.stage = x]
        BY <3>11, DecodeUpdateIs DEF DisaggInv, Threads
      <4>3. dt \in [stage : {"idle", "count", "test", "read", "store", "dead"}, room : Req \cup {0},
                    val : {Failed, Success}]
        BY DEF DisaggInv, Threads, DecodeThreadOK
      <4>4. Handling(dt, r)' /\ dt'.val = Success => Handling(dt, r) /\ dt.val = Success
        BY <4>2, <4>3 DEF Handling, Resting
      <4>5. dstatus'[r] = Success => dstatus[r] = Success \/ Else
        BY <1>a, <4>2 DEF Else
      <4>6. Else' => Else
        BY <3>w, <4>1, <4>4 DEF Else
      <4> QED BY <3>a, <3>b, <4>1, <4>5, <4>6
    <3>12. CASE HeartbeatOK \/ HandleNodeFailure
      <4>1. UNCHANGED <<dq, dpages, dmeta, dstatus, dt>>
        BY <3>12 DEF HeartbeatOK, HandleNodeFailure, decode
      <4> QED BY <3>a, <3>b, <3>t, <4>1
    <3>13. CASE FailRooms
      <4>1. UNCHANGED <<dq, dpages, dmeta>>
        BY <3>13, QuietSteps DEF decode
      <4>2. dt' = dt /\ (dstatus' = dstatus \/ dstatus' = [dstatus EXCEPT ![hb.room] = Failed])
        BY <3>13, FailRoomsIs DEF FailRooms, DisaggInv, Threads
      <4>3. dstatus'[r] = Success => dstatus[r] = Success
        BY <1>a, <4>2 DEF Failed, Success
      <4> QED BY <3>a, <3>b, <3>t, <4>1, <4>2, <4>3
    <3> QED BY <1>3, <3>2, <3>4, <3>6, <3>8, <3>9, <3>10, <3>11, <3>12, <3>13, Uncut
            DEF DecodeNext, DecodeLoop
  <2>5. ASSUME NEW r \in Req, dpages'[r] = dpages[r], OwnKV(r) PROVE OwnKV(r)'
    BY <1>a, <2>1, <2>5 DEF OwnKV
  <2>6. ASSUME NEW r \in Req, dq'[r] = "running" PROVE OwnKV(r)'
    BY <1>0, <2>4, <2>5, <2>6
  <2>7. ASSUME NEW r \in Req, Told(r)' PROVE OwnKV(r)' /\ dbuf'[dmeta'[r]] = r
    BY <1>0, <2>1, <2>4, <2>5, <2>7
  <2> QED BY <2>3, <2>6, <2>7 DEF Complete
<1> QED BY <1>1, <1>2, <1>3 DEF Next, Step

-----------------------------------------------------------------------------
(* Results, while prefill lives and its session is good.                   *)

\* A dead server and a failed session stay as they are.
LEMMA NoReturn ==
  ASSUME DisaggInv, Next
  PROVE  /\ alive' => alive
         /\ alive' /\ ~broken' => ~broken
<1>1. CASE PrefillNext
  <2>1. alive /\ (~broken' => ~broken)
    BY <1>1, ThreadFrame, GoodSession
  <2> QED BY <2>1
<1>2. CASE DecodeNext \/ LoseMessage
  <2>1. UNCHANGED <<alive, broken>>
    BY <1>2, DecodeFrame, LoseFrame
  <2> QED BY <2>1
<1>3. CASE PrefillCrash
  BY <1>3 DEF PrefillCrash
<1> QED BY <1>1, <1>2, <1>3 DEF Next, Step

\* Nothing that keeps results apart comes back once it is gone.
LEMMA Sound ==
  ASSUME DisaggInv, Next, alive', ~cut', ~broken'
  PROVE  alive /\ ~cut /\ ~broken /\ Results
<1>1. alive /\ ~broken
  BY NoReturn
<1>2. ~cut
  BY Uncut
<1> QED BY <1>1, <1>2 DEF DisaggInv

\* A failure in prefill's table is that of a request in a queue.
LEMMA PrefillFailures ==
  ASSUME DisaggInv, Next, PrefillNext, ~cut', ~broken,
         \A r \in Req : pstatus[r] = Failed => pq[r] \notin {"new", "done"}
  PROVE  \A r \in Req : pstatus'[r] = Failed => pq'[r] \notin {"new", "done"}
<1> SUFFICES ASSUME NEW r \in Req, pstatus'[r] = Failed
             PROVE  pq'[r] \notin {"new", "done"}
  OBVIOUS
<1>0. Failed # NoRoom /\ Failed # WaitingForInput /\ Failed # Success
  BY DEF Failed, NoRoom, WaitingForInput, Success
<1>1. CASE pstatus'[r] = pstatus[r]
  <2>1. pq[r] \notin {"new", "done"}
    BY <1>1
  <2>2. pq[r] # "waiting"
    BY <1>0, <1>1 DEF DisaggInv, Senders, SenderOK
  <2> QED BY <1>0, <2>1, <2>2, PrefillMoves
<1>2. CASE AbortSender(r)
  BY <1>2 DEF AbortSender
<1>3. CASE BootstrapUpdate /\ pstatus'[r] # pstatus[r]
  <2>1. /\ bt.room \in Req /\ bt.val \in {WaitingForInput, Success}
        /\ pstatus' = [pstatus EXCEPT ![bt.room] = bt.val]
    BY <1>3, BootstrapUpdateIs DEF DisaggInv, Threads
  <2>2. pstatus \in [Req -> Statuses]
    BY DEF DisaggInv, PrefillTypes
  <2> QED BY <1>0, <1>3, <2>1, <2>2
<1>4. CASE WorkerReport /\ wk.stage = "store" /\ wk.c.room = r
  <2>1. wk.c \in Chunk /\ Outstanding(wk.c)
    BY <1>4, WorkerRooms DEF DisaggInv, InHand
  <2>2. pq[r] \in {"sent", "inflight"}
    BY <1>4, <2>1, Uncut DEF Delivery, Sources, Live
  <2>3. pq' = pq
    BY <1>4, QuietSteps DEF prefill
  <2> QED BY <2>2, <2>3
<1> QED BY <1>0, <1>1, <1>2, <1>3, <1>4, StatusMoves

\* A failure in decode's table is that of a request in a queue, and a request that
\* was given up before its receiver was initialised has left the table.
LEMMA DecodeFailures ==
  ASSUME DisaggInv, Next, DecodeNext, ~cut', alive,
         \A r \in Req : Handling(dt, r) => Expects(r),
         \A r \in pending : dq[r] = "done" => dstatus[r] = NoRoom,
         \A r \in Req : dstatus[r] = Failed => dq[r] \notin {"new", "running", "done"},
         NEW r \in Req
  PROVE  /\ r \in pending' /\ dq'[r] = "done" => dstatus'[r] = NoRoom
         /\ dstatus'[r] = Failed => dq'[r] \notin {"new", "running", "done"}
<1>0. /\ dq \in [Req -> {"new", "prealloc", "transfer", "running", "done"}]
      /\ dstatus \in [Req -> Statuses] /\ ready \subseteq {q \in Req : dq[q] = "prealloc"}
      /\ pending \subseteq Req /\ NoRoom # Failed
  BY DEF DisaggInv, DecodeTypes, NoRoom, Failed
<1>1. r \in pending => dq[r] \in {"prealloc", "done"}
  BY DEF DisaggInv, Receivers, ReceiverOK
<1>2. ASSUME NEW q \in Req, DecodeAdd(q)
      PROVE  /\ r # q => dq'[r] = dq[r] /\ dstatus'[r] = dstatus[r] /\ (r \in pending' => r \in pending)
             /\ r = q => dq'[r] = "prealloc"
  <2>1. PICK s \in Statuses \ {NoRoom} : dstatus' = UpdateStatus(dstatus, q, s)
    BY <1>2, StatusesKnown DEF DecodeAdd
  <2>2. dstatus \in [Req -> Statuses]
    BY <1>0
  <2>3. r # q => dstatus'[r] = dstatus[r]
    BY <2>1, <2>2, UpdateStatusIs
  <2>4. pending' \subseteq pending \cup {q}
    BY <1>2 DEF DecodeAdd
  <2> QED BY <1>0, <1>2, <2>3, <2>4, QuietSteps
<1>3. CASE \E q \in Req : DecodeAdd(q)
  BY <1>2, <1>3
<1>4. ASSUME NEW q \in Req,
             UpdateHandshakeWaiter(q) \/ PopTransferFailed(q) \/ PopTransferred(q)
      PROVE  /\ pending' = pending
             /\ \/ dq'[r] = dq[r] /\ dstatus'[r] = dstatus[r]
                \/ dstatus'[r] = NoRoom
  BY <1>0, <1>4 DEF UpdateHandshakeWaiter, PopTransferFailed, PopTransferred, ClearReceiver, DecodeLeave
<1>5. CASE \E q \in Req : UpdateHandshakeWaiter(q) \/ PopTransferFailed(q) \/ PopTransferred(q)
  BY <1>0, <1>4, <1>5
<1>6. ASSUME NEW q \in Req, PopPreallocated(q) \/ DecodeFinish(q)
      PROVE  /\ UNCHANGED <<pending, dstatus>>
             /\ r # q => dq'[r] = dq[r]
             /\ r = q => /\ dq[r] \in {"prealloc", "running"}
                         /\ dq[r] = "prealloc" => dq'[r] = "transfer"
  BY <1>0, <1>6 DEF PopPreallocated, DecodeFinish, DecodeLeave, decodeMgr
<1>7. CASE \E q \in Req : PopPreallocated(q) \/ DecodeFinish(q)
  BY <1>1, <1>6, <1>7
<1>8. CASE ResolvePending
  <2>1. /\ dq' = dq /\ pending' = {}
        /\ dstatus' = [x \in Req |-> IF x \in pending THEN Max({dstatus[x], WaitingForInput})
                                     ELSE dstatus[x]]
    BY <1>8, QuietSteps DEF ResolvePending
  <2>2. Max({dstatus[r], WaitingForInput}) # Failed
    <3>1. dstatus[r] \in Int /\ WaitingForInput \in Int
      BY <1>0 DEF Statuses, NoRoom, Failed, Bootstrapping, WaitingForInput, Success
    <3>2. Max({dstatus[r], WaitingForInput}) =
            IF dstatus[r] >= WaitingForInput THEN dstatus[r] ELSE WaitingForInput
      BY <3>1, MaxOfTwo
    <3>3. \A n \in Int : n >= 2 => n # 0
      OBVIOUS
    <3> QED BY <3>1, <3>2, <3>3 DEF WaitingForInput, Failed
  <2> QED BY <2>1, <2>2
<1>9. CASE EnsureFails
  <2>1. PICK gone \in {pending, {}} :
          /\ pending' = pending \ gone
          /\ dstatus' = [x \in Req |-> IF x \in gone THEN UpdateStatus(dstatus, x, Failed)[x]
                                       ELSE dstatus[x]]
    BY <1>9 DEF EnsureFails
  <2>2. dq' = dq
    BY <1>9, QuietSteps
  <2>3. UpdateStatus(dstatus, r, Failed)[r] = IF dstatus[r] = NoRoom THEN NoRoom ELSE Failed
    BY <1>0, UpdateStatusIs, StatusesKnown
  <2>4. CASE r \in gone
    BY <1>0, <1>1, <2>1, <2>2, <2>3, <2>4
  <2>5. CASE r \notin gone
    BY <2>1, <2>2, <2>5
  <2> QED BY <2>4, <2>5
<1>10. CASE DecodeUpdate
  <2>1. UNCHANGED <<dq, pending>>
    BY <1>10, QuietSteps DEF decode
  <2>2. /\ dt.room \in Req /\ Handling(dt, dt.room)
        /\ dstatus' = dstatus \/ dstatus' = [dstatus EXCEPT ![dt.room] = dt.val]
    BY <1>10, DecodeUpdateIs DEF DisaggInv, Threads
  <2>3. dq[dt.room] = "transfer"
    BY <2>2 DEF Expects
  <2> QED BY <1>0, <2>1, <2>2, <2>3
<1>11. CASE DecodeThread \/ HeartbeatOK
  <2>1. UNCHANGED <<dq, pending, dstatus>>
    BY <1>11 DEF DecodeThread, HeartbeatOK, decode
  <2> QED BY <2>1
<1>12. ~FailRooms
  BY FailRoomsIs, Uncut DEF DisaggInv, Threads, HeartbeatThreadOK
<1> QED BY <1>3, <1>5, <1>7, <1>8, <1>9, <1>10, <1>11, <1>12, Uncut DEF DecodeNext, DecodeLoop

\* What prefill tells finds its request waiting, with nothing else under way.
LEMMA ResultTold ==
  ASSUME DisaggInv, Next, PrefillNext, ~cut', ~broken', Results
  PROVE  /\ \A m \in toD' : Expects(m[1])' /\ ~Handling(dt, m[1])'
         /\ \A m, n \in toD' : m[1] = n[1] => m = n
<1>1. UNCHANGED <<dq, dconc, dstatus, dt>>
  BY PrefillFrame
<1>2. CASE toD' = toD
  BY <1>1, <1>2 DEF Results, Expects, Handling
<1>3. CASE WorkerReport /\ wk.stage = "tell" /\ ~broken
  <2>1. wk.c.room \in Req /\ toD' = toD \cup {<<wk.c.room, wk.val>>}
    BY <1>3, TellEnds
  <2>2. PICK q \in Req : q = wk.c.room
    BY <2>1
  <2>3. alive
    BY ThreadFrame
  <2>4. Pend(q)
    BY <1>3, <2>2, <2>3 DEF Pend, Telling
  <2>5. Expects(q) /\ ~Handling(dt, q) /\ \A m \in toD : m[1] # q
    BY <2>4, Uncut DEF Delivery, Waiting, Waits
  <2>6. Expects(q)' /\ ~Handling(dt, q)'
    BY <1>1, <2>5 DEF Expects, Handling
  <2>7. \A m \in toD : Expects(m[1])' /\ ~Handling(dt, m[1])'
    BY <1>1 DEF Results, Expects, Handling
  <2>8. \A m \in toD' : m \in toD \/ m = <<q, wk.val>>
    BY <2>1, <2>2
  <2> QED BY <2>5, <2>6, <2>7, <2>8 DEF Results
<1> QED BY <1>2, <1>3, GoodSession

\* The invariant keeps the results apart.
LEMMA ResultsStep ==
  ASSUME DisaggInv, Next, alive', ~cut', ~broken'
  PROVE  Results'
<1>0. alive /\ ~broken /\ Results
  BY Sound
<1>a. \A r \in Req : /\ pstatus[r] = Failed => pq[r] \notin {"new", "done"}
                     /\ dstatus[r] = Failed => dq[r] \notin {"new", "running", "done"}
  BY <1>0 DEF Results, NoStaleFailure
<1>b. \A r \in Req : Handling(dt, r) => Expects(r)
  BY <1>0 DEF Results
<1>c. \A r \in pending : dq[r] = "done" => dstatus[r] = NoRoom
  BY <1>0 DEF Results
<1>d. toD \subseteq Req \X {Failed, Success} /\ pending \subseteq Req
  BY DEF DisaggInv, NetTypes, DecodeTypes
<1>1. CASE PrefillNext
  <2>1. UNCHANGED <<dq, dconc, dstatus, dt, pending>>
    BY <1>1, PrefillFrame
  <2>2. /\ \A m \in toD' : Expects(m[1])' /\ ~Handling(dt, m[1])'
        /\ \A m, n \in toD' : m[1] = n[1] => m = n
    BY <1>0, <1>1, ResultTold
  <2>3. \A r \in Req : Handling(dt, r)' => Expects(r)'
    BY <1>b, <2>1 DEF Handling, Expects
  <2>4. \A r \in pending' : dq'[r] = "done" => dstatus'[r] = NoRoom
    BY <1>c, <2>1
  <2>5. \A r \in Req : pstatus'[r] = Failed => pq'[r] \notin {"new", "done"}
    BY <1>0, <1>1, <1>a, PrefillFailures
  <2>6. NoStaleFailure'
    BY <1>a, <2>1, <2>5 DEF NoStaleFailure
  <2> QED BY <2>2, <2>3, <2>4, <2>6 DEF Results
<1>2. CASE LoseMessage
  <2>1. UNCHANGED <<dq, dconc, dstatus, dt, pending, pq, pstatus>> /\ toD' \subseteq toD
    BY <1>2, LoseFrame DEF LoseMessage
  <2>2. /\ \A m \in toD' : Expects(m[1])' /\ ~Handling(dt, m[1])'
        /\ \A m, n \in toD' : m[1] = n[1] => m = n
    BY <1>0, <2>1 DEF Results, Expects, Handling
  <2>3. \A r \in Req : Handling(dt, r)' => Expects(r)'
    BY <1>b, <2>1 DEF Handling, Expects
  <2>4. \A r \in pending' : dq'[r] = "done" => dstatus'[r] = NoRoom
    BY <1>c, <2>1
  <2>5. NoStaleFailure'
    BY <1>a, <2>1 DEF NoStaleFailure
  <2> QED BY <2>2, <2>3, <2>4, <2>5 DEF Results
<1>3. CASE DecodeNext
  <2>1. toD' \subseteq toD /\ UNCHANGED <<pq, pstatus>>
    BY <1>3, DecodeMoves, DecodeFrame
  <2>2. ASSUME NEW r \in Req, Expects(r), ~(DecodeUpdate /\ dt.room = r) PROVE Expects(r)'
    BY <1>0, <1>3, <2>2, ExpectsKept DEF Expects
  <2>3. DecodeUpdate => Handling(dt, dt.room)
    BY DecodeUpdateIs DEF DisaggInv, Threads
  <2>4. ASSUME NEW m \in toD' PROVE Expects(m[1])' /\ ~Handling(dt, m[1])'
    <3>1. m \in toD /\ m[1] \in Req /\ Expects(m[1]) /\ ~Handling(dt, m[1])
      BY <1>0, <1>d, <2>1, <2>4 DEF Results
    <3>2. Expects(m[1])'
      BY <2>2, <2>3, <3>1
    <3>3. \A n \in toD : n[1] = m[1] => n = m
      BY <1>0, <3>1 DEF Results
    <3>4. ~Handling(dt, m[1])'
      BY <1>3, <2>4, <3>1, <3>3, HandlingMoves
    <3> QED BY <3>2, <3>4
  <2>5. \A m, n \in toD' : m[1] = n[1] => m = n
    BY <1>0, <2>1 DEF Results
  <2>6. ASSUME NEW r \in Req, Handling(dt, r)' PROVE Expects(r)'
    <3>1. Expects(r)
      BY <1>0, <1>3, <1>b, <2>6, HandlingMoves DEF Results
    <3>2. CASE DecodeUpdate /\ dt.room = r
      <4>1. dstatus' = dstatus \/ dt' = Resting
        BY <3>2, DecodeUpdateIs DEF DisaggInv, Threads
      <4>2. dt' # Resting
        BY <2>6 DEF Handling, Resting
      <4>3. UNCHANGED <<dq, dconc>>
        BY <3>2, QuietSteps DEF decode
      <4> QED BY <3>1, <4>1, <4>2, <4>3 DEF Expects
    <3> QED BY <2>2, <3>1, <3>2
  <2>7. /\ \A r \in pending' : dq'[r] = "done" => dstatus'[r] = NoRoom
        /\ \A r \in Req : dstatus'[r] = Failed => dq'[r] \notin {"new", "running", "done"}
    <3>1. pending' \subseteq Req
      BY DecodeTypesStep DEF DecodeTypes
    <3>2. ASSUME NEW r \in Req
          PROVE  /\ r \in pending' /\ dq'[r] = "done" => dstatus'[r] = NoRoom
                 /\ dstatus'[r] = Failed => dq'[r] \notin {"new", "running", "done"}
      BY <1>0, <1>3, <1>a, <1>b, <1>c, DecodeFailures
    <3> QED BY <3>1, <3>2
  <2>8. NoStaleFailure'
    BY <1>a, <2>1, <2>7 DEF NoStaleFailure
  <2> QED BY <2>4, <2>5, <2>6, <2>7, <2>8 DEF Results
<1>4. CASE PrefillCrash
  BY <1>4 DEF PrefillCrash
<1> QED BY <1>1, <1>2, <1>3, <1>4 DEF Next, Step

-----------------------------------------------------------------------------
(* The theorems.                                                           *)

\* All slots of a server in order, none handed out.
LEMMA FreshSlots ==
  ASSUME NEW n \in Nat, NEW meta \in [Req -> {0}]
  PROVE  LET free == [i \in 1 .. n |-> i]
         IN free \in Seq(1 .. n) /\ EachOnce(free, meta, n) /\ Apart(free, meta)
<1> DEFINE free == [i \in 1 .. n |-> i]
<1>1. free \in [1 .. n -> 1 .. n]
  OBVIOUS
<1>2. free \in Seq(1 .. n) /\ Len(free) = n
  BY <1>1, SeqDef, LenProperties
<1>3. IsInjective(free) /\ Range(free) = 1 .. n
  BY DEF IsInjective, Range
<1> HIDE DEF free
<1>4. {r \in Req : meta[r] # 0} = {}
  OBVIOUS
<1>5. Cardinality({}) = 0
  BY FS_EmptySet
<1>6. EachOnce(free, meta, n)
  <2>a. Cardinality({r \in Req : meta[r] # 0}) = 0
    BY <1>4, <1>5
  <2>1. Len(free) + Cardinality({r \in Req : meta[r] # 0}) = n
    BY <1>2, <2>a
  <2>2. {meta[r] : r \in {q \in Req : meta[q] # 0}} = {}
    BY <1>4
  <2> QED BY <1>3, <2>1, <2>2 DEF EachOnce
<1>7. Apart(free, meta)
  BY <1>3 DEF Apart
<1> QED BY <1>2, <1>6, <1>7 DEF free

\* The invariant holds at the start.
LEMMA DisaggInit == Init => DisaggInv
<1> SUFFICES ASSUME Init PROVE DisaggInv
  OBVIOUS
<1>0. /\ scen \in Scenarios /\ PSlots \in Nat /\ DSlots \in Nat /\ MaxEnsure \in Nat \ {0}
      /\ \A r \in Req : Chunks(r) \in {1, 2}
  BY ScenarioFacts DEF Init
<1>1. /\ <<>> \in Seq(Req) /\ <<>> \in Seq(Page) /\ <<>> \in Seq(Chunk) /\ <<>> \in Seq(Nat)
      /\ Len(<<>>) = 0 /\ Range(<<>>) = {} /\ IsInjective(<<>>)
  BY EmptySeq DEF Range, IsInjective
<1>2. NoInfo \in Info
  BY <1>1 DEF NoInfo, Info
<1>3. PrefillTypes
  <2>1. /\ pq \in [Req -> {"new", "bootstrap", "waiting", "chunked", "sent", "inflight", "done"}]
        /\ pstatus \in [Req -> Statuses] /\ pconc \in [Req -> {None, Failed, Success}]
        /\ pmeta \in [Req -> Nat] /\ pans \in [Req -> 0 .. 2]
    BY StatusesKnown DEF Init
  <2>2. bootq \in Seq(Req) /\ IsInjective(bootq) /\ Range(bootq) = {r \in Req : pq[r] = "bootstrap"}
    BY <1>1 DEF Init
  <2>3. /\ ppages \in [Req -> Seq(Page)] /\ pfree \subseteq Page
        /\ DOMAIN pbuf = 1 .. PSlots /\ DOMAIN pkv = Page
    BY <1>1 DEF Init
  <2>4. infos \in [Req -> Info] /\ xq \in Seq(Chunk) /\ wk = Idle /\ alive \in BOOLEAN /\ broken \in BOOLEAN
    BY <1>1, <1>2 DEF Init
  <2> QED BY <2>1, <2>2, <2>3, <2>4 DEF PrefillTypes
<1>4. DecodeTypes
  <2>1. /\ dq \in [Req -> {"new", "prealloc", "transfer", "running", "done"}]
        /\ dstatus \in [Req -> Statuses] /\ dconc \in [Req -> {None, Failed, Success}]
        /\ dmeta \in [Req -> Nat] /\ dans \in [Req -> 0 .. 2]
    BY StatusesKnown DEF Init
  <2>2. /\ prealloc \in Seq(Req) /\ IsInjective(prealloc)
        /\ Range(prealloc) = {r \in Req : dq[r] = "prealloc"}
    BY <1>1 DEF Init
  <2>3. /\ dpages \in [Req -> Seq(Page)] /\ dfree \subseteq Page
        /\ DOMAIN dbuf = 1 .. DSlots /\ DOMAIN dkv = Page
    BY <1>1 DEF Init
  <2>a. tries \in 0 .. MaxEnsure - 1
    <3>1. tries = 0 /\ MaxEnsure \in Nat /\ MaxEnsure # 0
      BY <1>0 DEF Init
    <3> QED BY <3>1
  <2>4. /\ ready \subseteq Range(prealloc) /\ pending \subseteq Req /\ tracker \subseteq Req
        /\ known \in BOOLEAN /\ tries \in 0 .. MaxEnsure - 1
    BY <2>a DEF Init
  <2> QED BY <2>1, <2>2, <2>3, <2>4 DEF DecodeTypes
<1>5. NetTypes
  BY <1>2 DEF Init, NetTypes
<1>6. Answered
  BY DEF Init, Answered
<1>7. Senders
  BY DEF Init, Senders, SenderOK, NoRoom, WaitingForInput
<1>8. Receivers
  BY DEF Init, Receivers, ReceiverOK
<1>9. PrefillSlots
  <2>1. pslots = [i \in 1 .. PSlots |-> i] /\ pmeta \in [Req -> {0}]
    BY DEF Init
  <2>2. pslots \in Seq(1 .. PSlots) /\ EachOnce(pslots, pmeta, PSlots) /\ Apart(pslots, pmeta)
    BY <1>0, <2>1, FreshSlots
  <2> QED BY <2>2 DEF Init, PrefillSlots
<1>10. DecodeSlots
  <2>1. dslots = [i \in 1 .. DSlots |-> i] /\ dmeta \in [Req -> {0}]
    BY DEF Init
  <2>2. dslots \in Seq(1 .. DSlots) /\ EachOnce(dslots, dmeta, DSlots) /\ Apart(dslots, dmeta)
    BY <1>0, <2>1, FreshSlots
  <2> QED BY <2>2 DEF Init, DecodeSlots
<1>11. PrefillPages
  BY <1>1 DEF Init, PrefillPages, Computed
<1>12. DecodePages
  <2>1. UNION {Range(dpages[r]) : r \in Req} = {}
    BY <1>1 DEF Init
  <2> QED BY <1>1, <2>1 DEF Init, DecodePages, PagesExact
<1>13. wk.stage = "idle" /\ ~InHand /\ ~Untold /\ \A c \in Chunk : ~Outstanding(c)
  BY <1>1 DEF Init, Outstanding, InHand, Untold, Idle
<1>14. Traffic
  BY <1>1, <1>13 DEF Init, Traffic, Indices, Queued, WorkerOK, InFlight, Idle
<1>15. Threads /\ \A r \in Req : ~Handling(dt, r)
  <2>1. bt = Resting /\ dt = Resting /\ hb = Watching /\ tracker = {}
    BY DEF Init
  <2>2. BootstrapOK
    BY <2>1 DEF BootstrapOK, BootstrapTypes, Handling, Resting
  <2>3. DecodeThreadOK /\ \A r \in Req : ~Handling(dt, r)
    BY <2>1 DEF DecodeThreadOK, Handling, Resting, Failed
  <2>4. HeartbeatThreadOK
    BY <2>1 DEF HeartbeatThreadOK, Watching, At
  <2> QED BY <2>2, <2>3, <2>4 DEF Threads
<1>16. Delivery
  <2>1. \A r \in Req : ~Pend(r)
    BY <1>13 DEF Init, Pend, Telling
  <2>2. \A r \in Req : ~Told(r)
    BY DEF Init, Told
  <2> QED BY <1>13, <2>1, <2>2 DEF Init, Delivery, Readied, Waiting, Sources, Target, Written, Complete
<1>17. Results
  BY <1>15 DEF Init, Results, NoStaleFailure, NoRoom, Failed
<1> QED BY <1>3, <1>4, <1>5, <1>6, <1>7, <1>8, <1>9, <1>10, <1>11, <1>12, <1>14, <1>15, <1>16, <1>17
    DEF DisaggInv

\* Every step keeps the invariant.
LEMMA DisaggStep == DisaggInv /\ [Next]_vars => DisaggInv'
<1> SUFFICES ASSUME DisaggInv, [Next]_vars PROVE DisaggInv'
  OBVIOUS
<1>1. CASE Next
  <2>1. ~cut' => Delivery'
    BY <1>1, ReadiedStep, WaitingStep, SourcesStep, TargetStep, WrittenStep, CompleteStep DEF Delivery
  <2>2. Traffic'
    BY <1>1, IndicesStep, QueuedStep, WorkerOKStep, InFlightStep DEF Traffic
  <2>3. Threads'
    BY <1>1, BootstrapStep, DecodeThreadStep, HeartbeatStep DEF Threads
  <2>4. alive' /\ ~cut' /\ ~broken' => Results'
    BY <1>1, ResultsStep
  <2> QED BY <1>1, <2>1, <2>2, <2>3, <2>4, PrefillTypesStep, DecodeTypesStep, NetTypesStep,
          AnsweredStep, SendersStep, ReceiversStep, PrefillSlotsStep, DecodeSlotsStep,
          PrefillPagesStep, DecodePagesStep DEF DisaggInv
<1>2. CASE UNCHANGED vars
  <2> USE <1>2 DEF vars, prefill, prefillMgr, decode, memory, decodeMgr, net, answers
  <2>0. Page' = Page /\ \A r \in Req : Chunks(r)' = Chunks(r)
    BY DEF Page, Chunks
  <2>1. PrefillTypes'
    BY <2>0 DEF DisaggInv, PrefillTypes
  <2>2. DecodeTypes'
    BY <2>0 DEF DisaggInv, DecodeTypes
  <2>3. NetTypes' /\ Answered'
    BY DEF DisaggInv, NetTypes, Answered
  <2>4. Senders' /\ Receivers'
    BY DEF DisaggInv, Senders, SenderOK, Receivers, ReceiverOK
  <2>5. PrefillSlots' /\ DecodeSlots'
    BY DEF DisaggInv, PrefillSlots, DecodeSlots, Apart, EachOnce
  <2>6. PrefillPages'
    BY <2>0 DEF DisaggInv, PrefillPages, Computed
  <2>7. DecodePages'
    BY <2>0 DEF DisaggInv, DecodePages, PagesExact
  <2>8. Traffic'
    BY DEF DisaggInv, Traffic, Indices, Arrived, Queued, ChunkOK, Outstanding, InHand, Untold,
       WorkerOK, InFlight, Chunks
  <2>9. ~cut' => Delivery'
    <3>1. Readied => Readied'
      BY DEF Readied
    <3>2. Waiting => Waiting'
      BY DEF Waiting, Pend, Waits, Expects, Handling, Telling, Dest, Outstanding, InHand
    <3>3. Sources => Sources'
      BY DEF Sources, Live, Outstanding, InHand
    <3>4. Target => Target'
      BY DEF Target, Dest, InHand
    <3>5. Written => Written'
      <4>1. \A r, k : (Landed(r, k)' <=> Landed(r, k)) /\ (Coming(r, k)' <=> Coming(r, k))
        BY DEF Landed, Coming
      <4> QED BY <4>1 DEF Written
    <3>6. Complete => Complete'
      BY DEF Complete, Told, Handling, OwnKV, Chunks
    <3> QED BY <3>1, <3>2, <3>3, <3>4, <3>5, <3>6 DEF DisaggInv, Delivery
  <2>10. Threads'
    <3>1. BootstrapOK'
      BY DEF DisaggInv, Threads, BootstrapOK, BootstrapTypes, Handling, Arrived
    <3>2. DecodeThreadOK' /\ HeartbeatThreadOK'
      BY DEF DisaggInv, Threads, DecodeThreadOK, HeartbeatThreadOK, Handling
    <3> QED BY <3>1, <3>2 DEF Threads
  <2>11. alive' /\ ~cut' /\ ~broken' => Results'
    <3>1. Results => Results'
      BY DEF Results, Expects, Handling, NoStaleFailure
    <3> QED BY <3>1 DEF DisaggInv
  <2> QED BY <2>1, <2>2, <2>3, <2>4, <2>5, <2>6, <2>7, <2>8, <2>9, <2>10, <2>11 DEF DisaggInv
<1> QED BY <1>1, <1>2

\* The inductive invariant of both servers and the network between them.
THEOREM DisaggInvariant == Spec => []DisaggInv
BY DisaggInit, DisaggStep, PTL DEF Spec

\* Every metadata slot and every page a server hands out comes back, whichever of
\* abort, timeout, lost message, failed session, partition or crash ends a request
\* (process_disagg_prefill_inflight_queue, pop_bootstrapped, pop_transferred).
THEOREM OwnershipTheorem == Spec => []Ownership
<1>1. DisaggInv => Ownership
  <2> SUFFICES ASSUME DisaggInv PROVE Ownership
    OBVIOUS
  <2>1. bt.room \in Req \cup {0} /\ dt.room \in Req \cup {0} /\ hb.todo \subseteq Req
    BY DEF DisaggInv, Threads, BootstrapOK, BootstrapTypes, DecodeThreadOK, HeartbeatThreadOK
  <2> QED BY <2>1 DEF DisaggInv, PrefillTypes, DecodeTypes, NetTypes, PrefillSlots, DecodeSlots,
                      DecodePages, Ownership, TypeOK, SlotsExact
<1> QED BY <1>1, DisaggInvariant, PTL

\* A poll of a sender or a receiver in a queue finds its room in request_status with
\* a state the queue's code handles.  Although each thread tests and stores without a
\* lock beside clear(), no failure outlives its request as long as none was given up in
\* mid-transfer, prefill lives and no transfer failed.
THEOREM PollSafeTheorem == Spec => []PollSafe
<1>1. DisaggInv => PollSafe
  <2> SUFFICES ASSUME DisaggInv PROVE PollSafe
    OBVIOUS
  <2>1. \A r \in Req : SenderOK(r) /\ ReceiverOK(r)
    BY DEF DisaggInv, Senders, Receivers
  <2>2. alive /\ ~cut /\ ~broken => NoStaleFailure
    BY DEF DisaggInv, Results
  <2> QED BY <2>1, <2>2 DEF PollSafe, SenderOK, ReceiverOK, Poll
<1> QED BY <1>1, DisaggInvariant, PTL

\* A request is answered once by each server, although abort, timeout, node failure
\* and the end of its transfer may all try to end it.
THEOREM AnsweredOnceTheorem == Spec => []AnsweredOnce
<1>1. DisaggInv => AnsweredOnce
  BY DEF DisaggInv, Answered, AnsweredOnce
<1> QED BY <1>1, DisaggInvariant, PTL

\* As long as no request is given up in mid-transfer, each is decoded on its own,
\* complete KV cache and _commit_transfer_to_req never finds another room's metadata.
THEOREM TransfersIntactTheorem == Spec => []TransfersIntact
<1>1. DisaggInv => TransfersIntact
  BY DEF DisaggInv, Delivery, Complete, TransfersIntact
<1> QED BY <1>1, DisaggInvariant, PTL
=============================================================================
