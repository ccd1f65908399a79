--------------------------- MODULE PagedAllocator ---------------------------
(***************************************************************************)
(* The paged KV-slot allocator (mem_cache/allocator.py) and its Ascend     *)
(* variant (hardware_backend/npu/allocator_npu.py), driven by the rows of  *)
(* req_to_token that its callers keep.                                     *)
(*                                                                         *)
(* A page p holds the slots p*PageSize .. p*PageSize + PageSize-1; page 0  *)
(* is the padding page and is never handed out.  free_pages and            *)
(* release_pages are lists, because alloc_extend_kernel addresses them by  *)
(* offset and a double free shows as a repeated element.                   *)
(***************************************************************************)
EXTENDS Integers, Sequences, FiniteSets, Collections

CONSTANTS
  NumPages,   \* pages of the pool
  PageSize,   \* slots per page
  NumRows,    \* requests that hold a row of req_to_token
  MaxLen,     \* longest row (bound)
  MaxExtend,  \* most tokens one call gives a row (bound)
  NeedSort,   \* need_sort: freed pages wait in release_pages
  Backends    \* the allocators to check: "cuda", "npu" or both

ASSUME PagedAllocatorAssumption ==
  /\ NumPages \in Nat \ {0} /\ PageSize \in Nat \ {0, 1}
  /\ NumRows \in Nat \ {0} /\ MaxLen \in Nat /\ MaxExtend \in Nat \ {0}
  /\ NeedSort \in BOOLEAN /\ Backends \subseteq {"cuda", "npu"}

VARIABLES
  backend,        \* the allocator of this server, fixed at start-up
  free_pages,     \* pages ready to be allocated, in order
  release_pages,  \* freed pages not yet merged (need_sort)
  in_group,       \* ~is_not_in_free_group
  free_group,     \* slots whose free is deferred to free_group_end
  rows,           \* rows[r]: the slots of request r, by position
  saved,          \* backup_state: <<free_pages, release_pages>>, or <<>>
  draft,          \* draft[r]: slots of the draft block of row r, until restore
  outcome         \* what the last alloc* call returned

vars == <<backend, free_pages, release_pages, in_group, free_group, rows, saved,
          draft, outcome>>

\* NPUPagedTokenToKVPoolAllocator is in use.
Npu == backend = "npu"

Pages == 1 .. NumPages
Rows == 1 .. NumRows

\* The page of a slot.
PageOf(slot) == slot \div PageSize
CeilDiv(n, d) == (n + d - 1) \div d
AlignUp(n) == CeilDiv(n, PageSize) * PageSize
Least(a, b) == IF a < b THEN a ELSE b

\* The values of a list or table in ascending order, each as often as it occurs.
Ascending(f) ==
  [n \in 1 .. Cardinality(DOMAIN f) |->
    CHOOSE x \in Range(f) :
      /\ Cardinality({i \in DOMAIN f : f[i] < x}) < n
      /\ n <= Cardinality({i \in DOMAIN f : f[i] <= x})]

Returned(ok, need) == [ok |-> ok, need |-> need, oob |-> FALSE]
NoCall == Returned(TRUE, 0)

-----------------------------------------------------------------------------
(* The page arithmetic of one call.  lens[r] = <<prefix_len, seq_len>>.     *)

\* get_num_new_pages for one request.
NewPages(pre, seq) == CeilDiv(seq, PageSize) - CeilDiv(pre, PageSize)

\* get_num_new_pages(decode=True): the prefix is seq_len - 1.
NewPagesDecode(seq) == IF seq % PageSize = 1 THEN 1 ELSE 0

\* new_page_start_loc: pages taken by the requests before the i-th.
StartPage(need, i) == Total(need, 1 .. i - 1)

\* alloc_extend_kernel for one request: the slots for positions pre..seq-1,
\* part 1 the rest of the old page, part 2 whole new pages, part 3 the new
\* partial page.  `start` pages of `pages` belong to earlier requests.
ExtendSlots(pages, pre, seq, last_loc, start) ==
  LET part1 == Least(seq, AlignUp(pre)) - pre
      part2 == (seq \div PageSize) * PageSize - AlignUp(pre)
  IN  [k \in 1 .. seq - pre |->
        LET off == k - 1 - part1
        IN  IF k <= part1
              THEN last_loc + k
              ELSE IF off < part2
                THEN pages[start + 1 + (off \div PageSize)] * PageSize + (off % PageSize)
                ELSE pages[start + NewPages(pre, seq)] * PageSize + (off - part2)]

\* Mutant of DecodeSlot: the last slot is handed out again.
DecodeSlotSame(pages, seq, last_loc, start) ==
  IF NewPagesDecode(seq) = 0 THEN last_loc ELSE pages[start + 1] * PageSize

\* alloc_decode: one slot per request.
DecodeSlot(pages, seq, last_loc, start) ==
  IF NewPagesDecode(seq) = 0 THEN last_loc + 1 ELSE pages[start + 1] * PageSize

\* The NPU allocator gathers free_pages[start_new_pages] for every request of
\* the batch, also for those that need no page and whose gathered value is
\* multiplied by 0; it skips the gather only when nobody needs a page.
GatherOutOfRange(pages, need, batch) ==
  Npu /\ Total(need, Rows) > 0 /\ \E r \in batch : StartPage(need, r) >= Len(pages)

\* merge_and_sort_free.
MergedFree ==
  IF Len(release_pages) > 0
    THEN Ascending(free_pages \o release_pages)
    ELSE free_pages

\* The lists an alloc* call works on when its merge condition is `merge`.
FreeAfter(merge) == IF merge THEN MergedFree ELSE free_pages
ReleaseAfter(merge) == IF merge THEN <<>> ELSE release_pages

\* Mutant of MergeExtend: the pages are under-estimated.
MergeExtendFloor(tokens, bs, need) ==
  NeedSort /\ tokens \div PageSize > Len(free_pages)

\* When alloc_extend merges: the CUDA allocator over-estimates the pages from
\* the token count, the NPU allocator counts them.
MergeExtend(tokens, bs, need) ==
  /\ NeedSort
  /\ IF Npu THEN need > Len(free_pages)
            ELSE tokens \div PageSize + bs + 1 > Len(free_pages)

\* When alloc_decode merges: the NPU allocator does not look at need_sort.
MergeDecode(bs, need) ==
  IF Npu THEN need > Len(free_pages) ELSE NeedSort /\ bs > Len(free_pages)

-----------------------------------------------------------------------------
\* get_last_loc: the slot of the last of the first n tokens of row r.
LastLoc(r, n) == IF n = 0 THEN -1 ELSE rows[r][n]

\* Mutant of DraftStart: the block starts on the last committed token.
DraftStartLast(r) == IF rows[r] = <<>> THEN 0 ELSE Len(rows[r]) - 1

\* block_start of the draft block: behind the committed tokens.
DraftStart(r) == Len(rows[r])

\* clear(): every page free except page 0.
Init ==
  /\ backend \in Backends
  /\ free_pages = [i \in 1 .. NumPages |-> i]
  /\ release_pages = <<>>
  /\ in_group = FALSE
  /\ free_group = <<>>
  /\ rows = [r \in Rows |-> <<>>]
  /\ saved = <<>>
  /\ draft = [r \in Rows |-> <<>>]
  /\ outcome = NoCall

\* alloc_extend for the batch that grows row r by ext[r] tokens, in row order.
\* None leaves the rows alone, but the merge has happened.
AllocExtend(ext) ==
  LET need == [r \in Rows |-> NewPages(Len(rows[r]), Len(rows[r]) + ext[r])]
      total == Total(need, Rows)
      tokens == Total(ext, Rows)
      bs == Cardinality({r \in Rows : ext[r] > 0})
      merge == MergeExtend(tokens, bs, total)
      pages == FreeAfter(merge)
  IN  /\ tokens > 0
      /\ \A r \in Rows : Len(rows[r]) + ext[r] <= MaxLen
      /\ release_pages' = ReleaseAfter(merge)
      /\ IF total > Len(pages)
           THEN /\ outcome' = Returned(FALSE, total)
                /\ free_pages' = pages
                /\ UNCHANGED rows
           ELSE /\ outcome' = Returned(TRUE, total)
                /\ free_pages' = SubSeq(pages, total + 1, Len(pages))
                /\ rows' = [r \in Rows |-> rows[r] \o
                     ExtendSlots(pages, Len(rows[r]), Len(rows[r]) + ext[r],
                                 LastLoc(r, Len(rows[r])), StartPage(need, r))]
      /\ UNCHANGED <<in_group, free_group, saved, draft>>

\* alloc_decode for a batch of non-empty rows, one token each.
AllocDecode(batch) ==
  LET need == [r \in Rows |->
                 IF r \in batch THEN NewPagesDecode(Len(rows[r]) + 1) ELSE 0]
      total == Total(need, Rows)
      merge == MergeDecode(Cardinality(batch), total)
      pages == FreeAfter(merge)
  IN  /\ batch # {}
      /\ \A r \in batch : Len(rows[r]) \in 1 .. MaxLen - 1
      /\ release_pages' = ReleaseAfter(merge)
      /\ IF total > Len(pages)
           THEN /\ outcome' = Returned(FALSE, total)
                /\ free_pages' = pages
                /\ UNCHANGED rows
           ELSE /\ outcome' = [Returned(TRUE, total) EXCEPT
                                !.oob = GatherOutOfRange(pages, need, batch)]
                /\ free_pages' = SubSeq(pages, total + 1, Len(pages))
                /\ rows' = [r \in Rows |->
                     IF r \in batch
                       THEN Append(rows[r], DecodeSlot(pages, Len(rows[r]) + 1,
                                                       LastLoc(r, Len(rows[r])), StartPage(need, r)))
                       ELSE rows[r]]
      /\ UNCHANGED <<in_group, free_group, saved, draft>>

\* The body of free() outside a group: unique pages, put in front.
Released(slots, list) ==
  Ascending([p \in {PageOf(slots[i]) : i \in DOMAIN slots} |-> p]) \o list

ReleaseSlots(slots) ==
  IF NeedSort
    THEN release_pages' = Released(slots, release_pages) /\ UNCHANGED free_pages
    ELSE free_pages' = Released(slots, free_pages) /\ UNCHANGED release_pages

\* Mutant of KeepSlots: rounded down, a page in use is freed.
KeepSlotsDown(keep, extended) == Least((keep \div PageSize) * PageSize, extended)

\* A verify step keeps `keep` tokens of a row; the caller frees the slots from
\* the first page boundary at or after them (_compute_paged_keep_slots).
KeepSlots(keep, extended) == Least(AlignUp(keep), extended)

\* free() of the slots a row no longer needs.
Free(r, keep) ==
  LET slots == SubSeq(rows[r], KeepSlots(keep, Len(rows[r])) + 1, Len(rows[r]))
  IN  /\ keep < Len(rows[r])
      /\ rows' = [rows EXCEPT ![r] = SubSeq(@, 1, keep)]
      /\ IF slots = <<>>
           THEN UNCHANGED <<free_pages, release_pages, free_group>>
           ELSE IF in_group
             THEN /\ free_group' = free_group \o slots
                  /\ UNCHANGED <<free_pages, release_pages>>
             ELSE ReleaseSlots(slots) /\ UNCHANGED free_group
      /\ outcome' = NoCall
      /\ UNCHANGED <<in_group, saved, draft>>

FreeGroupBegin ==
  /\ ~in_group
  /\ in_group' = TRUE
  /\ free_group' = <<>>
  /\ outcome' = NoCall
  /\ UNCHANGED <<free_pages, release_pages, rows, saved, draft>>

\* free_group_end: one free() of the concatenation; the list itself is only
\* reset by the next free_group_begin, which the model does at once.
FreeGroupEnd ==
  /\ in_group
  /\ in_group' = FALSE
  /\ free_group' = <<>>
  /\ IF free_group # <<>> THEN ReleaseSlots(free_group)
                          ELSE UNCHANGED <<free_pages, release_pages>>
  /\ outcome' = NoCall
  /\ UNCHANGED <<rows, saved, draft>>

\* A draft block: backup_state, alloc_extend of `ext`, and the slots are used
\* for one draft forward.  `saved` keeps the lists of before the call.
DraftAlloc(ext) ==
  LET need == [r \in Rows |-> NewPages(DraftStart(r), DraftStart(r) + ext[r])]
      total == Total(need, Rows)
      bs == Cardinality({r \in Rows : ext[r] > 0})
      merge == MergeExtend(Total(ext, Rows), bs, total)
      pages == FreeAfter(merge)
  IN  /\ saved = <<>> /\ ~in_group
      /\ Total(ext, Rows) > 0
      /\ total <= Len(pages)
      /\ saved' = <<free_pages, release_pages>>
      /\ free_pages' = SubSeq(pages, total + 1, Len(pages))
      /\ release_pages' = ReleaseAfter(merge)
      /\ draft' = [r \in Rows |->
           ExtendSlots(pages, DraftStart(r), DraftStart(r) + ext[r],
                       LastLoc(r, DraftStart(r)), StartPage(need, r))]
      /\ outcome' = Returned(TRUE, total)
      /\ UNCHANGED <<in_group, free_group, rows>>

\* restore_state.
DraftRestore ==
  /\ saved # <<>>
  /\ free_pages' = saved[1]
  /\ release_pages' = saved[2]
  /\ saved' = <<>>
  /\ draft' = [r \in Rows |-> <<>>]
  /\ outcome' = NoCall
  /\ UNCHANGED <<in_group, free_group, rows>>

Step ==
  \/ saved = <<>> /\ \E ext \in [Rows -> 0 .. MaxExtend] : AllocExtend(ext)
  \/ saved = <<>> /\ \E batch \in SUBSET Rows : AllocDecode(batch)
  \/ saved = <<>> /\ \E r \in Rows, keep \in 0 .. MaxLen : Free(r, keep)
  \/ saved = <<>> /\ FreeGroupBegin
  \/ saved = <<>> /\ FreeGroupEnd
  \/ \E ext \in [Rows -> 0 .. MaxExtend] : DraftAlloc(ext)
  \/ DraftRestore

Next == Step /\ UNCHANGED backend

Spec == Init /\ [][Next]_vars

-----------------------------------------------------------------------------
(* Properties.                                                             *)

TypeOK ==
  /\ backend \in {"cuda", "npu"}
  /\ free_pages \in Seq(Pages) /\ release_pages \in Seq(Pages)
  /\ in_group \in BOOLEAN
  /\ free_group \in Seq(Nat)
  /\ rows \in [Rows -> Seq(Nat)] /\ draft \in [Rows -> Seq(Nat)]
  /\ outcome \in [ok : BOOLEAN, need : Nat, oob : BOOLEAN]

RowPages(r) == {PageOf(rows[r][k]) : k \in DOMAIN rows[r]}
GroupPages == {PageOf(free_group[k]) : k \in DOMAIN free_group}

\* The lists that hold the pool between two calls: while a draft block is out
\* they are the saved ones.
PoolList == IF saved = <<>> THEN free_pages \o release_pages
                            ELSE saved[1] \o saved[2]

\* Conservation: the state is well-typed and every page of the pool is in exactly one place: once in the
\* free lists, or in a deferred free group, or in one request's row.  A leak, a
\* double free and a page given to two requests all break it.
PageConservation ==
  /\ TypeOK
  /\ LET owners(p) == Cardinality({i \in DOMAIN PoolList : PoolList[i] = p})
                      + (IF p \in GroupPages THEN 1 ELSE 0)
                      + Cardinality({r \in Rows : p \in RowPages(r)})
     IN  \A p \in Pages : owners(p) = 1

\* Paged layout of a row (what the attention kernels read through the page
\* table): position k sits at offset k % page_size of its page, and all
\* positions of one page-block share a page that no other block has.
RowLayout ==
  \A r \in Rows : \A i, j \in DOMAIN rows[r] :
    /\ rows[r][i] % PageSize = (i - 1) % PageSize
    /\ (PageOf(rows[r][i]) = PageOf(rows[r][j]))
         <=> ((i - 1) \div PageSize = (j - 1) \div PageSize)

\* alloc_extend / alloc_decode return None only when the pool, release_pages
\* included, really has too few pages: a page waiting in release_pages must
\* never turn into an out-of-memory crash of the caller.
NoSpuriousNone ==
  ~outcome.ok => outcome.need > Len(free_pages) + Len(release_pages)

\* alloc_decode either returns None or succeeds: a call that has enough pages
\* never indexes free_pages past its end.
DecodeGatherInRange == ~outcome.oob

\* The draft block lives outside every committed token: its slots are distinct
\* and are in no row, so drafting cannot overwrite KV of a committed token.
DraftBlockPrivate ==
  LET draftSlots(r) == {draft[r][k] : k \in DOMAIN draft[r]}
      rowSlots(r) == {rows[r][k] : k \in DOMAIN rows[r]}
  IN  \A q, r \in Rows :
        /\ draftSlots(q) \cap rowSlots(r) = {}
        /\ q # r => draftSlots(q) \cap draftSlots(r) = {}
=============================================================================
