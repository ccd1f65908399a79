------------------------ MODULE PagedAllocatorProofs ------------------------
(***************************************************************************)
(* Theorems about PagedAllocator, for any pool, page size, rows and        *)
(* bounds, on both back ends: every page has one owner, rows keep the      *)
(* paged layout, no allocation is refused while pages wait to be merged,   *)
(* and a draft block touches no committed token.                           *)
(***************************************************************************)
EXTENDS PagedAllocator, CollectionProofs

-----------------------------------------------------------------------------
(* The inductive invariant.                                                *)

\* The page table of a row of slots.
Table(s) == [b \in 1 .. CeilDiv(Len(s), PageSize) |-> PageOf(s[(b - 1) * PageSize + 1])]

\* The slots s are the first Len(s) slots of the pages t, in order.
Laid(s, t) ==
  /\ s \in Seq(Nat) /\ t \in Seq(Pages) /\ IsInjective(t)
  /\ Len(t) = CeilDiv(Len(s), PageSize)
  /\ \A i \in 1 .. Len(s) :
       s[i] = t[(i - 1) \div PageSize + 1] * PageSize + ((i - 1) % PageSize)

\* The pages of the slots s.
SlotPages(s) == {PageOf(s[k]) : k \in DOMAIN s}

\* The pages each row holds.
Owned(R) == [r \in Rows |-> SlotPages(R[r])]

\* The pages of the pool: listed once in `pool`, or deferred, or owned by a row.
Parted(pool, group, own) ==
  /\ pool \in Seq(Pages) /\ IsInjective(pool)
  /\ group \subseteq Pages /\ own \in [Rows -> SUBSET Pages]
  /\ Set(pool) \cap group = {}
  /\ \A r \in Rows : own[r] \cap Set(pool) = {} /\ own[r] \cap group = {}
  /\ \A q, r \in Rows : q # r => own[q] \cap own[r] = {}
  /\ \A p \in Pages : p \in Set(pool) \/ p \in group \/ \E r \in Rows : p \in own[r]

Types ==
  /\ backend \in {"cuda", "npu"}
  /\ free_pages \in Seq(Pages) /\ release_pages \in Seq(Pages)
  /\ in_group \in BOOLEAN
  /\ free_group \in Seq(Nat)
  /\ rows \in [Rows -> Seq(Nat)] /\ draft \in [Rows -> Seq(Nat)]
  /\ saved = <<>> \/ saved \in Seq(Pages) \X Seq(Pages)
  /\ outcome \in [ok : BOOLEAN, need : Nat, oob : BOOLEAN]

\* The lists are in use only where the code uses them: release_pages with
\* need_sort, the deferred slots inside a group, the draft block while the
\* lists of before it are saved.
Idle ==
  /\ ~NeedSort => release_pages = <<>> /\ (saved # <<>> => saved[2] = <<>>)
  /\ ~in_group => free_group = <<>>
  /\ saved = <<>> => \A r \in Rows : draft[r] = <<>>

AllocInv ==
  /\ Types
  /\ Idle
  /\ \A r \in Rows : Laid(rows[r], Table(rows[r]))
  /\ Parted(PoolList, GroupPages, Owned(rows))
  /\ NoSpuriousNone
  /\ DraftBlockPrivate

-----------------------------------------------------------------------------
(* Pages and slots.                                                        *)

\* What is assumed of the constants.
LEMMA Constants ==
  /\ NumPages \in Nat \ {0} /\ PageSize \in Nat \ {0} /\ PageSize >= 2
  /\ NumRows \in Nat \ {0} /\ MaxLen \in Nat /\ MaxExtend \in Nat \ {0}
  /\ NeedSort \in BOOLEAN /\ Backends \subseteq {"cuda", "npu"}
BY PagedAllocatorAssumption

\* The pages that n tokens fill or begin.
LEMMA CeilFacts ==
  ASSUME NEW n \in Nat
  PROVE  LET c == CeilDiv(n, PageSize)
         IN  /\ c \in Nat /\ n <= c * PageSize /\ c * PageSize < n + PageSize
             /\ c * PageSize \in Nat
             /\ n = 0 => c = 0
             /\ \A k \in Int : n <= k * PageSize /\ k * PageSize < n + PageSize => k = c
<1> DEFINE m == n + PageSize - 1
           c == CeilDiv(n, PageSize)
<1>0. PageSize \in Nat \ {0}
  BY Constants
<1>1. m \in Nat /\ c = m \div PageSize
  BY <1>0 DEF CeilDiv
<1>1a. m = n + PageSize - 1
  OBVIOUS
<1> HIDE DEF c, m
<1>2. /\ c \in Nat /\ m % PageSize \in 0 .. PageSize - 1 /\ m = c * PageSize + (m % PageSize)
      /\ \A q \in Int, e \in 0 .. PageSize - 1 : m = q * PageSize + e => c = q
  <2>1. /\ m \div PageSize \in Nat /\ m % PageSize \in 0 .. PageSize - 1
        /\ m = (m \div PageSize) * PageSize + (m % PageSize)
        /\ \A q \in Int, e \in 0 .. PageSize - 1 :
             m = q * PageSize + e => m \div PageSize = q /\ m % PageSize = e
    BY <1>0, <1>1, Division
  <2> QED
    BY Zenon, <1>1, <2>1
<1>3. c * PageSize \in Nat
  BY <1>0, <1>2
<1>4. n <= c * PageSize /\ c * PageSize < n + PageSize
  BY <1>0, <1>1a, <1>2, <1>3
<1>5. ASSUME NEW k \in Int, n <= k * PageSize, k * PageSize < n + PageSize
      PROVE  k = c
  <2>1. k * PageSize \in Int
    BY <1>0
  <2>2. m - k * PageSize \in 0 .. PageSize - 1 /\ m = k * PageSize + (m - k * PageSize)
    BY <1>0, <1>1, <1>1a, <1>5, <2>1
  <2> QED
    BY <1>2, <2>2
<1>6. n = 0 => c = 0
  <2>1. 0 * PageSize = 0
    BY <1>0
  <2> QED
    BY <1>0, <1>5, <2>1
<1> QED
  BY <1>2, <1>3, <1>4, <1>5, <1>6 DEF c

\* Position i of a row lies in block (i - 1) \div PageSize.
LEMMA BlockFacts ==
  ASSUME NEW i \in Nat \ {0}
  PROVE  LET b == (i - 1) \div PageSize + 1
         IN  /\ b \in Nat \ {0} /\ (b - 1) * PageSize <= i - 1 /\ i - 1 < b * PageSize
             /\ (i - 1) % PageSize \in 0 .. PageSize - 1
             /\ i - 1 = (b - 1) * PageSize + ((i - 1) % PageSize)
             /\ (b - 1) * PageSize \in Nat /\ b * PageSize = (b - 1) * PageSize + PageSize
             /\ \A n \in Nat : i <= n => b <= CeilDiv(n, PageSize)
             /\ \A k \in Int, m \in 0 .. PageSize - 1 :
                  i - 1 = k * PageSize + m => b = k + 1 /\ m = (i - 1) % PageSize
<1> DEFINE j == i - 1
           d == j \div PageSize
           e == j % PageSize
<1>0. PageSize \in Nat \ {0} /\ j \in Nat
  BY Constants
<1> HIDE DEF j
<1>1. /\ d \in Nat /\ e \in 0 .. PageSize - 1 /\ j = d * PageSize + e
      /\ \A k \in Int, m \in 0 .. PageSize - 1 : j = k * PageSize + m => d = k /\ e = m
  BY <1>0, Division
<1> HIDE DEF d, e
<1>2. d * PageSize \in Nat /\ (d + 1) * PageSize = d * PageSize + PageSize
  BY <1>0, <1>1
<1>3. d * PageSize <= j /\ j < (d + 1) * PageSize
  BY <1>0, <1>1, <1>2
<1>4. ASSUME NEW n \in Nat, i <= n
      PROVE  d + 1 <= CeilDiv(n, PageSize)
  <2> DEFINE c == CeilDiv(n, PageSize)
  <2>1. c \in Nat /\ n <= c * PageSize /\ c * PageSize \in Nat
    BY CeilFacts
  <2> HIDE DEF c
  <2>2. ~ (c <= d)
    <3>1. SUFFICES ASSUME c <= d PROVE FALSE
      OBVIOUS
    <3>2. c * PageSize <= d * PageSize
      BY <1>0, <1>1, <2>1, <3>1, Scale
    <3>3. j < i
      BY DEF j
    <3> QED
      BY <1>0, <1>2, <1>3, <1>4, <2>1, <3>2, <3>3
  <2>3. d + 1 <= c
    BY <1>1, <2>1, <2>2
  <2> QED
    BY Zenon, <2>3 DEF c
<1> DEFINE b == d + 1
<1>5. b \in Nat \ {0} /\ b - 1 = d
  BY <1>1
<1> HIDE DEF b
<1>6. /\ b \in Nat \ {0} /\ (b - 1) * PageSize <= j /\ j < b * PageSize
      /\ (b - 1) * PageSize \in Nat /\ b * PageSize = (b - 1) * PageSize + PageSize
  BY <1>2, <1>3, <1>5 DEF b
<1>7. e \in 0 .. PageSize - 1 /\ j = (b - 1) * PageSize + e
  BY <1>1, <1>5
<1>8. \A n \in Nat : i <= n => b <= CeilDiv(n, PageSize)
  BY Zenon, <1>4 DEF b
<1>9. \A k \in Int, m \in 0 .. PageSize - 1 :
        j = k * PageSize + m => b = k + 1 /\ m = e
  BY Zenon, <1>1 DEF b
<1>10. b = (i - 1) \div PageSize + 1 /\ j = i - 1 /\ e = (i - 1) % PageSize
  BY Zenon DEF b, d, j, e
<1> QED
  BY Zenon, <1>6, <1>7, <1>8, <1>9, <1>10

\* A slot of page p at offset m.
LEMMA SlotFacts ==
  ASSUME NEW p \in Nat, NEW m \in 0 .. PageSize - 1
  PROVE  /\ p * PageSize + m \in Nat
         /\ PageOf(p * PageSize + m) = p /\ (p * PageSize + m) % PageSize = m
<1> DEFINE x == p * PageSize + m
<1>0. PageSize \in Nat \ {0}
  BY Constants
<1>1. p * PageSize \in Nat
  BY <1>0
<1>2. x \in Nat
  BY <1>0, <1>1
<1>3. x = p * PageSize + m
  OBVIOUS
<1> HIDE DEF x
<1>4. x \div PageSize = p /\ x % PageSize = m
  BY <1>0, <1>2, <1>3, Division
<1> QED
  BY Zenon, <1>2, <1>3, <1>4 DEF PageOf

-----------------------------------------------------------------------------
(* Rows laid out on page tables.                                           *)

\* The page and the offset of a position.
LEMMA LaidAt ==
  ASSUME NEW s, NEW t, Laid(s, t), NEW i \in 1 .. Len(s)
  PROVE  LET b == (i - 1) \div PageSize + 1
         IN  /\ b \in 1 .. Len(t) /\ t[b] \in Pages /\ PageOf(s[i]) = t[b]
             /\ s[i] % PageSize = (i - 1) % PageSize
             /\ s[i] = t[b] * PageSize + ((i - 1) % PageSize)
<1> DEFINE b == (i - 1) \div PageSize + 1
           m == (i - 1) % PageSize
<1>1. Len(s) \in Nat /\ i \in Nat \ {0} /\ i <= Len(s)
  BY DEF Laid
<1>2. b \in Nat \ {0} /\ m \in 0 .. PageSize - 1 /\ \A n \in Nat : i <= n => b <= CeilDiv(n, PageSize)
  BY <1>1, BlockFacts
<1>3. s[i] = t[b] * PageSize + m /\ Len(t) = CeilDiv(Len(s), PageSize) /\ t \in Seq(Pages)
  BY Zenon DEF Laid
<1> HIDE DEF b, m
<1>4. b \in 1 .. Len(t)
  BY <1>1, <1>2, <1>3
<1>5. t[b] \in Pages
  BY <1>3, <1>4
<1>6. t[b] \in Nat
  BY <1>5, Constants DEF Pages
<1> DEFINE x == t[b]
<1>7. x \in Nat /\ x \in Pages /\ s[i] = x * PageSize + m
  BY <1>3, <1>5, <1>6
<1>8. x = t[b]
  OBVIOUS
<1> HIDE DEF x
<1>9. PageOf(s[i]) = x /\ s[i] % PageSize = m
  BY <1>2, <1>7, SlotFacts
<1> QED
  BY Zenon, <1>3, <1>4, <1>5, <1>8, <1>9 DEF b, m

\* Block b begins at position (b - 1) * PageSize + 1.
LEMMA BlockStart ==
  ASSUME NEW n \in Nat, NEW b \in 1 .. CeilDiv(n, PageSize)
  PROVE  LET i == (b - 1) * PageSize + 1
         IN  i \in 1 .. n /\ (i - 1) \div PageSize + 1 = b /\ (i - 1) % PageSize = 0
<1> DEFINE i == (b - 1) * PageSize + 1
           c == CeilDiv(n, PageSize)
<1>0. PageSize \in Nat \ {0}
  BY Constants
<1>1. c \in Nat /\ c * PageSize < n + PageSize /\ c * PageSize \in Nat
  BY CeilFacts
<1>2. b \in 1 .. c
  OBVIOUS
<1> HIDE DEF c
<1>3. (b - 1) * PageSize \in Nat /\ b * PageSize = (b - 1) * PageSize + PageSize
  BY <1>0, <1>1, <1>2
<1>4. b * PageSize <= c * PageSize
  BY <1>0, <1>1, <1>2, Scale
<1>5. i \in 1 .. n
  BY <1>0, <1>1, <1>3, <1>4
<1>6. i - 1 = (b - 1) * PageSize + 0 /\ i \in Nat \ {0} /\ b - 1 \in Int
  BY <1>1, <1>2, <1>3, <1>5
<1> HIDE DEF i
<1>7. 0 \in 0 .. PageSize - 1
  BY <1>0
<1>8. (i - 1) \div PageSize + 1 = (b - 1) + 1 /\ 0 = (i - 1) % PageSize
  BY <1>6, <1>7, BlockFacts
<1>9. (i - 1) \div PageSize + 1 = b
  BY <1>1, <1>2, <1>8
<1> QED
  BY Zenon, <1>5, <1>8, <1>9 DEF i

\* The page table is read off the row.
LEMMA LaidTable ==
  ASSUME NEW s, NEW t, Laid(s, t)
  PROVE  t = Table(s)
<1>1. Len(s) \in Nat /\ t \in Seq(Pages) /\ Len(t) = CeilDiv(Len(s), PageSize)
  BY Zenon, LenProperties DEF Laid
<1>2. t = [b \in 1 .. Len(t) |-> t[b]] /\ Len(t) \in Nat
  BY <1>1
<1>3. ASSUME NEW b \in 1 .. CeilDiv(Len(s), PageSize)
      PROVE  PageOf(s[(b - 1) * PageSize + 1]) = t[b]
  <2> DEFINE i == (b - 1) * PageSize + 1
  <2>1. i \in 1 .. Len(s) /\ (i - 1) \div PageSize + 1 = b
    BY <1>1, BlockStart
  <2> HIDE DEF i
  <2>2. PageOf(s[i]) = t[(i - 1) \div PageSize + 1]
    BY <2>1, LaidAt
  <2> QED
    BY Zenon, <2>1, <2>2 DEF i
<1> QED
  BY Zenon, <1>1, <1>2, <1>3 DEF Table

\* The row holds exactly the pages of its table.
LEMMA LaidPages ==
  ASSUME NEW s, NEW t, Laid(s, t)
  PROVE  SlotPages(s) = Set(t) /\ Set(t) \subseteq Pages
<1>1. /\ Len(s) \in Nat /\ t \in Seq(Pages) /\ Len(t) = CeilDiv(Len(s), PageSize)
      /\ DOMAIN s = 1 .. Len(s) /\ DOMAIN t = 1 .. Len(t)
  BY LenProperties DEF Laid
<1>2. ASSUME NEW k \in DOMAIN s
      PROVE  PageOf(s[k]) \in Set(t)
  <2> DEFINE b == (k - 1) \div PageSize + 1
  <2>1. b \in 1 .. Len(t) /\ PageOf(s[k]) = t[b]
    BY <1>1, LaidAt
  <2> HIDE DEF b
  <2> QED
    BY <1>1, <2>1 DEF Set
<1>3. ASSUME NEW b \in DOMAIN t
      PROVE  \E k \in DOMAIN s : PageOf(s[k]) = t[b]
  <2> DEFINE i == (b - 1) * PageSize + 1
  <2>1. i \in 1 .. Len(s) /\ (i - 1) \div PageSize + 1 = b
    BY <1>1, BlockStart
  <2> HIDE DEF i
  <2>2. PageOf(s[i]) = t[(i - 1) \div PageSize + 1]
    BY <2>1, LaidAt
  <2> QED
    BY Zenon, <1>1, <2>1, <2>2
<1>4. Set(t) \subseteq Pages
  BY <1>1, SetType
<1> QED
  BY <1>2, <1>3, <1>4 DEF SlotPages, Set

\* Positions share a page exactly when they are in one block; a slot is used
\* by one position.
LEMMA LaidLayout ==
  ASSUME NEW s, NEW t, Laid(s, t), NEW i \in 1 .. Len(s), NEW j \in 1 .. Len(s)
  PROVE  /\ s[i] % PageSize = (i - 1) % PageSize
         /\ (PageOf(s[i]) = PageOf(s[j])) <=> ((i - 1) \div PageSize = (j - 1) \div PageSize)
         /\ s[i] = s[j] => i = j
<1> DEFINE a == (i - 1) \div PageSize + 1
           b == (j - 1) \div PageSize + 1
           d == (i - 1) \div PageSize
           e == (j - 1) \div PageSize
<1>1. a \in 1 .. Len(t) /\ PageOf(s[i]) = t[a] /\ s[i] % PageSize = (i - 1) % PageSize
  BY LaidAt
<1>2. b \in 1 .. Len(t) /\ PageOf(s[j]) = t[b] /\ s[j] % PageSize = (j - 1) % PageSize
  BY LaidAt
<1>3. IsInjective(t) /\ DOMAIN t = 1 .. Len(t) /\ Len(s) \in Nat
  BY LenProperties DEF Laid
<1>4. i \in Nat \ {0} /\ j \in Nat \ {0}
  BY <1>3
<1>5. /\ a \in Nat \ {0} /\ i - 1 = (a - 1) * PageSize + ((i - 1) % PageSize)
      /\ (i - 1) % PageSize \in 0 .. PageSize - 1
  BY <1>4, BlockFacts
<1>6. /\ b \in Nat \ {0} /\ j - 1 = (b - 1) * PageSize + ((j - 1) % PageSize)
      /\ (j - 1) % PageSize \in 0 .. PageSize - 1
  BY <1>4, BlockFacts
<1>7. a = d + 1 /\ b = e + 1 /\ d \in Int /\ e \in Int
  <2>1. PageSize \in Nat \ {0}
    BY Constants
  <2>2. i - 1 \in Nat /\ j - 1 \in Nat
    BY <1>4
  <2>3. d \in Nat /\ e \in Nat
    BY <2>1, <2>2, Division
  <2> QED
    BY <2>3
<1> HIDE DEF a, b, d, e
<1>8. t[a] = t[b] <=> a = b
  BY <1>1, <1>2, <1>3 DEF IsInjective
<1>9. (a = b) <=> (d = e)
  BY <1>7
<1>10. ASSUME s[i] = s[j] PROVE i = j
  <2>1. a = b
    BY Zenon, <1>1, <1>2, <1>8, <1>10
  <2>2. (i - 1) % PageSize = (j - 1) % PageSize
    BY Zenon, <1>1, <1>2, <1>10
  <2>3. i - 1 = j - 1
    BY Zenon, <1>5, <1>6, <2>1, <2>2
  <2> QED
    BY <1>4, <2>3
<1> QED
  BY Zenon, <1>1, <1>2, <1>8, <1>9, <1>10 DEF d, e

\* A list and what follows it.
LEMMA ConcatFacts ==
  ASSUME NEW a \in Seq(Nat), NEW b \in Seq(Nat)
  PROVE  /\ a \o b \in Seq(Nat) /\ Len(a \o b) = Len(a) + Len(b)
         /\ \A i \in 1 .. Len(a) + Len(b) :
              (a \o b)[i] = IF i <= Len(a) THEN a[i] ELSE b[i - Len(a)]
OBVIOUS

\* A list behind its first k entries.
LEMMA BehindFacts ==
  ASSUME NEW s \in Seq(Nat), NEW k \in 0 .. Len(s)
  PROVE  /\ SubSeq(s, k + 1, Len(s)) \in Seq(Nat) /\ Len(SubSeq(s, k + 1, Len(s))) = Len(s) - k
         /\ \A i \in 1 .. Len(s) - k : SubSeq(s, k + 1, Len(s))[i] = s[k + i]
<1>1. Len(s) \in Nat /\ k \in Nat /\ k <= Len(s) /\ \A i \in k + 1 .. Len(s) : i \in 1 .. Len(s)
  OBVIOUS
<1>2. SubSeq(s, k + 1, Len(s)) \in Seq(Nat)
  BY <1>1
<1>3. Len(SubSeq(s, k + 1, Len(s))) = Len(s) - k
  BY <1>1
<1>4. \A i \in 1 .. Len(s) - k : SubSeq(s, k + 1, Len(s))[i] = s[k + i]
  BY <1>1
<1> QED
  BY <1>2, <1>3, <1>4

\* The n slots behind the row s when its table t goes on with the pages u.
Onward(s, t, u, n) ==
  [k \in 1 .. n |->
    (t \o u)[((Len(s) + k) - 1) \div PageSize + 1] * PageSize
    + (((Len(s) + k) - 1) % PageSize)]

\* A row of the table t goes on over the new pages u.
LEMMA Growth ==
  ASSUME NEW s, NEW t, Laid(s, t), NEW n \in Nat,
         NEW u \in Seq(Pages), IsInjective(u), Set(u) \cap Set(t) = {},
         Len(u) = CeilDiv(Len(s) + n, PageSize) - CeilDiv(Len(s), PageSize)
  PROVE  LET e == Onward(s, t, u, n)
         IN  /\ e \in Seq(Nat) /\ Len(e) = n
             /\ Laid(s \o e, t \o u) /\ SlotPages(s \o e) = SlotPages(s) \cup Set(u)
<1> DEFINE e == Onward(s, t, u, n)
           v == t \o u
           len == Len(s)
<1>1. len \in Nat /\ t \in Seq(Pages) /\ Len(t) = CeilDiv(len, PageSize) /\ IsInjective(t)
      /\ s \in Seq(Nat)
  BY LenProperties DEF Laid
<1>2. v \in Seq(Pages) /\ Set(v) = Set(t) \cup Set(u) /\ IsInjective(v)
  BY <1>1, SetConcat
<1>3. Len(v) = CeilDiv(len + n, PageSize)
  <2>0. t \in Seq(Pages) /\ u \in Seq(Pages)
    BY <1>1
  <2>1. Len(t) \in Nat /\ Len(u) \in Nat /\ Len(v) = Len(t) + Len(u)
    BY <2>0
  <2>2. CeilDiv(len + n, PageSize) \in Nat
    BY <1>1, CeilFacts
  <2> QED
    BY <1>1, <2>1, <2>2
<1>4. \A k \in 1 .. n :
        e[k] = v[((len + k) - 1) \div PageSize + 1] * PageSize + (((len + k) - 1) % PageSize)
  BY Zenon DEF Onward
<1>0. DOMAIN e = 1 .. n /\ e = [k \in 1 .. n |-> e[k]]
  BY DEF Onward
<1> HIDE DEF e, v, len
<1>5. ASSUME NEW k \in 1 .. n
      PROVE  /\ e[k] \in Nat
             /\ e[k] = v[((len + k) - 1) \div PageSize + 1] * PageSize + (((len + k) - 1) % PageSize)
  <2> DEFINE i == len + k
             b == (i - 1) \div PageSize + 1
             m == (i - 1) % PageSize
             x == v[b]
  <2>1. i \in Nat \ {0} /\ i <= len + n /\ len + n \in Nat
    BY <1>1
  <2> HIDE DEF i
  <2>2. b \in Nat \ {0} /\ b <= CeilDiv(len + n, PageSize) /\ m \in 0 .. PageSize - 1
    BY <2>1, BlockFacts
  <2> HIDE DEF b, m
  <2>3. x \in Pages
    BY <1>2, <1>3, <2>2
  <2>4. x \in Nat
    BY <2>3, Constants DEF Pages
  <2>5. e[k] = v[(i - 1) \div PageSize + 1] * PageSize + ((i - 1) % PageSize)
    <3>1. e[k] = v[((len + k) - 1) \div PageSize + 1] * PageSize + (((len + k) - 1) % PageSize)
      BY Zenon, <1>4
    <3>2. i = len + k
      BY DEF i
    <3> QED
      BY Zenon, <3>1, <3>2
  <2> HIDE DEF x
  <2>6. x * PageSize + m \in Nat
    BY <2>2, <2>4, SlotFacts
  <2>7. e[k] = x * PageSize + m
    BY Zenon, <2>5 DEF x, b, m
  <2> QED
    BY Zenon, <2>5, <2>6, <2>7 DEF i
<1>6. e \in [1 .. n -> Nat]
  BY <1>0, <1>5
<1>7. e \in Seq(Nat) /\ Len(e) = n
  BY <1>6, SeqOfMap
<1> DEFINE w == s \o e
<1>8. w \in Seq(Nat) /\ Len(w) = len + n
      /\ \A i \in 1 .. len + n : w[i] = IF i <= len THEN s[i] ELSE e[i - len]
  <2>1. s \in Seq(Nat) /\ e \in Seq(Nat) /\ Len(s) = len /\ Len(e) = n
    BY <1>1, <1>7 DEF len
  <2> HIDE DEF e, len
  <2> QED
    BY <2>1, ConcatFacts
<1>9. Len(v) = CeilDiv(Len(w), PageSize)
  BY <1>3, <1>8
<1> HIDE DEF w
<1>10. ASSUME NEW i \in 1 .. Len(w)
       PROVE  w[i] = v[(i - 1) \div PageSize + 1] * PageSize + ((i - 1) % PageSize)
  <2>1. CASE i <= len
    <3> DEFINE b == (i - 1) \div PageSize + 1
               m == (i - 1) % PageSize
    <3>1. i \in 1 .. len + n /\ i \in 1 .. len
      BY <1>1, <1>8, <2>1
    <3>1a. w[i] = s[i]
      BY Zenon, <1>8, <2>1, <3>1
    <3>2. b \in 1 .. Len(t) /\ s[i] = t[b] * PageSize + m
      BY <3>1, LaidAt DEF len
    <3> HIDE DEF b, m
    <3>3. v[b] = t[b]
      BY <1>1, <3>2 DEF v
    <3>4. w[i] = v[b] * PageSize + m
      BY Zenon, <3>1a, <3>2, <3>3
    <3> QED
      BY Zenon, <3>4 DEF b, m
  <2>2. CASE ~ (i <= len)
    <3> DEFINE k == i - len
    <3>0. i \in 1 .. len + n
      BY <1>8
    <3>1a. w[i] = e[k]
      BY Zenon, <1>8, <2>2, <3>0
    <3>1. k \in 1 .. n /\ w[i] = e[k] /\ len + k = i
      BY <1>1, <2>2, <3>0, <3>1a
    <3> HIDE DEF k
    <3>2. e[k] = v[((len + k) - 1) \div PageSize + 1] * PageSize + (((len + k) - 1) % PageSize)
      BY <1>5, <3>1
    <3> QED
      BY Zenon, <3>1, <3>2
  <2> QED
    BY <2>1, <2>2
<1>11. Laid(w, v)
  BY Zenon, <1>2, <1>8, <1>9, <1>10 DEF Laid
<1>12. SlotPages(w) = Set(v) /\ SlotPages(s) = Set(t)
  BY <1>11, LaidPages
<1> QED
  BY Zenon, <1>2, <1>7, <1>11, <1>12 DEF w, v, e

\* More tokens do not take fewer pages.
LEMMA CeilMonotone ==
  ASSUME NEW m \in Nat, NEW n \in Nat, m <= n
  PROVE  CeilDiv(m, PageSize) <= CeilDiv(n, PageSize)
<1> DEFINE a == CeilDiv(m, PageSize)
           b == CeilDiv(n, PageSize)
<1>0. PageSize \in Nat \ {0}
  BY Constants
<1>1. a \in Nat /\ a * PageSize < m + PageSize /\ a * PageSize \in Nat
  BY CeilFacts
<1>2. b \in Nat /\ n <= b * PageSize /\ b * PageSize \in Nat
  BY CeilFacts
<1> HIDE DEF a, b
<1>3. ~ (b + 1 <= a)
  <2>1. SUFFICES ASSUME b + 1 <= a PROVE FALSE
    OBVIOUS
  <2>2. (b + 1) * PageSize <= a * PageSize
    BY <1>0, <1>1, <1>2, <2>1, Scale
  <2>3. (b + 1) * PageSize = b * PageSize + PageSize
    BY <1>0, <1>2
  <2> QED
    BY <1>0, <1>1, <1>2, <2>2, <2>3
<1>4. a <= b
  BY <1>1, <1>2, <1>3
<1> QED
  BY Zenon, <1>4 DEF a, b

\* The n pages behind the first `start` pages of a list.
Segment(pages, start, n) == SubSeq(pages, start + 1, start + n)

\* The pages of one request of the batch.
LEMMA SegmentFacts ==
  ASSUME NEW pages \in Seq(Pages), IsInjective(pages),
         NEW start \in Nat, NEW n \in Nat, start + n <= Len(pages)
  PROVE  LET u == Segment(pages, start, n)
         IN  /\ u \in Seq(Pages) /\ Len(u) = n /\ IsInjective(u)
             /\ \A k \in 1 .. n : u[k] = pages[start + k]
             /\ Set(u) = {pages[k] : k \in start + 1 .. start + n}
<1> DEFINE u == Segment(pages, start, n)
<1>1. Len(pages) \in Nat /\ DOMAIN pages = 1 .. Len(pages)
  OBVIOUS
<1>2. u \in Seq(Pages) /\ Len(u) = n /\ \A k \in 1 .. n : u[k] = pages[start + k]
  <2>1. \A k \in start + 1 .. start + n : k \in 1 .. Len(pages)
    BY <1>1
  <2>2. \A k \in 1 .. n : (start + 1) + k - 1 = start + k
    OBVIOUS
  <2>3. u \in Seq(Pages) /\ Len(u) = n
    BY <1>1, <2>1 DEF Segment
  <2>4. \A k \in 1 .. n : u[k] = pages[start + k]
    BY <1>1 DEF Segment
  <2> QED
    BY <2>3, <2>4
<1> HIDE DEF u
<1>3. DOMAIN u = 1 .. n
  BY <1>2
<1>4. IsInjective(u)
  <2>1. ASSUME NEW i \in 1 .. n, NEW j \in 1 .. n, u[i] = u[j] PROVE i = j
    <3>1. start + i \in DOMAIN pages /\ start + j \in DOMAIN pages
      BY <1>1
    <3>2. pages[start + i] = pages[start + j]
      BY <1>2, <2>1
    <3>3. start + i = start + j
      BY Zenon, <3>1, <3>2 DEF IsInjective
    <3> QED
      BY <3>3
  <2> QED
    BY <1>3, <2>1 DEF IsInjective
<1>5. Set(u) = {pages[k] : k \in start + 1 .. start + n}
  <2>1. ASSUME NEW k \in start + 1 .. start + n PROVE \E j \in 1 .. n : u[j] = pages[k]
    <3>1. k - start \in 1 .. n /\ start + (k - start) = k
      OBVIOUS
    <3> QED
      BY <1>2, <3>1
  <2>2. ASSUME NEW j \in 1 .. n PROVE start + j \in start + 1 .. start + n
    OBVIOUS
  <2> QED
    <3>1. \A y \in {pages[k] : k \in start + 1 .. start + n} : \E j \in 1 .. n : y = u[j]
      BY Zenon, <2>1
    <3>2. \A j \in 1 .. n : u[j] \in {pages[k] : k \in start + 1 .. start + n}
      BY <1>2, <2>2
    <3> QED
      BY Zenon, <1>3, <3>1, <3>2 DEF Set
<1> QED
  BY Zenon, <1>2, <1>4, <1>5 DEF u

\* The pages behind the table, by block.
LEMMA TableGrowth ==
  ASSUME NEW t \in Seq(Pages), NEW u \in Seq(Pages), NEW b \in Nat
  PROVE  /\ b \in 1 .. Len(t) => (t \o u)[b] = t[b]
         /\ b \in Len(t) + 1 .. Len(t) + Len(u) => (t \o u)[b] = u[b - Len(t)]
OBVIOUS

\* What get_last_loc finds for a row: its last slot.
LastSlot(s) == IF Len(s) = 0 THEN -1 ELSE s[Len(s)]

\* The slots of alloc_extend go on where the row ends: the rest of its last
\* page, then whole new pages, then the beginning of the last new page.
LEMMA ExtendFits ==
  ASSUME NEW s, NEW t, Laid(s, t), NEW x \in Nat,
         NEW pages \in Seq(Pages), IsInjective(pages), NEW start \in Nat,
         start + NewPages(Len(s), Len(s) + x) <= Len(pages)
  PROVE  LET e == ExtendSlots(pages, Len(s), Len(s) + x, LastSlot(s), start)
             u == Segment(pages, start, NewPages(Len(s), Len(s) + x))
         IN  e = Onward(s, t, u, x)
<1> DEFINE pre == Len(s)
           seq == pre + x
           c == CeilDiv(pre, PageSize)
           d == CeilDiv(seq, PageSize)
           cP == c * PageSize
           q == seq \div PageSize
           qP == q * PageSize
           part1 == Least(seq, cP) - pre
           part2 == qP - cP
           n == NewPages(pre, seq)
           u == Segment(pages, start, n)
           v == t \o u
           last == LastSlot(s)
           e == ExtendSlots(pages, pre, seq, last, start)
<1>0. PageSize \in Nat \ {0}
  BY Constants
<1>1. pre \in Nat /\ seq \in Nat /\ t \in Seq(Pages) /\ Len(t) = c /\ s \in Seq(Nat)
  BY LenProperties DEF Laid
<1>2. /\ e = [k \in 1 .. x |->
               LET off == k - 1 - part1
               IN  IF k <= part1
                     THEN last + k
                     ELSE IF off < part2
                       THEN pages[start + 1 + (off \div PageSize)] * PageSize + (off % PageSize)
                       ELSE pages[start + n] * PageSize + (off - part2)]
      /\ DOMAIN e = 1 .. x /\ e = [k \in 1 .. x |-> e[k]]
  <2>1. seq - pre = x
    BY <1>1
  <2>2. AlignUp(pre) = cP
    BY DEF AlignUp
  <2> QED
    BY Zenon, <2>1, <2>2 DEF ExtendSlots
<1>3. n = d - c
  BY DEF NewPages
<1>4. last = IF pre = 0 THEN -1 ELSE s[pre]
  BY DEF LastSlot
<1>5. start + n <= Len(pages) /\ Laid(s, t)
  OBVIOUS
<1> HIDE DEF e, n, last
<1>6. /\ c \in Nat /\ pre <= cP /\ cP < pre + PageSize /\ cP \in Nat
      /\ pre = 0 => c = 0
      /\ \A k \in Int : pre <= k * PageSize /\ k * PageSize < pre + PageSize => k = c
  BY <1>1, CeilFacts
<1> HIDE DEF pre
<1>7. /\ d \in Nat
      /\ \A k \in Int : seq <= k * PageSize /\ k * PageSize < seq + PageSize => k = d
  BY <1>1, CeilFacts
<1>8. c <= d
  BY <1>1, CeilMonotone
<1>9. q \in Nat /\ seq % PageSize \in 0 .. PageSize - 1 /\ seq = qP + (seq % PageSize)
  BY <1>0, <1>1, Division
<1>10. \A k \in 1 .. x : ((pre + k) \in Nat \ {0}) /\ pre + k <= seq
  BY <1>1
<1>11. part1 = Least(seq, cP) - pre /\ part2 = qP - cP /\ seq = pre + x
  OBVIOUS
<1> HIDE DEF seq, c, d, q, part1, part2
<1>12. qP \in Nat /\ qP <= seq /\ seq < qP + PageSize
  BY <1>0, <1>1, <1>9
<1>13. n \in Nat
  BY <1>3, <1>6, <1>7, <1>8
<1>14. u \in Seq(Pages) /\ Len(u) = n /\ \A k \in 1 .. n : u[k] = pages[start + k]
  BY <1>5, <1>13, SegmentFacts
<1> HIDE DEF u
<1>15. /\ \A b \in 1 .. c : v[b] = t[b]
       /\ \A b \in Nat : c < b /\ b <= d => v[b] = pages[start + (b - c)]
  <2>1. ASSUME NEW b \in 1 .. c PROVE v[b] = t[b]
    BY <1>1, <1>6, <1>14, TableGrowth
  <2>2. ASSUME NEW b \in Nat, c < b, b <= d PROVE v[b] = pages[start + (b - c)]
    <3>1. b - c \in 1 .. n /\ b \in Len(t) + 1 .. Len(t) + Len(u)
      BY <1>1, <1>3, <1>6, <1>7, <1>14, <2>2
    <3>2. v[b] = u[b - Len(t)]
      BY <1>1, <1>14, <3>1, TableGrowth
    <3> QED
      BY <1>1, <1>14, <3>1, <3>2
  <2> QED
    BY <2>1, <2>2
<1> HIDE DEF v
<1>20. ASSUME NEW k \in 1 .. x
       PROVE  e[k] = v[((pre + k) - 1) \div PageSize + 1] * PageSize + (((pre + k) - 1) % PageSize)
  <2> DEFINE i == pre + k
             b == (i - 1) \div PageSize + 1
             m == (i - 1) % PageSize
             off == k - 1 - part1
  <2>0. k \in Nat \ {0} /\ k <= x
    BY <1>20
  <2>1. i \in Nat \ {0} /\ i <= seq /\ pre < i
    BY <1>1, <1>11, <2>0
  <2>2. i = pre + k /\ off = k - 1 - part1
    OBVIOUS
  <2>3. e[k] = IF k <= part1
                 THEN last + k
                 ELSE IF off < part2
                   THEN pages[start + 1 + (off \div PageSize)] * PageSize + (off % PageSize)
                   ELSE pages[start + n] * PageSize + (off - part2)
    BY Zenon, <1>2
  <2> HIDE DEF i, off
  <2>4. /\ b \in Nat \ {0} /\ (b - 1) * PageSize <= i - 1 /\ i - 1 < b * PageSize
        /\ m \in 0 .. PageSize - 1
        /\ b * PageSize = (b - 1) * PageSize + PageSize
        /\ (b - 1) * PageSize \in Nat
    BY <2>1, BlockFacts
  <2>5. b <= d
    <3>1. seq \in Nat /\ d = CeilDiv(seq, PageSize)
      BY <1>1 DEF d, seq
    <3> QED
      BY <2>1, <3>1, BlockFacts
  <2>6. \A j \in Int, y \in 0 .. PageSize - 1 : i - 1 = j * PageSize + y => b = j + 1 /\ y = m
    BY <2>1, BlockFacts
  <2> HIDE DEF b, m
  <2>7. CASE i <= cP
    <3>1. pre # 0
      BY <1>0, <1>6, <2>1, <2>7
    <3>2. k <= part1
      BY <1>1, <1>6, <1>11, <2>0, <2>1, <2>2, <2>7 DEF Least
    <3>3. last = s[pre] /\ pre \in 1 .. Len(s) /\ pre \in Nat \ {0}
      BY <1>1, <1>4, <3>1 DEF pre
    <3> DEFINE b0 == (pre - 1) \div PageSize + 1
               m0 == (pre - 1) % PageSize
               z == t[c]
    <3>4. b0 \in 1 .. Len(t) /\ t[b0] \in Pages /\ s[pre] = t[b0] * PageSize + m0
      BY <3>3, <1>5, LaidAt
    <3>5. /\ b0 \in Nat \ {0} /\ (b0 - 1) * PageSize <= pre - 1 /\ pre - 1 < b0 * PageSize
          /\ m0 \in 0 .. PageSize - 1 /\ (b0 - 1) * PageSize \in Nat
          /\ b0 * PageSize = (b0 - 1) * PageSize + PageSize
          /\ pre - 1 = (b0 - 1) * PageSize + m0
      BY <3>3, BlockFacts
    <3> HIDE DEF b0, m0
    <3>6. b0 = c
      <4>1. pre <= b0 * PageSize /\ b0 * PageSize < pre + PageSize /\ b0 \in Int
        BY <1>0, <1>1, <3>5
      <4> QED
        BY <1>6, <4>1
    <3>7. z \in Pages /\ s[pre] = z * PageSize + m0
      BY <3>4, <3>6
    <3>8. z \in Nat
      BY <3>7, Constants DEF Pages
    <3>9. m0 + k \in 0 .. PageSize - 1 /\ i - 1 = (c - 1) * PageSize + (m0 + k) /\ c - 1 \in Int
      BY <1>0, <1>1, <1>6, <2>0, <2>1, <2>2, <2>7, <3>5, <3>6
    <3>10. b = (c - 1) + 1 /\ m0 + k = m
      BY <2>6, <3>9
    <3>11. b = c /\ c \in 1 .. c
      BY <1>6, <3>10, <2>4
    <3>12. v[b] = z
      BY <1>15, <3>11
    <3> HIDE DEF z
    <3>13. z * PageSize \in Int
      BY <1>0, <3>8
    <3>14. e[k] = z * PageSize + m
      BY <2>0, <2>3, <3>2, <3>3, <3>5, <3>7, <3>10, <3>13
    <3> QED
      BY Zenon, <3>12, <3>14 DEF b, m, i
  <2>8. CASE ~ (i <= cP)
    <3>1. part1 = cP - pre /\ off = i - 1 - cP /\ off \in Nat /\ ~ (k <= part1)
      BY <1>1, <1>6, <1>11, <2>0, <2>1, <2>2, <2>8 DEF Least
    <3>2. c < b
      <4>1. SUFFICES ASSUME b <= c PROVE FALSE
        BY <1>6, <2>4
      <4>2. b * PageSize <= c * PageSize /\ b * PageSize \in Int
        BY <1>0, <1>6, <2>4, <4>1, Scale
      <4> QED
        BY <1>6, <2>1, <2>4, <2>8, <4>2
    <3>3. v[b] = pages[start + (b - c)]
      BY <1>15, <2>4, <2>5, <3>2
    <3> DEFINE z == v[b]
    <3>4. CASE off < part2
      <4> DEFINE j == off \div PageSize
                 y == off % PageSize
      <4>1. j \in Nat /\ y \in 0 .. PageSize - 1 /\ off = j * PageSize + y
        BY <1>0, <3>1, Division
      <4>2. e[k] = pages[start + 1 + j] * PageSize + y
        BY Zenon, <2>3, <3>1, <3>4
      <4> HIDE DEF j, y
      <4>3. j * PageSize \in Nat /\ (c + j) * PageSize = cP + j * PageSize /\ c + j \in Int
        BY <1>0, <1>6, <4>1
      <4>4. i - 1 = (c + j) * PageSize + y
        BY <1>0, <1>6, <2>1, <3>1, <4>1, <4>3
      <4>5. b = (c + j) + 1 /\ y = m
        BY <2>6, <4>1, <4>3, <4>4
      <4>6. start + 1 + j = start + (b - c)
        BY <1>6, <4>1, <4>5
      <4> QED
        BY Zenon, <3>3, <4>2, <4>5, <4>6 DEF b, m, i
    <3>5. CASE ~ (off < part2)
      <4>1. e[k] = pages[start + n] * PageSize + (off - part2)
        BY Zenon, <2>3, <3>1, <3>5
      <4> HIDE DEF cP, qP
      <4>2a. off - part2 = (i - 1) - qP
        BY <1>6, <1>11, <1>12, <2>1, <3>1
      <4>2b. qP <= i - 1
        BY <1>6, <1>11, <1>12, <2>1, <3>1, <3>5
      <4>2. off - part2 \in 0 .. PageSize - 1
        BY <1>0, <1>1, <1>12, <2>1, <4>2a, <4>2b
      <4>3a. i - 1 = qP + (off - part2) /\ q \in Int
        BY <1>9, <1>12, <2>1, <4>2a
      <4>3. i - 1 = q * PageSize + (off - part2) /\ q \in Int
        BY <4>3a DEF qP
      <4> USE DEF cP, qP
      <4>4. b = q + 1 /\ off - part2 = m
        BY <2>6, <4>2, <4>3
      <4>5. (q + 1) * PageSize = qP + PageSize /\ q + 1 \in Int
        BY <1>0, <1>9
      <4>6. seq <= (q + 1) * PageSize /\ (q + 1) * PageSize < seq + PageSize
        <5> DEFINE w == (q + 1) * PageSize
        <5>1. w = qP + PageSize
          BY <4>5
        <5> HIDE DEF w, qP
        <5>2. seq <= w /\ w < seq + PageSize
          BY <1>0, <1>1, <1>12, <2>1, <4>2b, <5>1
        <5> QED
          BY Zenon, <5>2 DEF w
      <4>7. q + 1 = d
        BY <1>7, <4>5, <4>6
      <4>8. start + n = start + (b - c)
        BY <1>3, <4>4, <4>7
      <4> QED
        BY Zenon, <3>3, <4>1, <4>4, <4>8 DEF b, m, i
    <3> QED
      BY <3>4, <3>5
  <2> QED
    BY <2>7, <2>8
<1>21. e = [k \in 1 .. x |-> v[((pre + k) - 1) \div PageSize + 1] * PageSize
                              + (((pre + k) - 1) % PageSize)]
  BY Zenon, <1>2, <1>20
<1> QED
  BY Zenon, <1>21 DEF e, v, u, n, seq, pre, last, Onward

\* alloc_decode does what alloc_extend does for one token.
LEMMA DecodeIsExtend ==
  ASSUME NEW pre \in Nat, NEW pages \in Seq(Pages), NEW last, NEW start \in Nat
  PROVE  /\ NewPagesDecode(pre + 1) = NewPages(pre, pre + 1)
         /\ start + NewPages(pre, pre + 1) <= Len(pages)
              => <<DecodeSlot(pages, pre + 1, last, start)>>
                   = ExtendSlots(pages, pre, pre + 1, last, start)
         /\ NewPagesDecode(pre + 1) \in {0, 1}
<1> DEFINE q == pre \div PageSize
           m == pre % PageSize
           qP == q * PageSize
           c == CeilDiv(pre, PageSize)
           d == CeilDiv(pre + 1, PageSize)
           cP == c * PageSize
           e == ExtendSlots(pages, pre, pre + 1, last, start)
           slot == DecodeSlot(pages, pre + 1, last, start)
           part1 == Least(pre + 1, cP) - pre
           part2 == ((pre + 1) \div PageSize) * PageSize - cP
           n == NewPages(pre, pre + 1)
<1>0. PageSize \in Nat \ {0} /\ PageSize >= 2
  BY Constants
<1>1. q \in Nat /\ m \in 0 .. PageSize - 1 /\ pre = qP + m
  BY <1>0, Division
<1>2. /\ c \in Nat /\ d \in Nat
      /\ \A k \in Int : pre <= k * PageSize /\ k * PageSize < pre + PageSize => k = c
  <2>1. pre + 1 \in Nat
    OBVIOUS
  <2>2. d \in Nat
    BY <2>1, CeilFacts
  <2>3. c \in Nat /\ \A k \in Int : pre <= k * PageSize /\ k * PageSize < pre + PageSize => k = c
    BY CeilFacts
  <2> QED
    BY Zenon, <2>2, <2>3
<1>3. \A k \in Int : pre + 1 <= k * PageSize /\ k * PageSize < (pre + 1) + PageSize => k = d
  <2>1. pre + 1 \in Nat
    OBVIOUS
  <2> QED
    BY <2>1, CeilFacts
<1>4. \A k \in Int, y \in 0 .. PageSize - 1 :
        pre + 1 = k * PageSize + y => (pre + 1) \div PageSize = k /\ (pre + 1) % PageSize = y
  <2>1. pre + 1 \in Nat
    OBVIOUS
  <2> QED
    BY <1>0, <2>1, Division
<1>5. qP \in Nat /\ (q + 1) * PageSize = qP + PageSize
  BY <1>0, <1>1
<1>6. e = [k \in 1 .. 1 |->
            LET off == k - 1 - part1
            IN  IF k <= part1
                  THEN last + k
                  ELSE IF off < part2
                    THEN pages[start + 1 + (off \div PageSize)] * PageSize + (off % PageSize)
                    ELSE pages[start + n] * PageSize + (off - part2)]
  <2>1. (pre + 1) - pre = 1
    OBVIOUS
  <2>2. AlignUp(pre) = cP
    BY DEF AlignUp
  <2> QED
    BY Zenon, <2>1, <2>2 DEF ExtendSlots
<1>7. n = d - c
  BY DEF NewPages
<1>8. slot = IF NewPagesDecode(pre + 1) = 0 THEN last + 1 ELSE pages[start + 1] * PageSize
  BY DEF DecodeSlot
<1>9. NewPagesDecode(pre + 1) = IF (pre + 1) % PageSize = 1 THEN 1 ELSE 0
  BY DEF NewPagesDecode
<1> HIDE DEF q, m, c, d, e, slot, n
<1>10. SUFFICES /\ NewPagesDecode(pre + 1) = n
                /\ start + n <= Len(pages) => e = [k \in 1 .. 1 |-> slot]
                /\ NewPagesDecode(pre + 1) \in {0, 1}
  <2>1. [k \in 1 .. 1 |-> slot] = <<slot>>
    OBVIOUS
  <2> QED
    BY Zenon, <1>10, <2>1 DEF e, slot, n
<1>11. CASE m = 0
  <2>1. c = q
    <3>1. pre <= q * PageSize /\ q * PageSize < pre + PageSize /\ q \in Int
      BY <1>0, <1>1, <1>5, <1>11
    <3> QED
      BY <1>2, <3>1
  <2>2. pre + 1 = q * PageSize + 1 /\ 1 \in 0 .. PageSize - 1 /\ q \in Int
    BY <1>0, <1>1, <1>5, <1>11
  <2>3. (pre + 1) \div PageSize = q /\ (pre + 1) % PageSize = 1
    BY <1>4, <2>2
  <2>4. q + 1 = d
    <3> DEFINE w == (q + 1) * PageSize
    <3>1. w = qP + PageSize
      BY <1>5
    <3> HIDE DEF w
    <3>2. pre + 1 <= w /\ w < (pre + 1) + PageSize /\ q + 1 \in Int
      BY <1>0, <1>1, <1>5, <1>11, <3>1
    <3> QED
      BY <1>3, <3>2 DEF w
  <2>5. NewPagesDecode(pre + 1) = 1 /\ n = 1
    BY <1>1, <1>7, <1>9, <2>1, <2>3, <2>4
  <2>6. part1 = 0 /\ part2 = 0
    <3>1. cP = pre
      BY <1>1, <1>5, <1>11, <2>1
    <3>2. ((pre + 1) \div PageSize) * PageSize = pre
      BY <1>1, <1>5, <1>11, <2>3
    <3> QED
      BY <3>1, <3>2 DEF Least
  <2> HIDE DEF part1, part2
  <2>7. slot = pages[start + 1] * PageSize
    BY <1>8, <2>5
  <2> DEFINE z == pages[start + 1]
  <2>9. ASSUME start + n <= Len(pages)
        PROVE  z * PageSize + (1 - 1 - 0 - 0) = z * PageSize
    <3>1. start + n <= Len(pages) /\ Len(pages) \in Nat
      BY <2>9
    <3>2. z \in Pages
      BY <2>5, <3>1
    <3>3. z \in Nat
      BY <3>2, Constants DEF Pages
    <3> HIDE DEF z
    <3>4. z * PageSize \in Nat
      BY <1>0, <3>3
    <3> QED
      BY <3>4
  <2>8. e = [k \in 1 .. 1 |-> pages[start + 1] * PageSize + (1 - 1 - 0 - 0)]
    <3>1. ASSUME NEW k \in 1 .. 1
          PROVE  (LET off == k - 1 - part1
                  IN  IF k <= part1
                        THEN last + k
                        ELSE IF off < part2
                          THEN pages[start + 1 + (off \div PageSize)] * PageSize + (off % PageSize)
                          ELSE pages[start + n] * PageSize + (off - part2))
                 = pages[start + 1] * PageSize + (1 - 1 - 0 - 0)
      <4>1. k = 1
        BY <3>1
      <4>2. ~ (k <= part1) /\ ~ (k - 1 - part1 < part2)
        BY <2>6, <4>1
      <4> QED
        BY Zenon, <2>5, <2>6, <4>1, <4>2
    <3> QED
      BY Zenon, <1>6, <3>1
  <2> QED
    BY Zenon, <2>5, <2>7, <2>8, <2>9
<1>12. CASE m # 0
  <2> DEFINE w == (q + 1) * PageSize
  <2>1. w = qP + PageSize /\ q + 1 \in Int /\ w \in Nat
    BY <1>0, <1>1, <1>5
  <2> HIDE DEF w
  <2>2. q + 1 = c
    <3>1. pre <= w /\ w < pre + PageSize
      BY <1>0, <1>1, <1>5, <1>12, <2>1
    <3> QED
      BY <1>2, <2>1, <3>1 DEF w
  <2>3. q + 1 = d
    <3>1. pre + 1 <= w /\ w < (pre + 1) + PageSize
      BY <1>0, <1>1, <1>5, <1>12, <2>1
    <3> QED
      BY <1>3, <2>1, <3>1 DEF w
  <2>4. (pre + 1) % PageSize # 1
    <3>1. CASE m + 1 = PageSize
      <4>1. pre + 1 = w + 0 /\ 0 \in 0 .. PageSize - 1
        BY <1>0, <1>1, <1>5, <2>1, <3>1
      <4>2. pre + 1 = (q + 1) * PageSize + 0
        BY Zenon, <4>1 DEF w
      <4>3. (pre + 1) % PageSize = 0
        BY <1>4, <2>1, <4>1, <4>2
      <4> QED
        BY <4>3
    <3>2. CASE m + 1 # PageSize
      <4>1. pre + 1 = q * PageSize + (m + 1) /\ m + 1 \in 0 .. PageSize - 1 /\ q \in Int
        BY <1>0, <1>1, <1>5, <3>2
      <4>2. (pre + 1) % PageSize = m + 1
        BY <1>4, <4>1
      <4> QED
        BY <1>1, <1>12, <4>2
    <3> QED
      BY <3>1, <3>2
  <2>5. NewPagesDecode(pre + 1) = 0 /\ n = 0
    BY <1>2, <1>7, <1>9, <2>2, <2>3, <2>4
  <2>6. 1 <= part1
    <3>1. cP = w
      BY <2>2 DEF w
    <3> HIDE DEF cP
    <3>2. pre + 1 <= w
      BY <1>0, <1>1, <1>5, <1>12, <2>1
    <3> QED
      BY <2>1, <3>1, <3>2 DEF Least
  <2> HIDE DEF part1, part2
  <2>7. slot = last + 1
    BY <1>8, <2>5
  <2>8. e = [k \in 1 .. 1 |-> last + 1]
    <3>1. ASSUME NEW k \in 1 .. 1
          PROVE  (LET off == k - 1 - part1
                  IN  IF k <= part1
                        THEN last + k
                        ELSE IF off < part2
                          THEN pages[start + 1 + (off \div PageSize)] * PageSize + (off % PageSize)
                          ELSE pages[start + n] * PageSize + (off - part2))
                 = last + 1
      <4>1. k = 1
        BY <3>1
      <4> QED
        BY Zenon, <2>6, <4>1
    <3> QED
      BY Zenon, <1>6, <3>1
  <2> QED
    BY Zenon, <2>5, <2>7, <2>8
<1> QED
  BY <1>11, <1>12

\* A row that alloc_extend goes on with is laid out on its pages and the new ones.
LEMMA ExtendGrows ==
  ASSUME NEW s, Laid(s, Table(s)), NEW x \in Nat,
         NEW pages \in Seq(Pages), IsInjective(pages), NEW start \in Nat,
         start + NewPages(Len(s), Len(s) + x) <= Len(pages),
         Set(Segment(pages, start, NewPages(Len(s), Len(s) + x))) \cap SlotPages(s) = {}
  PROVE  LET n == NewPages(Len(s), Len(s) + x)
             e == ExtendSlots(pages, Len(s), Len(s) + x, LastSlot(s), start)
         IN  /\ e \in Seq(Nat) /\ Len(e) = x
             /\ Laid(s \o e, Table(s \o e))
             /\ SlotPages(s \o e) = SlotPages(s) \cup Set(Segment(pages, start, n))
<1> DEFINE n == NewPages(Len(s), Len(s) + x)
           e == ExtendSlots(pages, Len(s), Len(s) + x, LastSlot(s), start)
           t == Table(s)
           u == Segment(pages, start, n)
<1>1. Len(s) \in Nat /\ Len(s) + x \in Nat
  BY LenProperties DEF Laid
<1>2. n \in Nat /\ n = CeilDiv(Len(s) + x, PageSize) - CeilDiv(Len(s), PageSize)
  <2>1. CeilDiv(Len(s) + x, PageSize) \in Nat /\ CeilDiv(Len(s), PageSize) \in Nat
    BY <1>1, CeilFacts
  <2>2. CeilDiv(Len(s), PageSize) <= CeilDiv(Len(s) + x, PageSize)
    BY <1>1, CeilMonotone
  <2> QED
    BY <2>1, <2>2 DEF NewPages
<1>3. start + n <= Len(pages) /\ Set(u) \cap SlotPages(s) = {} /\ Laid(s, t)
  OBVIOUS
<1>4. e = Onward(s, t, u, x)
  BY Zenon, ExtendFits
<1> HIDE DEF e, n, t
<1>5. u \in Seq(Pages) /\ Len(u) = n /\ IsInjective(u)
  BY <1>2, <1>3, SegmentFacts
<1> HIDE DEF u
<1>6. SlotPages(s) = Set(t)
  BY <1>3, LaidPages
<1>7. Set(u) \cap Set(t) = {} /\ Len(u) = CeilDiv(Len(s) + x, PageSize) - CeilDiv(Len(s), PageSize)
  BY <1>2, <1>3, <1>5, <1>6
<1>8. /\ e \in Seq(Nat) /\ Len(e) = x
      /\ Laid(s \o e, t \o u) /\ SlotPages(s \o e) = SlotPages(s) \cup Set(u)
  <2> DEFINE f == Onward(s, t, u, x)
  <2>1. /\ f \in Seq(Nat) /\ Len(f) = x
        /\ Laid(s \o f, t \o u) /\ SlotPages(s \o f) = SlotPages(s) \cup Set(u)
    BY <1>3, <1>5, <1>7, Growth
  <2> HIDE DEF f
  <2>2. e = f
    BY <1>4 DEF f
  <2> QED
    BY Zenon, <2>1, <2>2
<1>9. t \o u = Table(s \o e)
  BY <1>8, LaidTable
<1> QED
  BY Zenon, <1>8, <1>9 DEF e, u, n

-----------------------------------------------------------------------------
(* Handing out pages.                                                      *)

\* The pages of the rows' shares follow each other and use up the total.
LEMMA StartFacts ==
  ASSUME NEW need \in [Rows -> Nat]
  PROVE  /\ Total(need, Rows) \in Nat
         /\ \A r \in Rows : /\ StartPage(need, r) \in Nat
                            /\ StartPage(need, r) + need[r] <= Total(need, Rows)
         /\ \A q, r \in Rows : q < r => StartPage(need, q) + need[q] <= StartPage(need, r)
         /\ \A k \in 1 .. Total(need, Rows) :
              \E r \in Rows : k \in StartPage(need, r) + 1 .. StartPage(need, r) + need[r]
<1> DEFINE upto(r) == Total(need, 1 .. r)
<1>1. NumRows \in Nat /\ Rows = 1 .. NumRows /\ IsFiniteSet(Rows)
  BY Constants, CardUpto DEF Rows
<1>2. ASSUME NEW r \in 0 .. NumRows
      PROVE  upto(r) \in Nat /\ \A m \in 0 .. r : upto(m) <= upto(r)
  <2>1. IsFiniteSet(1 .. r) /\ \A y \in 1 .. r : need[y] \in Nat
    BY <1>1, CardUpto
  <2>2. Total(need, 1 .. r) \in Nat /\ \A T \in SUBSET (1 .. r) : Total(need, T) <= Total(need, 1 .. r)
    BY <2>1, SumNat
  <2>3. \A m \in 0 .. r : 1 .. m \in SUBSET (1 .. r)
    BY <1>1
  <2> QED
    BY Zenon, <2>2, <2>3
<1>3. ASSUME NEW r \in Rows
      PROVE  StartPage(need, r) = upto(r - 1) /\ upto(r) = upto(r - 1) + need[r]
             /\ r - 1 \in 0 .. NumRows /\ r \in 0 .. NumRows
  <2>1. r - 1 \in 0 .. NumRows /\ r \in 0 .. NumRows
    BY <1>1
  <2>2. IsFiniteSet(1 .. r - 1) /\ r \notin 1 .. r - 1 /\ 1 .. r = (1 .. r - 1) \cup {r}
    BY <1>1, <2>1, CardUpto
  <2>3. \A y \in (1 .. r - 1) \cup {r} : need[y] \in Int
    BY <1>1
  <2>4. Total(need, (1 .. r - 1) \cup {r}) = need[r] + Total(need, 1 .. r - 1)
    BY <2>2, <2>3, SumAdd
  <2>5. upto(r - 1) \in Nat
    BY <1>2, <2>1
  <2> QED
    <3>1. upto(r) = need[r] + upto(r - 1)
      BY Zenon, <2>2, <2>4
    <3>2. StartPage(need, r) = upto(r - 1)
      BY Zenon DEF StartPage
    <3> HIDE DEF upto
    <3>3. upto(r) = upto(r - 1) + need[r]
      BY <2>5, <3>1
    <3> QED
      BY Zenon, <2>1, <3>2, <3>3
<1>4. Total(need, Rows) = upto(NumRows) /\ NumRows \in 0 .. NumRows
  BY <1>1
<1>5. upto(0) = 0
  <2>1. 1 .. 0 = {}
    OBVIOUS
  <2> QED
    BY <2>1, SumEmpty
<1> HIDE DEF upto
<1>6. Total(need, Rows) \in Nat
  BY <1>2, <1>4
<1>7. ASSUME NEW r \in Rows
      PROVE  StartPage(need, r) \in Nat /\ StartPage(need, r) + need[r] <= Total(need, Rows)
  <2>1. StartPage(need, r) \in Nat /\ StartPage(need, r) + need[r] = upto(r)
    BY <1>2, <1>3
  <2>2. upto(r) <= upto(NumRows)
    BY <1>2, <1>3, <1>4
  <2> QED
    BY <1>4, <2>1, <2>2
<1>8. ASSUME NEW q \in Rows, NEW r \in Rows, q < r
      PROVE  StartPage(need, q) + need[q] <= StartPage(need, r)
  <2>1. q \in 0 .. r - 1 /\ r - 1 \in 0 .. NumRows
    BY <1>1, <1>8
  <2>2. upto(q) <= upto(r - 1)
    BY <1>2, <2>1
  <2> QED
    BY <1>2, <1>3, <2>2
<1>9. ASSUME NEW k \in 1 .. Total(need, Rows)
      PROVE  \E r \in Rows : k \in StartPage(need, r) + 1 .. StartPage(need, r) + need[r]
  <2> DEFINE S == {m \in 0 .. NumRows : k <= upto(m)}
             r == Min(S)
  <2>1. S \subseteq Nat /\ NumRows \in S
    BY <1>1, <1>4
  <2>2. r \in S /\ \A y \in S : r <= y
    BY <2>1, MinExists
  <2> HIDE DEF r
  <2>3. r # 0
    BY <1>5, <1>6, <2>2
  <2>4. r \in Rows
    BY <1>1, <2>2, <2>3
  <2>5. ~ (k <= upto(r - 1))
    BY <1>1, <1>3, <2>2, <2>4
  <2>6. upto(r - 1) \in Nat /\ upto(r) = upto(r - 1) + need[r] /\ StartPage(need, r) = upto(r - 1)
    BY <1>2, <1>3, <2>4
  <2>7. k <= upto(r) /\ k \in Nat /\ need[r] \in Nat
    BY <1>6, <2>2, <2>4
  <2>8. k \in StartPage(need, r) + 1 .. StartPage(need, r) + need[r]
    BY <2>5, <2>6, <2>7
  <2> QED
    BY <2>4, <2>8
<1> QED
  BY <1>6, <1>7, <1>8, <1>9

\* Two parts of a list without repetitions have no page in common.
LEMMA ConcatApart ==
  ASSUME NEW A, NEW s \in Seq(A), NEW t \in Seq(A), IsInjective(s \o t)
  PROVE  IsInjective(s) /\ IsInjective(t) /\ Set(s) \cap Set(t) = {}
<1> DEFINE u == s \o t
<1>1. /\ Len(s) \in Nat /\ Len(t) \in Nat /\ DOMAIN s = 1 .. Len(s) /\ DOMAIN t = 1 .. Len(t)
      /\ DOMAIN u = 1 .. Len(s) + Len(t)
  BY LenProperties, ConcatProperties
<1>2. \A i \in 1 .. Len(s) : i \in DOMAIN u /\ u[i] = s[i]
  BY <1>1
<1>3. \A j \in 1 .. Len(t) : (Len(s) + j) \in DOMAIN u /\ u[Len(s) + j] = t[j]
  BY <1>1
<1>4. IsInjective(u)
  OBVIOUS
<1> HIDE DEF u
<1>5. \A i, j \in DOMAIN u : u[i] = u[j] => i = j
  BY <1>4 DEF IsInjective
<1>6. IsInjective(s)
  BY Zenon, <1>1, <1>2, <1>5 DEF IsInjective
<1>7. IsInjective(t)
  <2>1. SUFFICES ASSUME NEW i \in 1 .. Len(t), NEW j \in 1 .. Len(t), t[i] = t[j] PROVE i = j
    BY <1>1 DEF IsInjective
  <2>2. Len(s) + i = Len(s) + j
    BY Zenon, <1>3, <1>5, <2>1
  <2> QED
    BY <1>1, <2>2
<1>8. ASSUME NEW i \in 1 .. Len(s), NEW j \in 1 .. Len(t), s[i] = t[j] PROVE FALSE
  <2>1. i = Len(s) + j
    BY Zenon, <1>2, <1>3, <1>5, <1>8
  <2> QED
    BY <1>1, <2>1
<1> QED
  BY <1>1, <1>6, <1>7, <1>8 DEF Set

\* The parts of a partition that lists the pool as s and then t.
LEMMA PartedConcat ==
  ASSUME NEW s \in Seq(Pages), NEW t \in Seq(Pages), NEW group, NEW own, Parted(s \o t, group, own)
  PROVE  /\ IsInjective(s) /\ IsInjective(t) /\ Set(s) \cap Set(t) = {}
         /\ Set(s \o t) = Set(s) \cup Set(t)
         /\ group \subseteq Pages /\ own \in [Rows -> SUBSET Pages]
         /\ Set(s) \cap group = {} /\ Set(t) \cap group = {}
         /\ \A r \in Rows : own[r] \cap Set(s) = {} /\ own[r] \cap Set(t) = {} /\ own[r] \cap group = {}
         /\ \A q, r \in Rows : q # r => own[q] \cap own[r] = {}
         /\ \A p \in Pages : p \in Set(s) \/ p \in Set(t) \/ p \in group \/ \E r \in Rows : p \in own[r]
<1>1. Set(s \o t) = Set(s) \cup Set(t)
  BY SetConcat
<1>2. IsInjective(s \o t)
  BY DEF Parted
<1>3. IsInjective(s) /\ IsInjective(t) /\ Set(s) \cap Set(t) = {}
  BY <1>2, ConcatApart
<1> QED
  BY <1>1, <1>3 DEF Parted

\* The pages the rows own when each has got its share of the list.
Grown(own, pages, need) ==
  [r \in Rows |-> own[r] \cup Set(Segment(pages, StartPage(need, r), need[r]))]

\* Handing out the first pages of the list, a share for every row.
LEMMA Handout ==
  ASSUME NEW pages \in Seq(Pages), NEW rel \in Seq(Pages), NEW group, NEW own,
         Parted(pages \o rel, group, own),
         NEW need \in [Rows -> Nat], Total(need, Rows) <= Len(pages)
  PROVE  LET total == Total(need, Rows)
             share(r) == Set(Segment(pages, StartPage(need, r), need[r]))
         IN  /\ IsInjective(pages) /\ SubSeq(pages, total + 1, Len(pages)) \in Seq(Pages)
             /\ \A r \in Rows : /\ StartPage(need, r) \in Nat
                                /\ StartPage(need, r) + need[r] <= Len(pages)
                                /\ \A q \in Rows : share(r) \cap own[q] = {}
             /\ \A q, r \in Rows : q # r => share(q) \cap share(r) = {}
             /\ Parted(SubSeq(pages, total + 1, Len(pages)) \o rel, group,
                       Grown(own, pages, need))
<1> DEFINE total == Total(need, Rows)
           start(r) == StartPage(need, r)
           share(r) == Set(Segment(pages, start(r), need[r]))
           a == SubSeq(pages, 1, total)
           b == SubSeq(pages, total + 1, Len(pages))
           new == [r \in Rows |-> own[r] \cup share(r)]
<1>1. /\ IsInjective(pages) /\ IsInjective(rel) /\ Set(pages) \cap Set(rel) = {}
      /\ group \subseteq Pages /\ own \in [Rows -> SUBSET Pages]
      /\ Set(pages) \cap group = {} /\ Set(rel) \cap group = {}
      /\ \A r \in Rows : own[r] \cap Set(pages) = {} /\ own[r] \cap Set(rel) = {} /\ own[r] \cap group = {}
      /\ \A q, r \in Rows : q # r => own[q] \cap own[r] = {}
      /\ \A p \in Pages : p \in Set(pages) \/ p \in Set(rel) \/ p \in group \/ \E r \in Rows : p \in own[r]
  BY PartedConcat
<1>2. /\ total \in Nat
      /\ \A r \in Rows : start(r) \in Nat /\ start(r) + need[r] <= total
      /\ \A q, r \in Rows : q < r => start(q) + need[q] <= start(r)
      /\ \A k \in 1 .. total : \E r \in Rows : k \in start(r) + 1 .. start(r) + need[r]
  BY Zenon, StartFacts
<1>3. total <= Len(pages) /\ Len(pages) \in Nat /\ DOMAIN pages = 1 .. Len(pages)
  OBVIOUS
<1>4. a = Segment(pages, 0, total)
  BY <1>2 DEF Segment
<1> HIDE DEF total, start
<1>5. Set(a) = {pages[k] : k \in 1 .. total}
  <2>1. 0 \in Nat /\ 0 + total <= Len(pages)
    BY <1>2, <1>3
  <2>2a. Set(Segment(pages, 0, total)) = {pages[k] : k \in 0 + 1 .. 0 + total}
    BY <1>1, <1>2, <2>1, SegmentFacts
  <2>2. Set(a) = {pages[k] : k \in 0 + 1 .. 0 + total}
    BY Zenon, <1>4, <2>2a
  <2>3. 0 + 1 .. 0 + total = 1 .. total
    BY <1>2
  <2> QED
    BY Zenon, <2>2, <2>3
<1>6. total \in 0 .. Len(pages)
  BY <1>2, <1>3
<1>7. /\ b \in Seq(Pages) /\ IsInjective(b)
      /\ Set(pages) = Set(a) \cup Set(b) /\ Set(a) \cap Set(b) = {}
  BY <1>1, <1>6, SetSplit
<1>8. ASSUME NEW r \in Rows
      PROVE  /\ start(r) \in Nat /\ need[r] \in Nat /\ start(r) + need[r] <= Len(pages)
             /\ share(r) = {pages[k] : k \in start(r) + 1 .. start(r) + need[r]}
             /\ share(r) \subseteq Set(a)
  <2>1. start(r) \in Nat /\ need[r] \in Nat /\ start(r) + need[r] <= total
    BY <1>2
  <2>2. start(r) + need[r] <= Len(pages)
    BY <1>2, <1>3, <2>1
  <2>3. share(r) = {pages[k] : k \in start(r) + 1 .. start(r) + need[r]}
    <3> DEFINE y == start(r)
               z == need[r]
    <3>1. y \in Nat /\ z \in Nat /\ y + z <= Len(pages)
      BY <2>1, <2>2
    <3>2. share(r) = Set(Segment(pages, y, z))
      OBVIOUS
    <3> HIDE DEF y, z, share
    <3>3. Set(Segment(pages, y, z)) = {pages[k] : k \in y + 1 .. y + z}
      BY <1>1, <3>1, SegmentFacts
    <3> QED
      BY Zenon, <3>2, <3>3 DEF y, z
  <2>4. \A k \in start(r) + 1 .. start(r) + need[r] : k \in 1 .. total
    BY <1>2, <2>1
  <2>5. share(r) \subseteq Set(a)
    BY Zenon, <1>5, <2>3, <2>4
  <2> QED
    BY Zenon, <2>1, <2>2, <2>3, <2>5
<1> HIDE DEF share, a, b
<1>9. ASSUME NEW q \in Rows, NEW r \in Rows, q < r
      PROVE  share(q) \cap share(r) = {}
  <2>1. SUFFICES ASSUME NEW x \in share(q), x \in share(r) PROVE FALSE
    OBVIOUS
  <2>2. PICK j \in start(q) + 1 .. start(q) + need[q] : x = pages[j]
    BY Zenon, <1>8, <2>1
  <2>3. PICK k \in start(r) + 1 .. start(r) + need[r] : x = pages[k]
    BY Zenon, <1>8, <2>1
  <2>4. start(q) + need[q] <= start(r)
    BY <1>2, <1>9
  <2>5. j < k /\ j \in DOMAIN pages /\ k \in DOMAIN pages
    BY <1>3, <1>8, <2>4
  <2>6. j = k
    BY Zenon, <1>1, <2>2, <2>3, <2>5 DEF IsInjective
  <2>7. j \in Int
    BY <1>8
  <2> QED
    BY <2>5, <2>6, <2>7
<1>10. ASSUME NEW q \in Rows, NEW r \in Rows, q # r
       PROVE  share(q) \cap share(r) = {}
  <2>1. q < r \/ r < q
    BY <1>10 DEF Rows
  <2> QED
    BY <1>9, <2>1
<1>11. \A x \in Set(a) : \E r \in Rows : x \in share(r)
  <2>1. TAKE x \in Set(a)
  <2>2. PICK k \in 1 .. total : x = pages[k]
    BY <1>5
  <2>3. PICK r \in Rows : k \in start(r) + 1 .. start(r) + need[r]
    BY <1>2
  <2>4. x \in share(r)
    BY Zenon, <1>8, <2>2, <2>3
  <2> QED
    BY <2>4
<1>12. /\ b \o rel \in Seq(Pages) /\ Set(b \o rel) = Set(b) \cup Set(rel) /\ IsInjective(b \o rel)
  <2>1. Set(b) \cap Set(rel) = {}
    BY <1>1, <1>7
  <2> QED
    BY <1>1, <1>7, <2>1, SetConcat
<1>13. Set(a) \subseteq Pages
  <2>1. Set(pages) \subseteq Pages
    BY SetType
  <2> QED
    BY <1>7, <2>1
<1>14. /\ new \in [Rows -> SUBSET Pages] /\ \A r \in Rows : new[r] = own[r] \cup share(r)
  BY <1>1, <1>8, <1>13
<1> HIDE DEF new
<1>15. \A r \in Rows : \A q \in Rows : share(r) \cap own[q] = {}
  BY <1>1, <1>7, <1>8
<1>16. Parted(b \o rel, group, new)
  <2>1. Set(b \o rel) \cap group = {}
    BY <1>1, <1>7, <1>12
  <2>2. \A r \in Rows : new[r] \cap Set(b \o rel) = {} /\ new[r] \cap group = {}
    <3>1. TAKE r \in Rows
    <3>2. own[r] \cap Set(b) = {} /\ own[r] \cap Set(rel) = {} /\ own[r] \cap group = {}
      BY <1>1, <1>7
    <3>3. share(r) \cap Set(b) = {} /\ share(r) \cap Set(rel) = {} /\ share(r) \cap group = {}
      BY <1>1, <1>7, <1>8
    <3> QED
      BY <1>12, <1>14, <3>2, <3>3
  <2>3. ASSUME NEW q \in Rows, NEW r \in Rows, q # r
        PROVE  new[q] \cap new[r] = {}
    <3>1. own[q] \cap own[r] = {} /\ share(q) \cap share(r) = {}
      BY Zenon, <1>1, <1>10, <2>3
    <3>2. share(q) \cap own[r] = {} /\ own[q] \cap share(r) = {}
      BY <1>15
    <3> QED
      BY <1>14, <3>1, <3>2
  <2>4. ASSUME NEW p \in Pages
        PROVE  p \in Set(b \o rel) \/ p \in group \/ \E r \in Rows : p \in new[r]
    <3>1. p \in Set(a) \/ p \in Set(b) \/ p \in Set(rel) \/ p \in group \/ \E r \in Rows : p \in own[r]
      BY <1>1, <1>7
    <3>2. p \in Set(a) => \E r \in Rows : p \in new[r]
      BY <1>11, <1>14
    <3> QED
      BY <1>12, <1>14, <3>1, <3>2
  <2> QED
    BY Zenon, <1>1, <1>12, <1>14, <2>1, <2>2, <2>3, <2>4 DEF Parted
<1> QED
  BY Zenon, <1>1, <1>7, <1>8, <1>10, <1>15, <1>16 DEF total, start, share, b, new, Grown

-----------------------------------------------------------------------------
(* Sorting.                                                                *)

\* Sorting a list or set of different pages lists each of them once.
LEMMA AscendingFacts ==
  ASSUME NEW f, IsFiniteSet(DOMAIN f), \A i \in DOMAIN f : f[i] \in Pages,
         \A i, j \in DOMAIN f : f[i] = f[j] => i = j
  PROVE  /\ Ascending(f) \in Seq(Pages) /\ Len(Ascending(f)) = Cardinality(DOMAIN f)
         /\ Set(Ascending(f)) = {f[i] : i \in DOMAIN f} /\ IsInjective(Ascending(f))
<1> DEFINE D == DOMAIN f
           S == {f[i] : i \in D}
           N == Cardinality(D)
           below(x) == {i \in D : f[i] < x}
           upto(x) == {i \in D : f[i] <= x}
           lo(x) == Cardinality(below(x))
           hi(x) == Cardinality(upto(x))
           A == Ascending(f)
<1>1. IsFiniteSet(D) /\ \A i \in D : f[i] \in Nat /\ f[i] \in Pages
  BY Constants DEF Pages
<1>2. \A i, j \in D : f[i] = f[j] => i = j
  OBVIOUS
<1>3. A = [n \in 1 .. N |-> CHOOSE x \in S : lo(x) < n /\ n <= hi(x)]
  BY Zenon DEF Ascending, Range
<1> HIDE DEF D
<1>4. N \in Nat
  BY <1>1, FS_CardinalityType
<1>5. ASSUME NEW i \in D
      PROVE  lo(f[i]) \in Nat /\ hi(f[i]) = lo(f[i]) + 1 /\ hi(f[i]) <= N
  <2>1. /\ below(f[i]) \in SUBSET D /\ upto(f[i]) \in SUBSET D
        /\ upto(f[i]) = below(f[i]) \cup {i} /\ i \notin below(f[i])
    BY <1>1, <1>2
  <2> HIDE DEF below, upto
  <2>2. IsFiniteSet(below(f[i])) /\ lo(f[i]) \in Nat /\ hi(f[i]) <= N
    BY <1>1, <2>1, FS_Subset, FS_CardinalityType
  <2>3. hi(f[i]) = lo(f[i]) + 1
    BY <2>1, <2>2, FS_AddElement
  <2> QED
    BY <2>2, <2>3
<1>6. ASSUME NEW i \in D, NEW j \in D, f[i] < f[j]
      PROVE  hi(f[i]) <= lo(f[j])
  <2>1. upto(f[i]) \in SUBSET below(f[j]) /\ below(f[j]) \in SUBSET D
    BY <1>1, <1>6
  <2> HIDE DEF below, upto
  <2> QED
    BY <1>1, <2>1, FS_Subset
<1> HIDE DEF lo, hi, N
<1>7. ASSUME NEW i \in D, NEW j \in D, hi(f[i]) = hi(f[j])
      PROVE  i = j
  <2>1. ~ (f[i] < f[j]) /\ ~ (f[j] < f[i])
    BY <1>5, <1>6, <1>7
  <2>2. f[i] = f[j]
    BY <1>1, <2>1
  <2> QED
    BY <1>2, <2>2
<1> DEFINE h == [i \in D |-> hi(f[i])]
           T == {h[i] : i \in D}
<1>8. T = 1 .. N
  <2>1. \A i, j \in D : h[i] = h[j] => i = j
    BY <1>7
  <2>2. T \in SUBSET (1 .. N)
    BY <1>4, <1>5
  <2> HIDE DEF h
  <2>3. Cardinality(T) = N
    BY <1>1, <2>1, ImageCard DEF N
  <2> HIDE DEF T
  <2>4. IsFiniteSet(1 .. N) /\ Cardinality(1 .. N) = N
    BY <1>4, CardUpto
  <2> QED
    BY <2>2, <2>3, <2>4, FS_Subset
<1>9. \A n \in 1 .. N : \E i \in D : hi(f[i]) = n
  BY <1>8
<1>10. ASSUME NEW n \in 1 .. N
       PROVE  A[n] \in S /\ hi(A[n]) = n
  <2>1. PICK i \in D : hi(f[i]) = n
    BY <1>9
  <2>2. f[i] \in S /\ lo(f[i]) < n /\ n <= hi(f[i])
    BY <1>4, <1>5, <2>1
  <2>3. A[n] = CHOOSE x \in S : lo(x) < n /\ n <= hi(x)
    BY <1>3
  <2>4. A[n] \in S /\ lo(A[n]) < n /\ n <= hi(A[n])
    BY Zenon, <2>2, <2>3
  <2>5. PICK j \in D : A[n] = f[j]
    BY <2>4
  <2>6. hi(f[j]) = lo(f[j]) + 1 /\ lo(f[j]) \in Nat
    BY <1>5
  <2>7. hi(A[n]) = lo(A[n]) + 1 /\ lo(A[n]) \in Nat
    BY Zenon, <2>5, <2>6
  <2> HIDE DEF A
  <2> QED
    BY <1>4, <2>4, <2>7
<1>11. \A x \in S : hi(x) \in 1 .. N /\ x \in Pages
  BY <1>1, <1>4, <1>5
<1>12. ASSUME NEW x \in S, NEW y \in S, hi(x) = hi(y)
       PROVE  x = y
  BY <1>7, <1>12
<1>13. DOMAIN A = 1 .. N
  BY <1>3
<1>14. A \in [1 .. N -> Pages]
  BY <1>3, <1>10, <1>11
<1> HIDE DEF A, S
<1>15. A \in Seq(Pages) /\ Len(A) = N
  BY <1>4, <1>14, SeqOfMap
<1>16. IsInjective(A)
  <2>1. SUFFICES ASSUME NEW m \in 1 .. N, NEW n \in 1 .. N, A[m] = A[n] PROVE m = n
    BY <1>13 DEF IsInjective
  <2>2. hi(A[m]) = m /\ hi(A[n]) = n
    BY <1>10
  <2>3. hi(A[m]) = hi(A[n])
    BY Zenon, <2>1
  <2> QED
    BY <2>2, <2>3
<1>17. Set(A) = S
  <2>1. \A x \in S : \E n \in 1 .. N : A[n] = x
    BY <1>10, <1>11, <1>12
  <2> QED
    BY <1>10, <1>13, <2>1 DEF Set
<1> QED
  BY Zenon, <1>15, <1>16, <1>17 DEF A, S, N, D

\* The pages of merge_and_sort_free are those of the two lists.
LEMMA SortedConcat ==
  ASSUME NEW s \in Seq(Pages), IsInjective(s)
  PROVE  /\ Ascending(s) \in Seq(Pages) /\ Len(Ascending(s)) = Len(s)
         /\ Set(Ascending(s)) = Set(s) /\ IsInjective(Ascending(s))
<1>1. /\ DOMAIN s = 1 .. Len(s) /\ Len(s) \in Nat
      /\ IsFiniteSet(1 .. Len(s)) /\ Cardinality(1 .. Len(s)) = Len(s)
  BY LenProperties, CardUpto
<1>2. \A i \in DOMAIN s : s[i] \in Pages
  BY <1>1
<1>3. \A i, j \in DOMAIN s : s[i] = s[j] => i = j
  BY DEF IsInjective
<1> QED
  BY <1>1, <1>2, <1>3, AscendingFacts DEF Set

\* The pages of a freed set, in front of a list.
LEMMA SortedSet ==
  ASSUME NEW S \in SUBSET Pages
  PROVE  LET u == Ascending([p \in S |-> p])
         IN  u \in Seq(Pages) /\ Set(u) = S /\ IsInjective(u)
<1> DEFINE f == [p \in S |-> p]
<1>1. IsFiniteSet(S)
  <2>1. IsFiniteSet(Pages)
    BY Constants, CardUpto DEF Pages
  <2> QED
    BY <2>1, FS_Subset
<1>2. DOMAIN f = S /\ (\A i \in DOMAIN f : f[i] \in Pages)
      /\ \A i, j \in DOMAIN f : f[i] = f[j] => i = j
  OBVIOUS
<1>3. {f[i] : i \in DOMAIN f} = S
  OBVIOUS
<1> HIDE DEF f
<1>4. Ascending(f) \in Seq(Pages) /\ Set(Ascending(f)) = S /\ IsInjective(Ascending(f))
  BY <1>1, <1>2, <1>3, AscendingFacts
<1> QED
  BY Zenon, <1>4 DEF f

-----------------------------------------------------------------------------
(* What the calls do to the lists and the rows.                            *)

\* A partition does not depend on the order of the pool.
LEMMA PartedReorder ==
  ASSUME NEW s, NEW t \in Seq(Pages), NEW group, NEW own, Parted(s, group, own),
         IsInjective(t), Set(t) = Set(s)
  PROVE  Parted(t, group, own)
BY Zenon DEF Parted

\* Merging keeps the pages.
LEMMA MergeFacts ==
  ASSUME Types, NEW group, NEW own, Parted(free_pages \o release_pages, group, own), NEW m
  PROVE  /\ FreeAfter(m) \in Seq(Pages) /\ ReleaseAfter(m) \in Seq(Pages)
         /\ Parted(FreeAfter(m) \o ReleaseAfter(m), group, own)
         /\ Len(FreeAfter(m)) + Len(ReleaseAfter(m)) = Len(free_pages) + Len(release_pages)
         /\ m => ReleaseAfter(m) = <<>>
         /\ ~m => FreeAfter(m) = free_pages /\ ReleaseAfter(m) = release_pages
         /\ release_pages = <<>> => ReleaseAfter(m) = <<>>
<1>1. free_pages \in Seq(Pages) /\ release_pages \in Seq(Pages) /\ <<>> \in Seq(Pages)
  BY DEF Types
<1>2. Len(free_pages) \in Nat /\ Len(release_pages) \in Nat /\ Len(<<>>) = 0
  BY <1>1
<1>3. CASE ~m
  BY <1>1, <1>3 DEF FreeAfter, ReleaseAfter
<1>4. CASE m /\ ~ (Len(release_pages) > 0)
  <2>1. release_pages = <<>>
    BY <1>1, <1>2, <1>4
  <2>2. FreeAfter(m) = free_pages /\ ReleaseAfter(m) = <<>>
    BY <1>4 DEF FreeAfter, ReleaseAfter, MergedFree
  <2> QED
    BY <1>1, <2>1, <2>2
<1>5. CASE m /\ Len(release_pages) > 0
  <2> DEFINE s == free_pages \o release_pages
             u == Ascending(s)
  <2>1. s \in Seq(Pages) /\ IsInjective(s) /\ Len(s) = Len(free_pages) + Len(release_pages)
        /\ Parted(s, group, own)
    BY <1>1 DEF Parted
  <2>2. FreeAfter(m) = u /\ ReleaseAfter(m) = <<>>
    BY Zenon, <1>5 DEF FreeAfter, ReleaseAfter, MergedFree
  <2> HIDE DEF s
  <2>3. u \in Seq(Pages) /\ Len(u) = Len(s) /\ Set(u) = Set(s) /\ IsInjective(u)
    BY <2>1, SortedConcat
  <2> HIDE DEF u
  <2>4. Parted(u, group, own)
    BY <2>1, <2>3, PartedReorder
  <2>5. u \o <<>> = u
    BY <2>3
  <2>6. Len(u) + Len(<<>>) = Len(u)
    BY <1>2, <2>3
  <2> QED
    BY <1>1, <1>5, <2>1, <2>2, <2>3, <2>4, <2>5, <2>6
<1> QED
  BY <1>3, <1>4, <1>5

\* The pages a batch needs when row r of R grows by x[r].
Needs(R, x) == [r \in Rows |-> NewPages(Len(R[r]), Len(R[r]) + x[r])]

\* The slots the r-th row of the batch gets.
Extension(R, x, pages, r) ==
  ExtendSlots(pages, Len(R[r]), Len(R[r]) + x[r], LastSlot(R[r]), StartPage(Needs(R, x), r))

\* A batch needs a number of pages.
LEMMA NeedsFacts ==
  ASSUME NEW R \in [Rows -> Seq(Nat)], NEW x \in [Rows -> Nat]
  PROVE  Needs(R, x) \in [Rows -> Nat] /\ Total(Needs(R, x), Rows) \in Nat
<1>1. ASSUME NEW r \in Rows
      PROVE  NewPages(Len(R[r]), Len(R[r]) + x[r]) \in Nat
  <2> DEFINE a == Len(R[r])
             b == Len(R[r]) + x[r]
  <2>1. a \in Nat /\ b \in Nat /\ a <= b
    <3>1. R[r] \in Seq(Nat) /\ x[r] \in Nat
      OBVIOUS
    <3> QED
      BY <3>1
  <2> HIDE DEF a, b
  <2>2. CeilDiv(a, PageSize) \in Nat /\ CeilDiv(b, PageSize) \in Nat
        /\ CeilDiv(a, PageSize) <= CeilDiv(b, PageSize)
    BY <2>1, CeilFacts, CeilMonotone
  <2>3. NewPages(a, b) \in Nat
    BY <2>2 DEF NewPages
  <2> QED
    BY <2>3 DEF a, b
<1>2. Needs(R, x) \in [Rows -> Nat]
  BY <1>1 DEF Needs
<1> QED
  BY <1>2, StartFacts

\* The rows when the batch has got its slots.
Extended(R, x, pages) == [r \in Rows |-> R[r] \o Extension(R, x, pages, r)]

\* A batch that fits grows its rows by pages of their own.
LEMMA RowsGrow ==
  ASSUME NEW R \in [Rows -> Seq(Nat)], \A r \in Rows : Laid(R[r], Table(R[r])),
         NEW x \in [Rows -> Nat],
         NEW pages \in Seq(Pages), NEW rel \in Seq(Pages), NEW group,
         Parted(pages \o rel, group, Owned(R)),
         Total(Needs(R, x), Rows) <= Len(pages)
  PROVE  /\ \A r \in Rows : /\ Extension(R, x, pages, r) \in Seq(Nat)
                            /\ Len(Extension(R, x, pages, r)) = x[r]
                            /\ Laid(Extended(R, x, pages)[r], Table(Extended(R, x, pages)[r]))
                            /\ StartPage(Needs(R, x), r) \in Nat
                            /\ StartPage(Needs(R, x), r) + Needs(R, x)[r] <= Len(pages)
         /\ SubSeq(pages, Total(Needs(R, x), Rows) + 1, Len(pages)) \in Seq(Pages)
         /\ Parted(SubSeq(pages, Total(Needs(R, x), Rows) + 1, Len(pages)) \o rel, group,
                   Owned(Extended(R, x, pages)))
         /\ Extended(R, x, pages) \in [Rows -> Seq(Nat)]
<1> DEFINE need == Needs(R, x)
           total == Total(need, Rows)
           share(r) == Set(Segment(pages, StartPage(need, r), need[r]))
           own == Owned(R)
           F == Extended(R, x, pages)
           E(r) == Extension(R, x, pages, r)
           rest == SubSeq(pages, total + 1, Len(pages))
           new == Grown(own, pages, need)
<1>1. need \in [Rows -> Nat] /\ total <= Len(pages) /\ Parted(pages \o rel, group, own)
  BY NeedsFacts
<1>2. \A r \in Rows : own[r] = SlotPages(R[r]) /\ need[r] = NewPages(Len(R[r]), Len(R[r]) + x[r])
  BY DEF Needs, Owned
<1>2a. \A r \in Rows : F[r] = R[r] \o E(r)
  BY DEF Extended
<1> HIDE DEF need, own, F
<1>3. /\ IsInjective(pages) /\ rest \in Seq(Pages)
      /\ \A r \in Rows : /\ StartPage(need, r) \in Nat
                         /\ StartPage(need, r) + need[r] <= Len(pages)
                         /\ \A q \in Rows : share(r) \cap own[q] = {}
      /\ Parted(rest \o rel, group, new)
  <2>1. /\ IsInjective(pages) /\ rest \in Seq(Pages)
        /\ \A r \in Rows : /\ StartPage(need, r) \in Nat
                           /\ StartPage(need, r) + need[r] <= Len(pages)
                           /\ \A q \in Rows : share(r) \cap own[q] = {}
        /\ Parted(rest \o rel, group, new)
    <3>1. IsInjective(pages)
      BY <1>1, Handout
    <3>2. rest \in Seq(Pages)
      BY <1>1, Handout
    <3>3. \A r \in Rows : StartPage(need, r) \in Nat
      BY <1>1, Handout
    <3>4. \A r \in Rows : StartPage(need, r) + need[r] <= Len(pages)
      BY <1>1, Handout
    <3>5. \A r, q \in Rows : share(r) \cap own[q] = {}
      BY <1>1, Handout
    <3>6. Parted(rest \o rel, group, new)
      BY <1>1, Handout
    <3> QED
      BY <3>1, <3>2, <3>3, <3>4, <3>5, <3>6
  <2> QED
    BY Zenon, <2>1
<1>4. ASSUME NEW r \in Rows
      PROVE  /\ E(r) \in Seq(Nat) /\ Len(E(r)) = x[r]
             /\ Laid(R[r] \o E(r), Table(R[r] \o E(r)))
             /\ SlotPages(R[r] \o E(r)) = new[r]
  <2> DEFINE s == R[r]
             y == x[r]
             start == StartPage(need, r)
             e == ExtendSlots(pages, Len(s), Len(s) + y, LastSlot(s), start)
  <2>1. E(r) = e
    BY DEF Extension, need
  <2>2. y \in Nat /\ Laid(s, Table(s)) /\ start \in Nat
        /\ start + need[r] <= Len(pages) /\ share(r) \cap SlotPages(s) = {}
    BY <1>2, <1>3
  <2>3. need[r] = NewPages(Len(s), Len(s) + y) /\ share(r) = Set(Segment(pages, start, need[r]))
    BY <1>2
  <2>4. new[r] = SlotPages(s) \cup share(r)
    BY <1>2 DEF Grown
  <2> HIDE DEF E, s, y, start, share, new
  <2>5. start + NewPages(Len(s), Len(s) + y) <= Len(pages)
        /\ Set(Segment(pages, start, NewPages(Len(s), Len(s) + y))) \cap SlotPages(s) = {}
    BY Zenon, <2>2, <2>3
  <2>6. /\ e \in Seq(Nat) /\ Len(e) = y
        /\ Laid(s \o e, Table(s \o e))
        /\ SlotPages(s \o e) = SlotPages(s)
                               \cup Set(Segment(pages, start, NewPages(Len(s), Len(s) + y)))
    BY <1>3, <2>2, <2>5, ExtendGrows
  <2> HIDE DEF e
  <2> QED
    BY Zenon, <2>1, <2>3, <2>4, <2>6 DEF s, y
<1>5. new = Owned(F)
  <2>1. new = [r \in Rows |-> new[r]]
    BY DEF Grown
  <2> HIDE DEF new, E
  <2> QED
    BY Zenon, <1>2a, <1>4, <2>1 DEF Owned
<1> HIDE DEF E, rest, share, new, total
<1>6. Parted(rest \o rel, group, Owned(F))
  BY Zenon, <1>3, <1>5
<1>7. \A r \in Rows : Laid(F[r], Table(F[r])) /\ F[r] \in Seq(Nat)
  <2>1. \A r \in Rows : Laid(F[r], Table(F[r]))
    BY Zenon, <1>2a, <1>4
  <2>2. \A r \in Rows : Laid(F[r], Table(F[r])) => F[r] \in Seq(Nat)
    BY DEF Laid
  <2> QED
    BY Zenon, <2>1, <2>2
<1>8. F \in [Rows -> Seq(Nat)]
  <2>1. F = [r \in Rows |-> F[r]]
    BY DEF F, Extended
  <2> QED
    BY <1>7, <2>1
<1> QED
  BY Zenon, <1>3, <1>4, <1>6, <1>7, <1>8 DEF E, F, rest, total, need

\* Cutting a row behind `keep` tokens gives back the pages behind the last
\* page that is kept, and no page that still holds a kept token.
LEMMA Shrink ==
  ASSUME NEW s, Laid(s, Table(s)), NEW keep \in 0 .. Len(s)
  PROVE  LET kept == SubSeq(s, 1, keep)
             gone == SubSeq(s, KeepSlots(keep, Len(s)) + 1, Len(s))
         IN  /\ Laid(kept, Table(kept)) /\ gone \in Seq(Nat)
             /\ SlotPages(s) = SlotPages(kept) \cup SlotPages(gone)
             /\ SlotPages(kept) \cap SlotPages(gone) = {}
             /\ SlotPages(gone) \subseteq Pages
<1> DEFINE t == Table(s)
           n == Len(s)
           c == CeilDiv(keep, PageSize)
           cP == c * PageSize
           a == SubSeq(t, 1, c)
           b == SubSeq(t, c + 1, Len(t))
           cut == KeepSlots(keep, n)
           kept == SubSeq(s, 1, keep)
           gone == SubSeq(s, cut + 1, n)
<1>0. PageSize \in Nat \ {0}
  BY Constants
<1>1. /\ n \in Nat /\ keep \in Nat /\ keep <= n /\ Laid(s, t) /\ s \in Seq(Nat)
      /\ t \in Seq(Pages) /\ IsInjective(t) /\ Len(t) = CeilDiv(n, PageSize)
  BY LenProperties DEF Laid
<1> HIDE DEF t
<1>2. c \in Nat /\ keep <= cP /\ cP < keep + PageSize /\ cP \in Nat
  BY <1>1, CeilFacts
<1>3. cut = Least(cP, n)
  BY DEF KeepSlots, AlignUp
<1>4. c \in 0 .. Len(t) /\ Len(t) \in Nat
  <2>1. c <= CeilDiv(n, PageSize)
    BY <1>1, CeilMonotone
  <2> QED
    BY <1>1, <1>2, <2>1
<1>5. Len(kept) = keep /\ kept \in Seq(Nat) /\ \A i \in 1 .. keep : kept[i] = s[i]
  BY <1>1
<1> HIDE DEF c, cut, kept, n
<1>6. /\ a \in Seq(Pages) /\ Len(a) = c /\ b \in Seq(Pages)
      /\ Set(t) = Set(a) \cup Set(b) /\ IsInjective(a) /\ Set(a) \cap Set(b) = {}
  BY <1>1, <1>4, SetSplit
<1>7. /\ \A k \in 1 .. c : a[k] = t[k]
      /\ Set(b) = {t[k] : k \in c + 1 .. Len(t)}
  <2>1. \A k \in 1 .. c : a[k] = t[k]
    BY <1>1, <1>4
  <2>2. b = Segment(t, c, Len(t) - c)
    BY <1>4 DEF Segment
  <2>3. Len(t) - c \in Nat /\ c + (Len(t) - c) = Len(t) /\ c + (Len(t) - c) <= Len(t)
    BY <1>4
  <2> DEFINE m == Len(t) - c
  <2> HIDE DEF m
  <2>4. Set(Segment(t, c, m)) = {t[k] : k \in c + 1 .. c + m}
    BY <1>1, <1>2, <2>3, SegmentFacts DEF m
  <2> QED
    BY Zenon, <2>1, <2>2, <2>3, <2>4 DEF m
<1> HIDE DEF a, b
<1>8. Laid(kept, a)
  <2>1. ASSUME NEW i \in 1 .. keep
        PROVE  kept[i] = a[(i - 1) \div PageSize + 1] * PageSize + ((i - 1) % PageSize)
    <3> DEFINE k == (i - 1) \div PageSize + 1
               m == (i - 1) % PageSize
    <3>1. i \in 1 .. n /\ i \in Nat \ {0} /\ i <= keep /\ kept[i] = s[i]
      BY <1>1, <1>5
    <3>2. s[i] = t[k] * PageSize + m
      BY <1>1, <3>1, LaidAt DEF n
    <3>3. k \in Nat \ {0} /\ k <= c
      BY <1>1, <3>1, BlockFacts DEF c
    <3> HIDE DEF k, m
    <3>4. a[k] = t[k]
      BY <1>2, <1>7, <3>3
    <3>5. kept[i] = a[k] * PageSize + m
      BY Zenon, <3>1, <3>2, <3>4
    <3> QED
      BY Zenon, <3>5 DEF k, m
  <2>2. Len(a) = CeilDiv(Len(kept), PageSize)
    BY <1>5, <1>6 DEF c
  <2> QED
    BY Zenon, <1>5, <1>6, <2>1, <2>2 DEF Laid
<1>9. Laid(kept, Table(kept)) /\ SlotPages(kept) = Set(a) /\ SlotPages(s) = Set(t)
      /\ Set(t) \subseteq Pages
  <2>1. a = Table(kept)
    BY <1>8, LaidTable
  <2> QED
    BY <1>1, <1>8, <2>1, LaidPages
<1>10. gone \in Seq(Nat) /\ SlotPages(gone) = Set(b)
  <2>1. CASE n <= cP
    <3>1. cut = n
      BY <1>1, <1>2, <1>3, <2>1 DEF Least
    <3>2. gone = <<>>
      BY <1>1, <3>1 DEF n
    <3>3. Len(t) = c
      <4>1. n <= c * PageSize /\ c * PageSize < n + PageSize
        BY <1>0, <1>1, <1>2, <2>1
      <4> QED
        BY <1>1, <1>2, <4>1, CeilFacts
    <3>4. c + 1 .. Len(t) = {}
      BY <1>2, <3>3
    <3>5. Set(b) = {}
      BY <1>7, <3>4
    <3>6. SlotPages(<<>>) = {}
      BY DEF SlotPages
    <3>7. <<>> \in Seq(Nat)
      OBVIOUS
    <3> HIDE DEF gone
    <3> QED
      BY Zenon, <3>2, <3>5, <3>6, <3>7
  <2>2. CASE ~ (n <= cP)
    <3>1. cut = cP /\ cut \in Nat /\ cut < n
      BY <1>1, <1>2, <1>3, <2>2 DEF Least
    <3>2. gone \in Seq(Nat) /\ Len(gone) = n - cut /\ \A k \in 1 .. n - cut : gone[k] = s[cut + k]
      <4>1. s \in Seq(Nat) /\ cut \in 0 .. Len(s) /\ n = Len(s)
        BY <1>1, <3>1 DEF n
      <4> QED
        BY Zenon, <4>1, BehindFacts
    <3> HIDE DEF gone
    <3>3. DOMAIN gone = 1 .. n - cut
      BY <3>2
    <3>4. ASSUME NEW k \in 1 .. n - cut
          PROVE  PageOf(gone[k]) \in Set(b)
      <4> DEFINE i == cut + k
                 j == (i - 1) \div PageSize + 1
      <4>1. i \in 1 .. n /\ i \in Nat \ {0} /\ cP <= i - 1 /\ gone[k] = s[i]
        BY <1>1, <3>1, <3>2
      <4> HIDE DEF i
      <4>2. j \in 1 .. Len(t) /\ PageOf(s[i]) = t[j]
        BY <1>1, <4>1, LaidAt DEF n
      <4>3. i - 1 < j * PageSize /\ j \in Nat
        BY <4>1, BlockFacts
      <4> HIDE DEF j
      <4>4. c < j
        <5>1. SUFFICES ASSUME j <= c PROVE FALSE
          BY <1>2, <4>3
        <5>2. j * PageSize <= cP /\ j * PageSize \in Int
          BY <1>0, <1>2, <4>3, <5>1, Scale
        <5> QED
          BY <1>2, <4>1, <4>3, <5>2
      <4>5. j \in c + 1 .. Len(t)
        BY <1>2, <4>2, <4>4
      <4> QED
        BY <1>7, <4>1, <4>2, <4>5
    <3>5. ASSUME NEW j \in c + 1 .. Len(t)
          PROVE  \E k \in 1 .. n - cut : PageOf(gone[k]) = t[j]
      <4> DEFINE i == (j - 1) * PageSize + 1
      <4>1. j \in 1 .. CeilDiv(n, PageSize) /\ j \in Nat /\ c <= j - 1
        BY <1>1, <1>2, <1>4
      <4>2. i \in 1 .. n /\ (i - 1) \div PageSize + 1 = j
        BY <1>1, <4>1, BlockStart
      <4>3. cP <= (j - 1) * PageSize /\ (j - 1) * PageSize \in Int
        BY <1>0, <1>2, <4>1, Scale
      <4>4. cP + 1 <= i
        BY <1>2, <4>3
      <4> HIDE DEF i
      <4>5. PageOf(s[i]) = t[(i - 1) \div PageSize + 1]
        BY <1>1, <4>2, LaidAt DEF n
      <4>6. i - cut \in 1 .. n - cut /\ cut + (i - cut) = i
        BY <1>1, <3>1, <4>2, <4>4
      <4>7. gone[i - cut] = s[i]
        BY Zenon, <3>2, <4>6
      <4> QED
        BY Zenon, <4>2, <4>5, <4>6, <4>7
    <3>6. SlotPages(gone) \subseteq Set(b)
      BY <3>3, <3>4 DEF SlotPages
    <3>7. Set(b) \subseteq SlotPages(gone)
      <4>1. SUFFICES ASSUME NEW j \in c + 1 .. Len(t) PROVE t[j] \in SlotPages(gone)
        BY <1>7
      <4> QED
        BY Zenon, <3>3, <3>5 DEF SlotPages
    <3> QED
      BY <3>2, <3>6, <3>7
  <2> QED
    BY <2>1, <2>2
<1> HIDE DEF gone
<1>11. /\ Laid(kept, Table(kept)) /\ gone \in Seq(Nat)
       /\ SlotPages(s) = SlotPages(kept) \cup SlotPages(gone)
       /\ SlotPages(kept) \cap SlotPages(gone) = {}
       /\ SlotPages(gone) \subseteq Pages
  BY <1>6, <1>9, <1>10
<1> QED
  BY Zenon, <1>11 DEF kept, gone, cut, n

-----------------------------------------------------------------------------
(* No false shortage.                                                      *)

\* The pages alloc_extend over-estimates from the token count are enough.
LEMMA NeedBound ==
  ASSUME NEW R \in [Rows -> Seq(Nat)], NEW x \in [Rows -> Nat]
  PROVE  LET bs == Cardinality({r \in Rows : x[r] > 0})
         IN  /\ bs \in Nat /\ Total(x, Rows) \in Nat /\ Total(x, Rows) \div PageSize \in Nat
             /\ Total(Needs(R, x), Rows) <= Total(x, Rows) \div PageSize + bs
<1> DEFINE K == {r \in Rows : x[r] > 0}
           bs == Cardinality(K)
           need == Needs(R, x)
           one(r) == IF r \in K THEN 1 ELSE 0
           y == [r \in Rows |-> need[r] - one(r)]
           z == [r \in Rows |-> PageSize * y[r]]
           tokens == Total(x, Rows)
           total == Total(need, Rows)
           Y == Total(y, Rows)
<1>0. PageSize \in Nat \ {0}
  BY Constants
<1>1. IsFiniteSet(Rows) /\ Rows \cap K = K
  BY Constants, CardUpto DEF Rows
<1>2. bs \in Nat
  BY <1>1, FS_Subset, FS_CardinalityType
<1>3. need \in [Rows -> Nat] /\ total \in Nat
  BY NeedsFacts
<1>4. tokens \in Nat
  BY <1>1, SumNat
<1>5. ASSUME NEW r \in Rows
      PROVE  y[r] \in Int /\ z[r] \in Int /\ z[r] = PageSize * y[r] /\ z[r] <= x[r]
             /\ need[r] = y[r] + one(r)
  <2> DEFINE p == Len(R[r])
             n == Len(R[r]) + x[r]
             c == CeilDiv(p, PageSize)
             d == CeilDiv(n, PageSize)
             k == need[r]
             v == x[r]
  <2>1. p \in Nat /\ v \in Nat /\ n = p + v
    <3>1. R[r] \in Seq(Nat) /\ x[r] \in Nat
      OBVIOUS
    <3> QED
      BY <3>1
  <2>2. k = d - c /\ k \in Nat
    BY <1>3 DEF Needs, NewPages
  <2> HIDE DEF p, n, k
  <2>3. c \in Nat /\ p <= c * PageSize /\ c * PageSize \in Nat
    BY <2>1, CeilFacts
  <2>4. n \in Nat
    BY <2>1
  <2>5. d \in Nat /\ d * PageSize < n + PageSize /\ d * PageSize \in Nat
    BY <2>4, CeilFacts
  <2> HIDE DEF c, d
  <2>6. k * PageSize = d * PageSize - c * PageSize /\ (k - 1) * PageSize = k * PageSize - PageSize
        /\ PageSize * k = k * PageSize /\ PageSize * (k - 1) = (k - 1) * PageSize
    BY <1>0, <2>2, <2>3, <2>5
  <2>7. (k - 1) * PageSize < v
    BY <1>0, <2>1, <2>3, <2>5, <2>6
  <2>8. CASE v > 0
    <3>1. one(r) = 1 /\ y[r] = k - 1
      BY <2>8 DEF k, v
    <3>2. z[r] = PageSize * (k - 1)
      BY <3>1
    <3>3. PageSize * (k - 1) \in Int /\ k - 1 \in Int
      BY <1>0, <2>2
    <3>4. z[r] = PageSize * y[r]
      BY Zenon, <3>1, <3>2
    <3> HIDE DEF y, z, one
    <3>5. y[r] \in Int /\ k = y[r] + one(r)
      BY <2>2, <3>1, <3>3
    <3>6. z[r] \in Int /\ z[r] <= v
      BY <2>1, <2>6, <2>7, <3>2, <3>3
    <3> QED
      BY Zenon, <3>4, <3>5, <3>6 DEF k, v
  <2>9. CASE ~ (v > 0)
    <3>1. v = 0 /\ n = p
      BY <2>1, <2>9
    <3>2. k = 0
      BY <2>2, <2>3, <3>1 DEF c, d
    <3>3. one(r) = 0 /\ y[r] = 0
      BY <2>9, <3>2 DEF k, v
    <3>4. z[r] = 0
      BY <1>0, <3>3
    <3> QED
      BY <3>1, <3>2, <3>3, <3>4 DEF k, v
  <2> QED
    BY <2>8, <2>9
<1> HIDE DEF y, z
<1>6. Y \in Int /\ total = Y + bs
  <2>1. Y \in Int
    BY <1>1, <1>5, SumInt
  <2>2. \A r \in Rows : y[r] \in Int /\ need[r] = y[r] + (IF r \in K THEN 1 ELSE 0)
    BY <1>5
  <2> HIDE DEF K, need
  <2>3. total = Y + Cardinality(Rows \cap K)
    BY <1>1, <2>2, SumCount
  <2> QED
    BY <1>1, <2>1, <2>3
<1>7. PageSize * Y <= tokens
  <2>1. Total(z, Rows) = PageSize * Y
    BY <1>0, <1>1, <1>5, SumScale
  <2>2. \A r \in Rows : z[r] \in Int /\ x[r] \in Int /\ z[r] <= x[r]
    BY <1>5
  <2>3. Total(z, Rows) <= tokens
    BY <1>1, <2>2, SumMonotone
  <2> QED
    BY <2>1, <2>3
<1> HIDE DEF Y, tokens, total, bs
<1> DEFINE q == tokens \div PageSize
<1>8. q \in Nat /\ tokens < (q + 1) * PageSize
  <2>1. q \in Nat /\ tokens % PageSize \in 0 .. PageSize - 1
        /\ tokens = q * PageSize + (tokens % PageSize)
    BY <1>0, <1>4, Division
  <2> HIDE DEF q
  <2>2. (q + 1) * PageSize = q * PageSize + PageSize /\ q * PageSize \in Int
    BY <1>0, <2>1
  <2> QED
    BY <1>0, <2>1, <2>2
<1> HIDE DEF q
<1>9. Y <= q
  <2>1. SUFFICES ASSUME q + 1 <= Y PROVE FALSE
    BY <1>6, <1>8
  <2>2. (q + 1) * PageSize <= Y * PageSize /\ Y * PageSize \in Int /\ (q + 1) * PageSize \in Int
    BY <1>0, <1>6, <1>8, <2>1, Scale
  <2>3. PageSize * Y = Y * PageSize
    BY <1>0, <1>6
  <2> QED
    BY <1>4, <1>7, <1>8, <2>2, <2>3
<1>10. total <= q + bs
  BY <1>2, <1>6, <1>8, <1>9
<1> QED
  BY Zenon, <1>2, <1>4, <1>8, <1>10 DEF q, tokens, total, need, bs, K

\* alloc_decode takes at most one page per request.
LEMMA DecodeBound ==
  ASSUME NEW batch \in SUBSET Rows, NEW need \in [Rows -> Nat],
         \A r \in Rows : need[r] <= IF r \in batch THEN 1 ELSE 0
  PROVE  Cardinality(batch) \in Nat /\ Total(need, Rows) <= Cardinality(batch)
<1> DEFINE zero == [r \in Rows |-> 0]
           one == [r \in Rows |-> IF r \in batch THEN 1 ELSE 0]
<1>1. IsFiniteSet(Rows) /\ Rows \cap batch = batch
  BY Constants, CardUpto DEF Rows
<1>2. Cardinality(batch) \in Nat
  BY <1>1, FS_Subset, FS_CardinalityType
<1>3. (\A r \in Rows : zero[r] = 0) /\ (\A r \in Rows : zero[r] \in Int)
      /\ \A r \in Rows : zero[r] \in Int /\ one[r] = zero[r] + (IF r \in batch THEN 1 ELSE 0)
  OBVIOUS
<1>4. \A r \in Rows : need[r] \in Int /\ one[r] \in Int /\ need[r] <= one[r]
  OBVIOUS
<1> HIDE DEF zero, one
<1>5. Total(zero, Rows) = 0
  BY <1>1, <1>3, SumZero
<1>6. Total(one, Rows) = Total(zero, Rows) + Cardinality(Rows \cap batch)
  BY <1>1, <1>3, SumCount
<1>7. Total(need, Rows) <= Total(one, Rows)
  BY <1>1, <1>4, SumMonotone
<1> QED
  BY <1>1, <1>2, <1>5, <1>6, <1>7

\* A call that finds too few pages, after the merge its condition asks for,
\* finds them in neither list.
LEMMA NoneIsReal ==
  ASSUME AllocInv, saved = <<>>, NEW m, NEW total \in Nat, total > Len(FreeAfter(m)),
         m \/ ~NeedSort \/ total <= Len(free_pages)
  PROVE  total > Len(FreeAfter(m)) + Len(ReleaseAfter(m))
<1>1. Types /\ Parted(free_pages \o release_pages, GroupPages, Owned(rows))
  BY DEF AllocInv, PoolList
<1>2. FreeAfter(m) \in Seq(Pages)
      /\ (m => ReleaseAfter(m) = <<>>) /\ (~m => FreeAfter(m) = free_pages)
      /\ (release_pages = <<>> => ReleaseAfter(m) = <<>>)
  BY <1>1, MergeFacts
<1>3. ~NeedSort => release_pages = <<>>
  BY DEF AllocInv, Idle
<1>4. Len(FreeAfter(m)) \in Nat /\ free_pages \in Seq(Pages) /\ Len(free_pages) \in Nat /\ Len(<<>>) = 0
  BY <1>1, <1>2 DEF Types
<1>5. ReleaseAfter(m) = <<>>
  BY <1>2, <1>3, <1>4
<1> QED
  BY <1>4, <1>5

-----------------------------------------------------------------------------
(* The steps.                                                              *)

\* An allocation that succeeds with the lists the merge leaves.
LEMMA Allocation ==
  ASSUME AllocInv, saved = <<>>, NEW x \in [Rows -> Nat], NEW m,
         Total(Needs(rows, x), Rows) <= Len(FreeAfter(m))
  PROVE  /\ FreeAfter(m) \in Seq(Pages) /\ ReleaseAfter(m) \in Seq(Pages)
         /\ ~NeedSort => ReleaseAfter(m) = <<>>
         /\ SubSeq(FreeAfter(m), Total(Needs(rows, x), Rows) + 1, Len(FreeAfter(m))) \in Seq(Pages)
         /\ Extended(rows, x, FreeAfter(m)) \in [Rows -> Seq(Nat)]
         /\ \A r \in Rows :
              /\ Laid(Extended(rows, x, FreeAfter(m))[r], Table(Extended(rows, x, FreeAfter(m))[r]))
              /\ Extension(rows, x, FreeAfter(m), r) \in Seq(Nat)
              /\ Len(Extension(rows, x, FreeAfter(m), r)) = x[r]
              /\ StartPage(Needs(rows, x), r) \in Nat
              /\ StartPage(Needs(rows, x), r) + Needs(rows, x)[r] <= Len(FreeAfter(m))
         /\ Parted(SubSeq(FreeAfter(m), Total(Needs(rows, x), Rows) + 1, Len(FreeAfter(m)))
                     \o ReleaseAfter(m),
                   GroupPages, Owned(Extended(rows, x, FreeAfter(m))))
<1> DEFINE pages == FreeAfter(m)
           rel == ReleaseAfter(m)
<1>1. /\ Types /\ Parted(free_pages \o release_pages, GroupPages, Owned(rows))
      /\ rows \in [Rows -> Seq(Nat)] /\ \A r \in Rows : Laid(rows[r], Table(rows[r]))
      /\ ~NeedSort => release_pages = <<>>
  BY DEF AllocInv, PoolList, Types, Idle
<1>2. /\ pages \in Seq(Pages) /\ rel \in Seq(Pages)
      /\ Parted(pages \o rel, GroupPages, Owned(rows))
      /\ release_pages = <<>> => rel = <<>>
  BY Zenon, <1>1, MergeFacts
<1>3. Total(Needs(rows, x), Rows) <= Len(pages)
  OBVIOUS
<1> HIDE DEF pages, rel
<1>4. /\ \A r \in Rows : /\ Extension(rows, x, pages, r) \in Seq(Nat)
                         /\ Len(Extension(rows, x, pages, r)) = x[r]
                         /\ Laid(Extended(rows, x, pages)[r], Table(Extended(rows, x, pages)[r]))
                         /\ StartPage(Needs(rows, x), r) \in Nat
                         /\ StartPage(Needs(rows, x), r) + Needs(rows, x)[r] <= Len(pages)
      /\ SubSeq(pages, Total(Needs(rows, x), Rows) + 1, Len(pages)) \in Seq(Pages)
      /\ Parted(SubSeq(pages, Total(Needs(rows, x), Rows) + 1, Len(pages)) \o rel, GroupPages,
                Owned(Extended(rows, x, pages)))
      /\ Extended(rows, x, pages) \in [Rows -> Seq(Nat)]
  BY <1>1, <1>2, <1>3, RowsGrow
<1> QED
  BY Zenon, <1>1, <1>2, <1>4 DEF pages, rel

\* What a step outside a draft block has to keep.
LEMMA Outside ==
  ASSUME AllocInv, saved = <<>>, UNCHANGED <<saved, draft, backend>>,
         free_pages' \in Seq(Pages), release_pages' \in Seq(Pages),
         in_group' \in BOOLEAN, free_group' \in Seq(Nat), rows' \in [Rows -> Seq(Nat)],
         outcome' \in [ok : BOOLEAN, need : Nat, oob : BOOLEAN],
         ~NeedSort => release_pages' = <<>>,
         ~in_group' => free_group' = <<>>,
         \A r \in Rows : Laid(rows'[r], Table(rows'[r])),
         Parted(free_pages' \o release_pages', GroupPages', Owned(rows')),
         NoSpuriousNone'
  PROVE  AllocInv'
<1>1. saved' = <<>> /\ draft' = draft /\ backend' = backend
  OBVIOUS
<1>2. Types'
  BY <1>1 DEF AllocInv, Types
<1>3. \A r \in Rows : draft'[r] = <<>>
  BY <1>1 DEF AllocInv, Idle
<1>4. Idle'
  BY <1>1, <1>3 DEF Idle
<1>5. PoolList' = free_pages' \o release_pages'
  BY <1>1 DEF PoolList
<1>6. DraftBlockPrivate'
  BY <1>3 DEF DraftBlockPrivate
<1> QED
  BY <1>2, <1>4, <1>5, <1>6 DEF AllocInv

\* No page for anybody in an empty call, no shortage either.
LEMMA Served ==
  ASSUME outcome' = NoCall \/ \E n \in Nat : outcome' = Returned(TRUE, n)
  PROVE  NoSpuriousNone' /\ outcome' \in [ok : BOOLEAN, need : Nat, oob : BOOLEAN]
<1>1. PICK n \in Nat : outcome' = [ok |-> TRUE, need |-> n, oob |-> FALSE]
  BY DEF NoCall, Returned
<1>2. outcome'.ok /\ outcome' \in [ok : BOOLEAN, need : Nat, oob : BOOLEAN]
  BY <1>1
<1> QED
  BY <1>2 DEF NoSpuriousNone

\* alloc_extend: served, or refused after the merge.
LEMMA AllocExtendKeeps ==
  ASSUME AllocInv, saved = <<>>, NEW ext \in [Rows -> 0 .. MaxExtend], AllocExtend(ext),
         backend' = backend
  PROVE  AllocInv'
<1> DEFINE need == Needs(rows, ext)
           total == Total(need, Rows)
           tokens == Total(ext, Rows)
           bs == Cardinality({r \in Rows : ext[r] > 0})
           m == MergeExtend(tokens, bs, total)
           pages == FreeAfter(m)
           rel == ReleaseAfter(m)
<1>1. /\ release_pages' = rel
      /\ UNCHANGED <<in_group, free_group, saved, draft>>
      /\ IF total > Len(pages)
           THEN /\ outcome' = Returned(FALSE, total)
                /\ free_pages' = pages
                /\ UNCHANGED rows
           ELSE /\ outcome' = Returned(TRUE, total)
                /\ free_pages' = SubSeq(pages, total + 1, Len(pages))
                /\ rows' = [r \in Rows |-> rows[r] \o
                     ExtendSlots(pages, Len(rows[r]), Len(rows[r]) + ext[r],
                                 LastLoc(r, Len(rows[r])), StartPage(need, r))]
  BY Zenon DEF AllocExtend, Needs
<1>2. /\ Types /\ rows \in [Rows -> Seq(Nat)] /\ \A r \in Rows : Laid(rows[r], Table(rows[r]))
      /\ Parted(free_pages \o release_pages, GroupPages, Owned(rows))
      /\ free_pages \in Seq(Pages) /\ free_group \in Seq(Nat) /\ in_group \in BOOLEAN
      /\ (~NeedSort => release_pages = <<>>) /\ (~in_group => free_group = <<>>)
  BY DEF AllocInv, PoolList, Types, Idle
<1>3. ext \in [Rows -> Nat]
  BY Constants
<1>4. total \in Nat
  BY <1>2, <1>3, NeedsFacts
<1>5. /\ bs \in Nat /\ tokens \in Nat /\ tokens \div PageSize \in Nat
      /\ total <= tokens \div PageSize + bs
  BY Zenon, <1>2, <1>3, NeedBound
<1>6. m \/ ~NeedSort \/ total <= Len(free_pages)
  <2>1. Len(free_pages) \in Nat
    BY <1>2
  <2> HIDE DEF total, tokens, bs
  <2> QED
    BY <1>4, <1>5, <2>1 DEF MergeExtend
<1> HIDE DEF m, tokens, bs
<1>7. /\ pages \in Seq(Pages) /\ rel \in Seq(Pages)
      /\ Parted(pages \o rel, GroupPages, Owned(rows))
      /\ release_pages = <<>> => rel = <<>>
  BY Zenon, <1>2, MergeFacts
<1>8. GroupPages' = GroupPages
  BY <1>1 DEF GroupPages
<1>9. CASE total > Len(pages)
  <2>1. outcome' = Returned(FALSE, total) /\ free_pages' = pages /\ rows' = rows
    BY Zenon, <1>1, <1>9
  <2>2. total > Len(pages) + Len(rel)
    BY <1>4, <1>6, <1>9, NoneIsReal
  <2> HIDE DEF pages, rel, total
  <2>3. NoSpuriousNone' /\ outcome' \in [ok : BOOLEAN, need : Nat, oob : BOOLEAN]
    BY <1>1, <1>4, <2>1, <2>2 DEF NoSpuriousNone, Returned
  <2>4. UNCHANGED <<saved, draft, backend>>
    BY <1>1
  <2>5. /\ free_pages' \in Seq(Pages) /\ release_pages' \in Seq(Pages)
        /\ in_group' \in BOOLEAN /\ free_group' \in Seq(Nat) /\ rows' \in [Rows -> Seq(Nat)]
        /\ (~NeedSort => release_pages' = <<>>) /\ (~in_group' => free_group' = <<>>)
        /\ \A r \in Rows : Laid(rows'[r], Table(rows'[r]))
        /\ Parted(free_pages' \o release_pages', GroupPages', Owned(rows'))
    BY <1>1, <1>2, <1>7, <1>8, <2>1
  <2> QED
    BY <2>3, <2>4, <2>5, Outside
<1>10. CASE ~ (total > Len(pages))
  <2> DEFINE new == Extended(rows, ext, pages)
             rest == SubSeq(pages, total + 1, Len(pages))
  <2>1. outcome' = Returned(TRUE, total) /\ free_pages' = rest
    BY Zenon, <1>1, <1>10
  <2>2. rows' = new
    <3>1. \A r \in Rows : LastLoc(r, Len(rows[r])) = LastSlot(rows[r])
      BY DEF LastLoc, LastSlot
    <3>2. rows' = [r \in Rows |-> rows[r] \o
                     ExtendSlots(pages, Len(rows[r]), Len(rows[r]) + ext[r],
                                 LastLoc(r, Len(rows[r])), StartPage(need, r))]
      BY Zenon, <1>1, <1>10
    <3> HIDE DEF pages
    <3> QED
      BY Zenon, <3>1, <3>2 DEF Extended, Extension
  <2>3. total <= Len(pages)
    <3>1. Len(pages) \in Nat
      BY <1>7
    <3> HIDE DEF pages, total
    <3> QED
      BY <1>4, <1>10, <3>1
  <2>4. /\ rest \in Seq(Pages) /\ (~NeedSort => rel = <<>>)
        /\ new \in [Rows -> Seq(Nat)]
        /\ \A r \in Rows : Laid(new[r], Table(new[r]))
        /\ Parted(rest \o rel, GroupPages, Owned(new))
    BY Zenon, <1>3, <2>3, Allocation
  <2> HIDE DEF new, rest, pages, rel, total
  <2>5. NoSpuriousNone' /\ outcome' \in [ok : BOOLEAN, need : Nat, oob : BOOLEAN]
    BY <1>4, <2>1, Served
  <2>6. UNCHANGED <<saved, draft, backend>>
    BY <1>1
  <2>7. /\ free_pages' \in Seq(Pages) /\ release_pages' \in Seq(Pages)
        /\ in_group' \in BOOLEAN /\ free_group' \in Seq(Nat) /\ rows' \in [Rows -> Seq(Nat)]
        /\ (~NeedSort => release_pages' = <<>>) /\ (~in_group' => free_group' = <<>>)
        /\ \A r \in Rows : Laid(rows'[r], Table(rows'[r]))
        /\ Parted(free_pages' \o release_pages', GroupPages', Owned(rows'))
    BY <1>1, <1>2, <1>7, <1>8, <2>1, <2>2, <2>4
  <2> QED
    BY <2>5, <2>6, <2>7, Outside
<1> QED
  BY <1>9, <1>10

\* alloc_decode is alloc_extend by one token for the rows of the batch.
LEMMA AllocDecodeKeeps ==
  ASSUME AllocInv, saved = <<>>, NEW batch \in SUBSET Rows, AllocDecode(batch),
         backend' = backend
  PROVE  AllocInv'
<1> DEFINE x == [r \in Rows |-> IF r \in batch THEN 1 ELSE 0]
           need == Needs(rows, x)
           taken == [r \in Rows |-> IF r \in batch THEN NewPagesDecode(Len(rows[r]) + 1) ELSE 0]
           total == Total(need, Rows)
           m == MergeDecode(Cardinality(batch), total)
           pages == FreeAfter(m)
           rel == ReleaseAfter(m)
           oob == GatherOutOfRange(pages, need, batch)
<1>1. /\ Types /\ rows \in [Rows -> Seq(Nat)] /\ \A r \in Rows : Laid(rows[r], Table(rows[r]))
      /\ Parted(free_pages \o release_pages, GroupPages, Owned(rows))
      /\ free_pages \in Seq(Pages) /\ free_group \in Seq(Nat) /\ in_group \in BOOLEAN
      /\ (~NeedSort => release_pages = <<>>) /\ (~in_group => free_group = <<>>)
  BY DEF AllocInv, PoolList, Types, Idle
<1>2. x \in [Rows -> Nat] /\ \A r \in Rows : x[r] = IF r \in batch THEN 1 ELSE 0
  OBVIOUS
<1>3. ASSUME NEW r \in Rows
      PROVE  /\ Len(rows[r]) \in Nat
             /\ NewPages(Len(rows[r]), Len(rows[r]) + 0) = 0
             /\ NewPagesDecode(Len(rows[r]) + 1) \in {0, 1}
             /\ NewPages(Len(rows[r]), Len(rows[r]) + 1) = NewPagesDecode(Len(rows[r]) + 1)
  <2> DEFINE k == Len(rows[r])
  <2>1. k \in Nat /\ k + 0 = k
    <3>1. rows[r] \in Seq(Nat)
      BY <1>1
    <3> QED
      BY <3>1
  <2> HIDE DEF k
  <2>2. CeilDiv(k, PageSize) \in Nat
    BY <2>1, CeilFacts
  <2>3. NewPages(k, k + 0) = 0
    BY <2>1, <2>2 DEF NewPages
  <2>4. /\ NewPagesDecode(k + 1) = NewPages(k, k + 1)
        /\ NewPagesDecode(k + 1) \in {0, 1}
    <3>1. 0 \in Nat
      OBVIOUS
    <3> QED
      BY Zenon, <1>1, <2>1, <3>1, DecodeIsExtend
  <2> QED
    BY Zenon, <2>1, <2>3, <2>4 DEF k
<1>4. taken = need
  <2>1. \A r \in Rows : NewPages(Len(rows[r]), Len(rows[r]) + x[r])
          = IF r \in batch THEN NewPagesDecode(Len(rows[r]) + 1) ELSE 0
    BY Zenon, <1>2, <1>3
  <2> HIDE DEF x
  <2> QED
    BY Zenon, <2>1 DEF Needs
<1>5. /\ release_pages' = rel
      /\ UNCHANGED <<in_group, free_group, saved, draft>>
      /\ IF total > Len(pages)
           THEN /\ outcome' = Returned(FALSE, total)
                /\ free_pages' = pages
                /\ UNCHANGED rows
           ELSE /\ outcome' = [Returned(TRUE, total) EXCEPT !.oob = oob]
                /\ free_pages' = SubSeq(pages, total + 1, Len(pages))
                /\ rows' = [r \in Rows |->
                     IF r \in batch
                       THEN Append(rows[r], DecodeSlot(pages, Len(rows[r]) + 1,
                                                       LastLoc(r, Len(rows[r])), StartPage(need, r)))
                       ELSE rows[r]]
  <2> DEFINE T == Total(taken, Rows)
             M == MergeDecode(Cardinality(batch), T)
             P == FreeAfter(M)
  <2>1. /\ release_pages' = ReleaseAfter(M)
        /\ UNCHANGED <<in_group, free_group, saved, draft>>
        /\ IF T > Len(P)
             THEN /\ outcome' = Returned(FALSE, T)
                  /\ free_pages' = P
                  /\ UNCHANGED rows
             ELSE /\ outcome' = [Returned(TRUE, T) EXCEPT !.oob = GatherOutOfRange(P, taken, batch)]
                  /\ free_pages' = SubSeq(P, T + 1, Len(P))
                  /\ rows' = [r \in Rows |->
                       IF r \in batch
                         THEN Append(rows[r], DecodeSlot(P, Len(rows[r]) + 1,
                                                         LastLoc(r, Len(rows[r])), StartPage(taken, r)))
                         ELSE rows[r]]
    BY Zenon DEF AllocDecode
  <2> HIDE DEF taken, need
  <2> QED
    BY Zenon, <1>4, <2>1
<1>6. need \in [Rows -> Nat] /\ total \in Nat
  BY <1>1, <1>2, NeedsFacts
<1>7. Cardinality(batch) \in Nat /\ total <= Cardinality(batch)
  <2>1. \A r \in Rows : taken[r] <= IF r \in batch THEN 1 ELSE 0
    BY <1>3
  <2> HIDE DEF taken, need
  <2> QED
    BY Zenon, <1>4, <1>6, <2>1, DecodeBound
<1> HIDE DEF taken, x, need
<1>8. m \/ ~NeedSort \/ total <= Len(free_pages)
  <2>1. Len(free_pages) \in Nat
    BY <1>1
  <2> HIDE DEF total
  <2> QED
    BY <1>6, <1>7, <2>1 DEF MergeDecode
<1> HIDE DEF m, oob
<1>9. /\ pages \in Seq(Pages) /\ rel \in Seq(Pages)
      /\ Parted(pages \o rel, GroupPages, Owned(rows))
      /\ release_pages = <<>> => rel = <<>>
  BY Zenon, <1>1, MergeFacts
<1>10. GroupPages' = GroupPages
  BY <1>5 DEF GroupPages
<1>11. CASE total > Len(pages)
  <2>1. outcome' = Returned(FALSE, total) /\ free_pages' = pages /\ rows' = rows
    BY Zenon, <1>5, <1>11
  <2>2. total > Len(pages) + Len(rel)
    BY <1>6, <1>8, <1>11, NoneIsReal
  <2> HIDE DEF pages, rel, total
  <2>3. NoSpuriousNone' /\ outcome' \in [ok : BOOLEAN, need : Nat, oob : BOOLEAN]
    BY <1>5, <1>6, <2>1, <2>2 DEF NoSpuriousNone, Returned
  <2>4. UNCHANGED <<saved, draft, backend>>
    BY <1>5
  <2>5. /\ free_pages' \in Seq(Pages) /\ release_pages' \in Seq(Pages)
        /\ in_group' \in BOOLEAN /\ free_group' \in Seq(Nat) /\ rows' \in [Rows -> Seq(Nat)]
        /\ (~NeedSort => release_pages' = <<>>) /\ (~in_group' => free_group' = <<>>)
        /\ \A r \in Rows : Laid(rows'[r], Table(rows'[r]))
        /\ Parted(free_pages' \o release_pages', GroupPages', Owned(rows'))
    BY <1>1, <1>5, <1>9, <1>10, <2>1
  <2> QED
    BY <2>3, <2>4, <2>5, Outside
<1>12. CASE ~ (total > Len(pages))
  <2> DEFINE new == Extended(rows, x, pages)
             rest == SubSeq(pages, total + 1, Len(pages))
  <2>1. outcome' = [Returned(TRUE, total) EXCEPT !.oob = oob] /\ free_pages' = rest
    BY Zenon, <1>5, <1>12
  <2>3. total <= Len(pages)
    <3>1. Len(pages) \in Nat
      BY <1>9
    <3> HIDE DEF pages, total
    <3> QED
      BY <1>6, <1>12, <3>1
  <2>4. /\ rest \in Seq(Pages) /\ (~NeedSort => rel = <<>>)
        /\ new \in [Rows -> Seq(Nat)]
        /\ \A r \in Rows : /\ Laid(new[r], Table(new[r]))
                           /\ StartPage(need, r) \in Nat
                           /\ StartPage(need, r) + need[r] <= Len(pages)
        /\ Parted(rest \o rel, GroupPages, Owned(new))
    BY Zenon, <1>2, <2>3, Allocation DEF need
  <2>2. rows' = new
    <3> DEFINE got(r) == IF r \in batch
                           THEN Append(rows[r], DecodeSlot(pages, Len(rows[r]) + 1,
                                                           LastLoc(r, Len(rows[r])), StartPage(need, r)))
                           ELSE rows[r]
    <3>1. rows' = [r \in Rows |-> got(r)]
      BY Zenon, <1>5, <1>12
    <3>2. ASSUME NEW r \in Rows
          PROVE  got(r) = rows[r] \o Extension(rows, x, pages, r)
      <4> DEFINE s == rows[r]
                 k == Len(s)
                 start == StartPage(need, r)
                 slot == DecodeSlot(pages, k + 1, LastSlot(s), start)
                 e == Extension(rows, x, pages, r)
      <4>1. s \in Seq(Nat) /\ k \in Nat /\ start \in Nat
        BY <1>1, <2>4
      <4>2. LastLoc(r, k) = LastSlot(s)
        BY DEF LastLoc, LastSlot
      <4>3. e = ExtendSlots(pages, k, k + x[r], LastSlot(s), start)
        BY Zenon DEF Extension, need
      <4>4. e \in Seq(Nat) /\ Len(e) = x[r]
        BY Zenon, <1>2, <2>3, Allocation DEF need
      <4>5. need[r] = NewPages(k, k + x[r]) /\ start + need[r] <= Len(pages)
        BY <2>4 DEF Needs, need
      <4>6. CASE r \in batch
        <5>1. x[r] = 1
          BY <1>2, <4>6
        <5>2. got(r) = Append(s, slot)
          BY Zenon, <4>2, <4>6
        <5> HIDE DEF e, s, k, start, got
        <5>3. <<slot>> = e
          BY <1>9, <4>1, <4>3, <4>5, <5>1, DecodeIsExtend
        <5> HIDE DEF slot
        <5>4. Append(s, slot) = s \o <<slot>>
          BY <4>1
        <5> QED
          BY Zenon, <5>2, <5>3, <5>4 DEF s, e
      <4>7. CASE r \notin batch
        <5>1. x[r] = 0
          BY <1>2, <4>7
        <5>2. got(r) = s
          BY Zenon, <4>7
        <5> HIDE DEF e, s, k, start, got
        <5>3. e = <<>>
          BY <4>4, <5>1
        <5>4. s \o <<>> = s
          BY <4>1
        <5> QED
          BY Zenon, <5>2, <5>3, <5>4 DEF s, e
      <4> QED
        BY <4>6, <4>7
    <3> HIDE DEF got
    <3> QED
      BY Zenon, <3>1, <3>2 DEF Extended
  <2> HIDE DEF new, rest, pages, rel, total
  <2>5. NoSpuriousNone' /\ outcome' \in [ok : BOOLEAN, need : Nat, oob : BOOLEAN]
    <3>1. oob \in BOOLEAN
      BY DEF oob, GatherOutOfRange, Npu
    <3>2. outcome' = [ok |-> TRUE, need |-> total, oob |-> oob]
      BY <2>1 DEF Returned
    <3> QED
      BY <1>6, <3>1, <3>2 DEF NoSpuriousNone
  <2>6. UNCHANGED <<saved, draft, backend>>
    BY <1>5
  <2>7. /\ free_pages' \in Seq(Pages) /\ release_pages' \in Seq(Pages)
        /\ in_group' \in BOOLEAN /\ free_group' \in Seq(Nat) /\ rows' \in [Rows -> Seq(Nat)]
        /\ (~NeedSort => release_pages' = <<>>) /\ (~in_group' => free_group' = <<>>)
        /\ \A r \in Rows : Laid(rows'[r], Table(rows'[r]))
        /\ Parted(free_pages' \o release_pages', GroupPages', Owned(rows'))
    BY <1>1, <1>5, <1>9, <1>10, <2>1, <2>2, <2>4
  <2> QED
    BY <2>5, <2>6, <2>7, Outside
<1> QED
  BY <1>11, <1>12

\* Pages given back by a row or by the deferred list go to the pool.
LEMMA PartedRelease ==
  ASSUME NEW pool \in Seq(Pages), NEW group, NEW own, Parted(pool, group, own),
         NEW u \in Seq(Pages), IsInjective(u), Set(u) \cap Set(pool) = {},
         NEW group2, group2 \subseteq group, Set(u) \cap group2 = {},
         group \subseteq group2 \cup Set(u),
         NEW own2 \in [Rows -> SUBSET Pages],
         \A r \in Rows : /\ own2[r] \subseteq own[r] /\ Set(u) \cap own2[r] = {}
                         /\ own[r] \subseteq own2[r] \cup Set(u)
  PROVE  Parted(u \o pool, group2, own2)
<1>1. u \o pool \in Seq(Pages) /\ Set(u \o pool) = Set(u) \cup Set(pool) /\ IsInjective(u \o pool)
  <2>1. IsInjective(pool)
    BY DEF Parted
  <2> QED
    BY <2>1, SetConcat
<1>2. group2 \subseteq Pages
  BY DEF Parted
<1>3. Set(u \o pool) \cap group2 = {}
  BY <1>1 DEF Parted
<1>4. \A r \in Rows : own2[r] \cap Set(u \o pool) = {} /\ own2[r] \cap group2 = {}
  BY <1>1 DEF Parted
<1>5. \A q, r \in Rows : q # r => own2[q] \cap own2[r] = {}
  BY DEF Parted
<1>6. \A p \in Pages : p \in Set(u \o pool) \/ p \in group2 \/ \E r \in Rows : p \in own2[r]
  BY <1>1 DEF Parted
<1> QED
  BY Zenon, <1>1, <1>2, <1>3, <1>4, <1>5, <1>6 DEF Parted

\* free() puts the pages in front of one of the two lists.
LEMMA ReleaseFacts ==
  ASSUME Types, NEW slots, ReleaseSlots(slots), SlotPages(slots) \subseteq Pages,
         NEW group, NEW own, Parted(free_pages \o release_pages, group, own),
         SlotPages(slots) \cap Set(free_pages \o release_pages) = {},
         NEW group2, group2 \subseteq group, SlotPages(slots) \cap group2 = {},
         group \subseteq group2 \cup SlotPages(slots),
         NEW own2 \in [Rows -> SUBSET Pages],
         \A r \in Rows : /\ own2[r] \subseteq own[r] /\ SlotPages(slots) \cap own2[r] = {}
                         /\ own[r] \subseteq own2[r] \cup SlotPages(slots)
  PROVE  /\ free_pages' \in Seq(Pages) /\ release_pages' \in Seq(Pages)
         /\ ~NeedSort => release_pages' = release_pages
         /\ Parted(free_pages' \o release_pages', group2, own2)
<1> DEFINE S == SlotPages(slots)
           u == Ascending([p \in S |-> p])
           pool == free_pages \o release_pages
<1>1. free_pages \in Seq(Pages) /\ release_pages \in Seq(Pages) /\ pool \in Seq(Pages)
  BY DEF Types
<1>2. IF NeedSort
        THEN release_pages' = u \o release_pages /\ free_pages' = free_pages
        ELSE free_pages' = u \o free_pages /\ release_pages' = release_pages
  BY Zenon DEF ReleaseSlots, Released, SlotPages
<1>3. S \in SUBSET Pages
  OBVIOUS
<1> HIDE DEF S
<1>4. u \in Seq(Pages) /\ Set(u) = S /\ IsInjective(u)
  BY <1>3, SortedSet
<1> HIDE DEF u
<1>5. S \cap Set(pool) = {} /\ S \cap group2 = {} /\ group \subseteq group2 \cup S
      /\ \A r \in Rows : /\ own2[r] \subseteq own[r] /\ S \cap own2[r] = {}
                         /\ own[r] \subseteq own2[r] \cup S
  BY Zenon DEF S
<1> HIDE DEF pool
<1>6. Parted(pool, group, own)
  BY Zenon DEF pool
<1>7. Parted(u \o pool, group2, own2)
  BY <1>1, <1>4, <1>5, <1>6, PartedRelease
<1>8. CASE NeedSort
  <2> DEFINE t == free_pages \o (u \o release_pages)
  <2>1. u \o release_pages \in Seq(Pages) /\ t \in Seq(Pages)
    BY <1>1, <1>4
  <2>2. /\ Set(t) = Set(free_pages) \cup Set(u \o release_pages)
        /\ Set(u \o release_pages) = Set(u) \cup Set(release_pages)
        /\ Set(u \o pool) = Set(u) \cup Set(pool)
        /\ Set(pool) = Set(free_pages) \cup Set(release_pages)
    <3>1. Set(t) = Set(free_pages) \cup Set(u \o release_pages)
      <4> DEFINE v == u \o release_pages
      <4>1. v \in Seq(Pages)
        BY <2>1
      <4> HIDE DEF v
      <4>2. Set(free_pages \o v) = Set(free_pages) \cup Set(v)
        BY <1>1, <4>1, SetConcat
      <4> QED
        BY Zenon, <4>2 DEF v
    <3>2. Set(u \o release_pages) = Set(u) \cup Set(release_pages)
      BY <1>1, <1>4, SetConcat
    <3>3. Set(u \o pool) = Set(u) \cup Set(pool)
      BY <1>1, <1>4, SetConcat
    <3>4. Set(pool) = Set(free_pages) \cup Set(release_pages)
      BY <1>1, SetConcat DEF pool
    <3> HIDE DEF t
    <3> QED
      BY <3>1, <3>2, <3>3, <3>4
  <2>3. Set(t) = Set(u \o pool)
    BY <2>2
  <2>4. /\ IsInjective(free_pages) /\ IsInjective(release_pages)
        /\ Set(free_pages) \cap Set(release_pages) = {}
    <3>1. Parted(free_pages \o release_pages, group, own)
      OBVIOUS
    <3> QED
      BY <1>1, <3>1, PartedConcat
  <2>5. Set(u) \cap Set(release_pages) = {} /\ Set(u) \cap Set(free_pages) = {}
    BY <1>4, <1>5, <2>2
  <2>6. IsInjective(u \o release_pages)
    BY <1>1, <1>4, <2>4, <2>5, SetConcat
  <2>7. Set(free_pages) \cap Set(u \o release_pages) = {}
    BY <2>2, <2>4, <2>5
  <2>8. IsInjective(t)
    BY <1>1, <2>1, <2>4, <2>6, <2>7, SetConcat
  <2> HIDE DEF t
  <2>9. Parted(t, group2, own2)
    BY <1>7, <2>1, <2>3, <2>8, PartedReorder
  <2> QED
    BY Zenon, <1>1, <1>2, <1>8, <2>1, <2>9 DEF t
<1>9. CASE ~NeedSort
  <2>1. u \o free_pages \in Seq(Pages)
    BY <1>1, <1>4
  <2>2. u \o pool = (u \o free_pages) \o release_pages
    BY <1>1, <1>4 DEF pool
  <2> QED
    BY Zenon, <1>1, <1>2, <1>7, <1>9, <2>1, <2>2
<1> QED
  BY <1>8, <1>9

\* The pages of two lists of slots.
LEMMA SlotPagesConcat ==
  ASSUME NEW s \in Seq(Nat), NEW t \in Seq(Nat)
  PROVE  SlotPages(s \o t) = SlotPages(s) \cup SlotPages(t)
<1> DEFINE u == s \o t
<1>1. Set(u) = Set(s) \cup Set(t)
  BY SetConcat
<1> HIDE DEF u
<1>2. \A v : SlotPages(v) = {PageOf(x) : x \in Set(v)}
  BY DEF SlotPages, Set
<1>3. SlotPages(u) = SlotPages(s) \cup SlotPages(t)
  BY <1>1, <1>2
<1> QED
  BY Zenon, <1>3 DEF u

\* free(): the pages behind the kept ones go to a list or to the group.
LEMMA FreeKeeps ==
  ASSUME AllocInv, saved = <<>>, NEW r \in Rows, NEW keep \in 0 .. MaxLen, Free(r, keep),
         backend' = backend
  PROVE  AllocInv'
<1> DEFINE s == rows[r]
           kept == SubSeq(s, 1, keep)
           slots == SubSeq(s, KeepSlots(keep, Len(s)) + 1, Len(s))
           own == Owned(rows)
           own2 == Owned(rows')
           pool == free_pages \o release_pages
           S == SlotPages(slots)
<1>1. /\ Types /\ rows \in [Rows -> Seq(Nat)] /\ \A q \in Rows : Laid(rows[q], Table(rows[q]))
      /\ Parted(pool, GroupPages, own)
      /\ free_pages \in Seq(Pages) /\ release_pages \in Seq(Pages)
      /\ free_group \in Seq(Nat) /\ in_group \in BOOLEAN
      /\ (~NeedSort => release_pages = <<>>) /\ (~in_group => free_group = <<>>)
  BY DEF AllocInv, PoolList, Types, Idle
<1>2. /\ keep < Len(s)
      /\ rows' = [rows EXCEPT ![r] = kept]
      /\ IF slots = <<>>
           THEN UNCHANGED <<free_pages, release_pages, free_group>>
           ELSE IF in_group
             THEN /\ free_group' = free_group \o slots
                  /\ UNCHANGED <<free_pages, release_pages>>
             ELSE ReleaseSlots(slots) /\ UNCHANGED free_group
      /\ outcome' = NoCall
      /\ UNCHANGED <<in_group, saved, draft>>
  BY DEF Free
<1>3. keep \in 0 .. Len(s) /\ s \in Seq(Nat) /\ Laid(s, Table(s))
  <2>1. s \in Seq(Nat) /\ keep \in Nat
    BY <1>1, Constants
  <2>2. Len(s) \in Nat
    BY <2>1
  <2> HIDE DEF s
  <2>3. keep \in 0 .. Len(s)
    BY <1>2, <2>1, <2>2
  <2> QED
    BY <1>1, <2>1, <2>3 DEF s
<1>4. /\ Laid(kept, Table(kept)) /\ slots \in Seq(Nat)
      /\ SlotPages(s) = SlotPages(kept) \cup S
      /\ SlotPages(kept) \cap S = {} /\ S \subseteq Pages
  BY Zenon, <1>3, Shrink
<1>5. kept \in Seq(Nat)
  BY <1>4 DEF Laid
<1> HIDE DEF s, kept, slots
<1>6. rows' \in [Rows -> Seq(Nat)] /\ \A q \in Rows : rows'[q] = IF q = r THEN kept ELSE rows[q]
  BY <1>1, <1>2, <1>5
<1>7. \A q \in Rows : Laid(rows'[q], Table(rows'[q]))
  BY <1>1, <1>4, <1>6
<1>8. \A q \in Rows : own[q] = SlotPages(rows[q]) /\ own2[q] = SlotPages(rows'[q])
  BY DEF Owned
<1>9. own2[r] = SlotPages(kept) /\ own[r] = own2[r] \cup S /\ own2[r] \cap S = {}
      /\ \A q \in Rows : q # r => own2[q] = own[q]
  BY <1>4, <1>6, <1>8 DEF s
<1>10. /\ own \in [Rows -> SUBSET Pages] /\ GroupPages \subseteq Pages
       /\ \A q \in Rows : own[q] \cap Set(pool) = {} /\ own[q] \cap GroupPages = {}
       /\ \A p, q \in Rows : p # q => own[p] \cap own[q] = {}
  BY <1>1 DEF Parted
<1>11. own2 \in [Rows -> SUBSET Pages]
  <2>1. \A q \in Rows : own2[q] \subseteq Pages
    BY <1>9, <1>10
  <2>2. own2 = [q \in Rows |-> own2[q]]
    BY DEF Owned
  <2> HIDE DEF own2
  <2> QED
    BY <2>1, <2>2
<1> HIDE DEF own, own2, pool, S
<1>12. /\ S \cap Set(pool) = {} /\ S \cap GroupPages = {}
       /\ \A q \in Rows : /\ own2[q] \subseteq own[q] /\ S \cap own2[q] = {}
                          /\ own[q] \subseteq own2[q] \cup S
  BY <1>9, <1>10
<1>13. /\ free_pages' \in Seq(Pages) /\ release_pages' \in Seq(Pages)
       /\ ~NeedSort => release_pages' = <<>>
       /\ free_group' \in Seq(Nat) /\ (~in_group => free_group' = free_group)
       /\ Parted(free_pages' \o release_pages', GroupPages', own2)
  <2>1. CASE slots = <<>>
    <3>1. free_pages' = free_pages /\ release_pages' = release_pages /\ free_group' = free_group
      BY <1>2, <2>1
    <3>2. GroupPages' = GroupPages
      BY <3>1 DEF GroupPages
    <3>3. S = {}
      BY <2>1 DEF S, SlotPages
    <3>4. own2 = own
      <4>1. \A q \in Rows : own2[q] = own[q]
        BY <1>9, <3>3
      <4> QED
        BY <1>10, <1>11, <4>1
    <3> QED
      BY <1>1, <3>1, <3>2, <3>4 DEF pool
  <2>2. CASE slots # <<>> /\ in_group
    <3>1. free_pages' = free_pages /\ release_pages' = release_pages
          /\ free_group' = free_group \o slots
      BY <1>2, <2>2
    <3>2. free_group' \in Seq(Nat)
      BY <1>1, <1>4, <3>1
    <3>3. GroupPages' = GroupPages \cup S
      <4>1. GroupPages = SlotPages(free_group) /\ GroupPages' = SlotPages(free_group')
        BY DEF GroupPages, SlotPages
      <4>2. SlotPages(free_group \o slots) = SlotPages(free_group) \cup SlotPages(slots)
        BY <1>1, <1>4, SlotPagesConcat
      <4> QED
        BY Zenon, <3>1, <4>1, <4>2 DEF S
    <3>4. Parted(pool, GroupPages \cup S, own2)
      <4>1. pool \in Seq(Pages) /\ IsInjective(pool) /\ GroupPages \cup S \subseteq Pages
        BY <1>1, <1>4, <1>10 DEF Parted
      <4>2. Set(pool) \cap (GroupPages \cup S) = {}
        BY <1>1, <1>12 DEF Parted
      <4>3. \A q \in Rows : own2[q] \cap Set(pool) = {} /\ own2[q] \cap (GroupPages \cup S) = {}
        BY <1>10, <1>12
      <4>4. \A p, q \in Rows : p # q => own2[p] \cap own2[q] = {}
        BY <1>10, <1>12
      <4>5. \A p \in Pages : p \in Set(pool) \/ p \in GroupPages \cup S \/ \E q \in Rows : p \in own2[q]
        <5>1. \A p \in Pages : p \in Set(pool) \/ p \in GroupPages \/ \E q \in Rows : p \in own[q]
          BY <1>1 DEF Parted
        <5> QED
          BY <1>12, <5>1
      <4> QED
        BY Zenon, <1>11, <4>1, <4>2, <4>3, <4>4, <4>5 DEF Parted
    <3> QED
      BY <1>1, <2>2, <3>1, <3>2, <3>3, <3>4 DEF pool
  <2>3. CASE slots # <<>> /\ ~in_group
    <3>1. ReleaseSlots(slots) /\ free_group' = free_group
      BY <1>2, <2>3
    <3>2. GroupPages' = GroupPages
      BY <3>1 DEF GroupPages
    <3>3. S = SlotPages(slots) /\ pool = free_pages \o release_pages
      BY DEF S, pool
    <3>4. /\ free_pages' \in Seq(Pages) /\ release_pages' \in Seq(Pages)
          /\ ~NeedSort => release_pages' = release_pages
          /\ Parted(free_pages' \o release_pages', GroupPages, own2)
      <4>1. SlotPages(slots) \subseteq Pages
        BY <1>4 DEF S
      <4>2. /\ SlotPages(slots) \cap Set(free_pages \o release_pages) = {}
            /\ SlotPages(slots) \cap GroupPages = {}
            /\ \A q \in Rows : /\ own2[q] \subseteq own[q] /\ SlotPages(slots) \cap own2[q] = {}
                               /\ own[q] \subseteq own2[q] \cup SlotPages(slots)
        BY Zenon, <1>12, <3>3
      <4>3. GroupPages \subseteq GroupPages /\ GroupPages \subseteq GroupPages \cup SlotPages(slots)
        OBVIOUS
      <4>4. Parted(free_pages \o release_pages, GroupPages, own)
        BY Zenon, <1>1, <3>3
      <4> QED
        BY Zenon, <1>1, <1>11, <3>1, <4>1, <4>2, <4>3, <4>4, ReleaseFacts
    <3> QED
      BY <1>1, <2>3, <3>1, <3>2, <3>4
  <2> QED
    BY <2>1, <2>2, <2>3
<1>14. NoSpuriousNone' /\ outcome' \in [ok : BOOLEAN, need : Nat, oob : BOOLEAN]
  BY <1>2, Served
<1>15. in_group' = in_group /\ UNCHANGED <<saved, draft, backend>>
  BY <1>2
<1>16. Parted(free_pages' \o release_pages', GroupPages', Owned(rows'))
  BY <1>13 DEF own2
<1>17. in_group' \in BOOLEAN /\ (~in_group' => free_group' = <<>>)
  BY <1>1, <1>13, <1>15
<1> QED
  BY <1>6, <1>7, <1>13, <1>14, <1>15, <1>16, <1>17, Outside

\* free_group_begin.
LEMMA FreeGroupBeginKeeps ==
  ASSUME AllocInv, saved = <<>>, FreeGroupBegin, backend' = backend
  PROVE  AllocInv'
<1>1. /\ free_pages \in Seq(Pages) /\ release_pages \in Seq(Pages) /\ rows \in [Rows -> Seq(Nat)]
      /\ \A r \in Rows : Laid(rows[r], Table(rows[r]))
      /\ Parted(free_pages \o release_pages, GroupPages, Owned(rows))
      /\ (~NeedSort => release_pages = <<>>) /\ (~in_group => free_group = <<>>)
  BY DEF AllocInv, PoolList, Types, Idle
<1>2. /\ ~in_group /\ in_group' = TRUE /\ free_group' = <<>> /\ outcome' = NoCall
      /\ UNCHANGED <<free_pages, release_pages, rows, saved, draft>>
  BY DEF FreeGroupBegin
<1>3. free_group' = free_group /\ free_group' \in Seq(Nat)
  BY <1>1, <1>2
<1>4. GroupPages' = GroupPages
  BY <1>3 DEF GroupPages
<1>5. NoSpuriousNone' /\ outcome' \in [ok : BOOLEAN, need : Nat, oob : BOOLEAN]
  BY <1>2, Served
<1> QED
  BY <1>1, <1>2, <1>3, <1>4, <1>5, Outside

\* free_group_end: the deferred pages become free, each once.
LEMMA FreeGroupEndKeeps ==
  ASSUME AllocInv, saved = <<>>, FreeGroupEnd, backend' = backend
  PROVE  AllocInv'
<1> DEFINE own == Owned(rows)
<1>1. /\ Types
      /\ free_pages \in Seq(Pages) /\ release_pages \in Seq(Pages) /\ rows \in [Rows -> Seq(Nat)]
      /\ \A r \in Rows : Laid(rows[r], Table(rows[r]))
      /\ Parted(free_pages \o release_pages, GroupPages, own)
      /\ (~NeedSort => release_pages = <<>>) /\ (~in_group => free_group = <<>>)
  BY DEF AllocInv, PoolList, Types, Idle
<1>2. /\ in_group' = FALSE /\ free_group' = <<>> /\ outcome' = NoCall
      /\ IF free_group # <<>> THEN ReleaseSlots(free_group)
                              ELSE UNCHANGED <<free_pages, release_pages>>
      /\ UNCHANGED <<rows, saved, draft>>
  BY DEF FreeGroupEnd
<1>3. GroupPages' = {} /\ GroupPages = SlotPages(free_group)
  BY <1>2 DEF GroupPages, SlotPages
<1>4. /\ own \in [Rows -> SUBSET Pages] /\ GroupPages \subseteq Pages
      /\ GroupPages \cap Set(free_pages \o release_pages) = {}
      /\ \A r \in Rows : GroupPages \cap own[r] = {}
  BY <1>1 DEF Parted
<1> HIDE DEF own
<1>5. /\ free_pages' \in Seq(Pages) /\ release_pages' \in Seq(Pages)
      /\ ~NeedSort => release_pages' = <<>>
      /\ Parted(free_pages' \o release_pages', {}, own)
  <2>1. CASE free_group = <<>>
    <3>1. free_pages' = free_pages /\ release_pages' = release_pages
      BY <1>2, <2>1
    <3>2. GroupPages = {}
      BY <2>1 DEF GroupPages
    <3> QED
      BY <1>1, <3>1, <3>2
  <2>2. CASE free_group # <<>>
    <3>1. ReleaseSlots(free_group)
      BY <1>2, <2>2
    <3> DEFINE S == SlotPages(free_group)
    <3>2. /\ S \subseteq Pages /\ S \cap Set(free_pages \o release_pages) = {}
          /\ Parted(free_pages \o release_pages, S, own)
          /\ {} \subseteq S /\ S \cap {} = {} /\ S \subseteq {} \cup S
          /\ \A r \in Rows : own[r] \subseteq own[r] /\ S \cap own[r] = {} /\ own[r] \subseteq own[r] \cup S
      BY <1>1, <1>3, <1>4
    <3>3. /\ free_pages' \in Seq(Pages) /\ release_pages' \in Seq(Pages)
          /\ ~NeedSort => release_pages' = release_pages
          /\ Parted(free_pages' \o release_pages', {}, own)
      BY Zenon, <1>1, <1>4, <3>1, <3>2, ReleaseFacts
    <3> QED
      BY <1>1, <3>3
  <2> QED
    BY <2>1, <2>2
<1>6. NoSpuriousNone' /\ outcome' \in [ok : BOOLEAN, need : Nat, oob : BOOLEAN]
  BY <1>2, Served
<1>7. /\ rows' \in [Rows -> Seq(Nat)] /\ \A r \in Rows : Laid(rows'[r], Table(rows'[r]))
      /\ in_group' \in BOOLEAN /\ free_group' \in Seq(Nat) /\ (~in_group' => free_group' = <<>>)
      /\ UNCHANGED <<saved, draft, backend>>
  <2>1. rows' \in [Rows -> Seq(Nat)]
    BY <1>1, <1>2
  <2>2. \A r \in Rows : Laid(rows'[r], Table(rows'[r]))
    BY Zenon, <1>1, <1>2
  <2>3. in_group' \in BOOLEAN /\ free_group' \in Seq(Nat) /\ (~in_group' => free_group' = <<>>)
    <3>1. <<>> \in Seq(Nat) /\ FALSE \in BOOLEAN
      OBVIOUS
    <3> QED
      BY Zenon, <1>2, <3>1
  <2>4. UNCHANGED <<saved, draft, backend>>
    BY <1>2
  <2> QED
    BY <2>1, <2>2, <2>3, <2>4
<1>8. Parted(free_pages' \o release_pages', GroupPages', Owned(rows'))
  <2>1. Owned(rows') = own
    BY <1>2 DEF own
  <2> QED
    BY Zenon, <1>3, <1>5, <2>1
<1> QED
  BY <1>5, <1>6, <1>7, <1>8, Outside

\* Slots that continue the rows are in no row, and different rows get
\* different ones.
LEMMA ContinuedApart ==
  ASSUME NEW R \in [Rows -> Seq(Nat)], NEW E \in [Rows -> Seq(Nat)],
         NEW new, \A r \in Rows : new[r] = R[r] \o E[r] /\ Laid(new[r], Table(new[r])),
         \A q, r \in Rows : q # r => SlotPages(new[q]) \cap SlotPages(new[r]) = {},
         NEW q \in Rows, NEW r \in Rows
  PROVE  /\ Set(E[q]) \cap Set(R[r]) = {}
         /\ q # r => Set(E[q]) \cap Set(E[r]) = {}
<1>1. ASSUME NEW p \in Rows
      PROVE  /\ Len(R[p]) \in Nat /\ DOMAIN R[p] = 1 .. Len(R[p])
             /\ DOMAIN E[p] = 1 .. Len(E[p]) /\ Len(E[p]) \in Nat
             /\ Len(new[p]) = Len(R[p]) + Len(E[p]) /\ DOMAIN new[p] = 1 .. Len(new[p])
             /\ \A k \in DOMAIN R[p] : k \in DOMAIN new[p] /\ new[p][k] = R[p][k]
             /\ \A k \in DOMAIN E[p] : (Len(R[p]) + k) \in DOMAIN new[p]
                                       /\ new[p][Len(R[p]) + k] = E[p][k]
  <2> DEFINE a == R[p]
             b == E[p]
             c == new[p]
  <2>1. a \in Seq(Nat) /\ b \in Seq(Nat) /\ c = a \o b
    OBVIOUS
  <2> HIDE DEF a, b, c
  <2>2. /\ Len(a) \in Nat /\ DOMAIN a = 1 .. Len(a) /\ DOMAIN b = 1 .. Len(b) /\ Len(b) \in Nat
        /\ Len(c) = Len(a) + Len(b) /\ DOMAIN c = 1 .. Len(c)
    BY <2>1
  <2>3. \A k \in DOMAIN a : k \in DOMAIN c /\ c[k] = a[k]
    BY <2>1, <2>2
  <2>4. ASSUME NEW k \in DOMAIN b
        PROVE  (Len(a) + k) \in DOMAIN c /\ c[Len(a) + k] = b[k]
    <3>1. k \in 1 .. Len(b) /\ k \in Nat /\ Len(a) + k \in 1 .. Len(a) + Len(b) /\ Len(a) + k > Len(a)
      BY <2>2
    <3>2. Len(a) + k \in DOMAIN c
      BY <2>2, <3>1
    <3>3. c[Len(a) + k] = b[(Len(a) + k) - Len(a)]
      BY <2>1, <2>2, <3>1
    <3>4. (Len(a) + k) - Len(a) = k
      BY <2>2, <3>1
    <3> QED
      BY <3>2, <3>3, <3>4
  <2> QED
    BY Zenon, <2>2, <2>3, <2>4 DEF a, b, c
<1>2. ASSUME NEW p \in Rows, NEW k \in DOMAIN E[p]
      PROVE  PageOf(E[p][k]) \in SlotPages(new[p])
  BY Zenon, <1>1 DEF SlotPages
<1>3. ASSUME NEW p \in Rows, NEW k \in DOMAIN R[p]
      PROVE  PageOf(R[p][k]) \in SlotPages(new[p])
  BY Zenon, <1>1 DEF SlotPages
<1>4. ASSUME NEW k \in DOMAIN E[q], NEW j \in DOMAIN R[r], E[q][k] = R[r][j]
      PROVE  FALSE
  <2>1. CASE q # r
    <3>1. SlotPages(new[q]) \cap SlotPages(new[r]) = {}
      BY Zenon, <2>1
    <3>2. PageOf(E[q][k]) \in SlotPages(new[q]) /\ PageOf(R[r][j]) \in SlotPages(new[r])
      BY Zenon, <1>2, <1>3
    <3>3. PageOf(E[q][k]) = PageOf(R[r][j])
      BY <1>4
    <3> QED
      BY Zenon, <3>1, <3>2, <3>3
  <2>2. CASE q = r
    <3> DEFINE i == Len(R[q]) + k
    <3>1. i \in 1 .. Len(new[q]) /\ j \in 1 .. Len(new[q]) /\ new[q][i] = new[q][j]
      BY Zenon, <1>1, <1>4, <2>2
    <3>2. k \in Nat \ {0} /\ j <= Len(R[q]) /\ Len(R[q]) \in Nat /\ j \in Nat
      BY <1>1, <2>2
    <3> HIDE DEF i
    <3>3. Laid(new[q], Table(new[q]))
      OBVIOUS
    <3>4. i = j
      BY <3>1, <3>3, LaidLayout
    <3> QED
      BY <3>2, <3>4 DEF i
  <2> QED
    BY <2>1, <2>2
<1>5. ASSUME q # r, NEW k \in DOMAIN E[q], NEW j \in DOMAIN E[r], E[q][k] = E[r][j]
      PROVE  FALSE
  <2>1. SlotPages(new[q]) \cap SlotPages(new[r]) = {}
    BY Zenon, <1>5
  <2>2. PageOf(E[q][k]) \in SlotPages(new[q]) /\ PageOf(E[r][j]) \in SlotPages(new[r])
    BY Zenon, <1>2
  <2>3. PageOf(E[q][k]) = PageOf(E[r][j])
    BY <1>5
  <2> QED
    BY Zenon, <2>1, <2>2, <2>3
<1> QED
  BY <1>4, <1>5 DEF Set

\* The draft block continues the rows, on pages that no row has.
LEMMA DraftAllocKeeps ==
  ASSUME AllocInv, NEW ext \in [Rows -> 0 .. MaxExtend], DraftAlloc(ext), backend' = backend
  PROVE  AllocInv'
<1> DEFINE need == Needs(rows, ext)
           total == Total(need, Rows)
           tokens == Total(ext, Rows)
           bs == Cardinality({r \in Rows : ext[r] > 0})
           m == MergeExtend(tokens, bs, total)
           pages == FreeAfter(m)
           rel == ReleaseAfter(m)
           new == Extended(rows, ext, pages)
           rest == SubSeq(pages, total + 1, Len(pages))
           E == [r \in Rows |-> Extension(rows, ext, pages, r)]
<1>1. /\ saved = <<>> /\ ~in_group /\ total <= Len(pages)
      /\ saved' = <<free_pages, release_pages>>
      /\ free_pages' = rest /\ release_pages' = rel
      /\ outcome' = Returned(TRUE, total)
      /\ UNCHANGED <<in_group, free_group, rows>>
  BY Zenon DEF DraftAlloc, Needs, DraftStart
<1>2. draft' = E
  <2>1. \A r \in Rows : LastLoc(r, Len(rows[r])) = LastSlot(rows[r])
    BY DEF LastLoc, LastSlot
  <2>2. draft' = [r \in Rows |->
                    ExtendSlots(pages, Len(rows[r]), Len(rows[r]) + ext[r],
                                LastLoc(r, Len(rows[r])), StartPage(need, r))]
    BY Zenon DEF DraftAlloc, Needs, DraftStart
  <2> HIDE DEF pages
  <2> QED
    BY Zenon, <2>1, <2>2 DEF Extension
<1>3. /\ Types /\ Idle /\ rows \in [Rows -> Seq(Nat)] /\ \A r \in Rows : Laid(rows[r], Table(rows[r]))
      /\ Parted(free_pages \o release_pages, GroupPages, Owned(rows))
      /\ free_pages \in Seq(Pages) /\ release_pages \in Seq(Pages)
      /\ free_group \in Seq(Nat) /\ in_group \in BOOLEAN
      /\ (~NeedSort => release_pages = <<>>) /\ (~in_group => free_group = <<>>)
  BY <1>1 DEF AllocInv, PoolList, Types, Idle
<1>4. ext \in [Rows -> Nat]
  BY Constants
<1>5. total \in Nat
  BY <1>3, <1>4, NeedsFacts
<1>6. /\ rest \in Seq(Pages) /\ rel \in Seq(Pages) /\ (~NeedSort => rel = <<>>)
      /\ new \in [Rows -> Seq(Nat)]
      /\ \A r \in Rows : Extension(rows, ext, pages, r) \in Seq(Nat)
      /\ \A r \in Rows : Laid(new[r], Table(new[r]))
      /\ Parted(rest \o rel, GroupPages, Owned(new))
  BY Zenon, <1>1, <1>4, Allocation
<1>7. E \in [Rows -> Seq(Nat)] /\ \A r \in Rows : E[r] = Extension(rows, ext, pages, r)
  BY Zenon, <1>6
<1>8. \A r \in Rows : new[r] = rows[r] \o E[r]
  <2> HIDE DEF pages
  <2> QED
    BY Zenon, <1>7 DEF Extended
<1>9. \A q, r \in Rows : q # r => SlotPages(new[q]) \cap SlotPages(new[r]) = {}
  <2> HIDE DEF new
  <2>1. \A q, r \in Rows : q # r => Owned(new)[q] \cap Owned(new)[r] = {}
    BY Zenon, <1>6 DEF Parted
  <2> QED
    BY Zenon, <2>1 DEF Owned
<1> HIDE DEF total, tokens, bs, m, pages, rel, new, rest, E
<1>10. ASSUME NEW q \in Rows, NEW r \in Rows
       PROVE  /\ Set(E[q]) \cap Set(rows[r]) = {}
              /\ q # r => Set(E[q]) \cap Set(E[r]) = {}
  <2>1. \A p \in Rows : new[p] = rows[p] \o E[p] /\ Laid(new[p], Table(new[p]))
    BY Zenon, <1>6, <1>8
  <2>2. rows \in [Rows -> Seq(Nat)] /\ E \in [Rows -> Seq(Nat)]
    BY Zenon, <1>3, <1>7
  <2> QED
    BY <1>9, <2>1, <2>2, ContinuedApart
<1>11. DraftBlockPrivate'
  <2>1. rows' = rows /\ draft' = E
    BY <1>1, <1>2
  <2>2. \A q, r \in Rows : /\ Set(draft'[q]) \cap Set(rows'[r]) = {}
                           /\ q # r => Set(draft'[q]) \cap Set(draft'[r]) = {}
    BY Zenon, <1>10, <2>1
  <2> QED
    BY Zenon, <2>2 DEF DraftBlockPrivate, Set
<1>12. saved' \in Seq(Pages) \X Seq(Pages) /\ saved'[1] = free_pages /\ saved'[2] = release_pages
       /\ saved' # <<>>
  BY <1>1, <1>3
<1>13. PoolList' = free_pages \o release_pages /\ GroupPages' = GroupPages
  BY <1>1, <1>12 DEF PoolList, GroupPages
<1>14. NoSpuriousNone' /\ outcome' \in [ok : BOOLEAN, need : Nat, oob : BOOLEAN]
  BY <1>1, <1>5, Served
<1>15. Types'
  <2>1. backend' \in {"cuda", "npu"}
    BY <1>3 DEF Types
  <2>2. /\ free_pages' \in Seq(Pages) /\ release_pages' \in Seq(Pages) /\ in_group' \in BOOLEAN
        /\ free_group' \in Seq(Nat) /\ rows' \in [Rows -> Seq(Nat)] /\ draft' \in [Rows -> Seq(Nat)]
    BY Zenon, <1>1, <1>2, <1>3, <1>6, <1>7
  <2> QED
    BY Zenon, <1>12, <1>14, <2>1, <2>2 DEF Types
<1>16. Idle'
  BY <1>1, <1>3, <1>6, <1>12 DEF Idle
<1>17. (\A r \in Rows : Laid(rows'[r], Table(rows'[r]))) /\ Owned(rows') = Owned(rows)
  BY <1>1, <1>3
<1>18. Parted(PoolList', GroupPages', Owned(rows'))
  BY Zenon, <1>3, <1>13, <1>17
<1> QED
  BY Zenon, <1>11, <1>14, <1>15, <1>16, <1>17, <1>18 DEF AllocInv

\* restore_state: the lists are those of before the block.
LEMMA DraftRestoreKeeps ==
  ASSUME AllocInv, DraftRestore, backend' = backend
  PROVE  AllocInv'
<1>1. /\ saved # <<>> /\ free_pages' = saved[1] /\ release_pages' = saved[2] /\ saved' = <<>>
      /\ draft' = [r \in Rows |-> <<>>] /\ outcome' = NoCall
      /\ UNCHANGED <<in_group, free_group, rows>>
  BY DEF DraftRestore
<1>2. /\ Types /\ Idle /\ rows \in [Rows -> Seq(Nat)] /\ \A r \in Rows : Laid(rows[r], Table(rows[r]))
      /\ Parted(saved[1] \o saved[2], GroupPages, Owned(rows))
      /\ saved \in Seq(Pages) \X Seq(Pages)
      /\ free_group \in Seq(Nat) /\ in_group \in BOOLEAN
      /\ (~NeedSort => saved[2] = <<>>) /\ (~in_group => free_group = <<>>)
  BY <1>1 DEF AllocInv, PoolList, Types, Idle
<1>3. PoolList' = saved[1] \o saved[2] /\ GroupPages' = GroupPages /\ Owned(rows') = Owned(rows)
  BY <1>1 DEF PoolList, GroupPages
<1>4. \A r \in Rows : draft'[r] = <<>>
  BY <1>1
<1>5. DraftBlockPrivate'
  BY <1>4 DEF DraftBlockPrivate
<1>6. NoSpuriousNone' /\ outcome' \in [ok : BOOLEAN, need : Nat, oob : BOOLEAN]
  BY <1>1, Served
<1>7. Types'
  <2>1. backend' \in {"cuda", "npu"}
    BY <1>2 DEF Types
  <2>2. <<>> \in Seq(Nat)
    OBVIOUS
  <2>3. draft' \in [Rows -> Seq(Nat)]
    BY <1>1, <2>2
  <2>4. free_pages' \in Seq(Pages) /\ release_pages' \in Seq(Pages)
    BY <1>1, <1>2
  <2>5. in_group' \in BOOLEAN /\ free_group' \in Seq(Nat) /\ rows' \in [Rows -> Seq(Nat)]
    BY <1>1, <1>2
  <2> QED
    BY Zenon, <1>1, <1>6, <2>1, <2>3, <2>4, <2>5 DEF Types
<1>8. Idle'
  BY <1>1, <1>2, <1>4 DEF Idle
<1>9. \A r \in Rows : Laid(rows'[r], Table(rows'[r]))
  BY <1>1, <1>2
<1>10. Parted(PoolList', GroupPages', Owned(rows'))
  BY Zenon, <1>2, <1>3
<1> QED
  BY Zenon, <1>5, <1>6, <1>7, <1>8, <1>9, <1>10 DEF AllocInv

\* Nothing changes.
LEMMA StutterKeeps ==
  ASSUME AllocInv, UNCHANGED vars
  PROVE  AllocInv'
<1>1. UNCHANGED <<backend, free_pages, release_pages, in_group, free_group, rows, saved, draft, outcome>>
  BY DEF vars
<1>2. Types' /\ Idle'
  BY <1>1 DEF AllocInv, Types, Idle
<1>3. PoolList' = PoolList /\ GroupPages' = GroupPages /\ Owned(rows') = Owned(rows)
  BY <1>1 DEF PoolList, GroupPages
<1>4. NoSpuriousNone'
  BY <1>1 DEF AllocInv, NoSpuriousNone
<1>5. DraftBlockPrivate'
  <2>1. draft' = draft /\ rows' = rows /\ DraftBlockPrivate
    BY <1>1 DEF AllocInv
  <2>2. \A q, r \in Rows : /\ Set(draft[q]) \cap Set(rows[r]) = {}
                           /\ q # r => Set(draft[q]) \cap Set(draft[r]) = {}
    BY Zenon, <2>1 DEF DraftBlockPrivate, Set
  <2>3. \A q, r \in Rows : /\ Set(draft'[q]) \cap Set(rows'[r]) = {}
                           /\ q # r => Set(draft'[q]) \cap Set(draft'[r]) = {}
    BY Zenon, <2>1, <2>2
  <2> QED
    BY Zenon, <2>3 DEF DraftBlockPrivate, Set
<1>6. \A r \in Rows : Laid(rows'[r], Table(rows'[r]))
  BY <1>1 DEF AllocInv
<1> QED
  BY Zenon, <1>2, <1>3, <1>4, <1>5, <1>6 DEF AllocInv

\* clear(): all pages are free.
LEMMA InitAllocInv ==
  ASSUME Init
  PROVE  AllocInv
<1>1. /\ backend \in Backends /\ free_pages = [i \in 1 .. NumPages |-> i] /\ release_pages = <<>>
      /\ in_group = FALSE /\ free_group = <<>> /\ rows = [r \in Rows |-> <<>>] /\ saved = <<>>
      /\ draft = [r \in Rows |-> <<>>] /\ outcome = NoCall
  BY DEF Init
<1>2. free_pages \in Seq(Pages) /\ Len(free_pages) = NumPages /\ DOMAIN free_pages = 1 .. NumPages
      /\ \A i \in 1 .. NumPages : free_pages[i] = i
  BY <1>1, Constants DEF Pages
<1>3. <<>> \in Seq(Nat) /\ <<>> \in Seq(Pages) /\ Len(<<>>) = 0 /\ DOMAIN <<>> = {}
  OBVIOUS
<1>4. Types
  <2>1. backend \in {"cuda", "npu"}
    BY <1>1, Constants
  <2>2. rows \in [Rows -> Seq(Nat)] /\ draft \in [Rows -> Seq(Nat)]
    BY <1>1, <1>3
  <2>3. outcome \in [ok : BOOLEAN, need : Nat, oob : BOOLEAN]
    BY <1>1 DEF NoCall, Returned
  <2>4. in_group \in BOOLEAN /\ free_group \in Seq(Nat) /\ release_pages \in Seq(Pages)
    BY <1>1, <1>3
  <2> QED
    BY Zenon, <1>1, <1>2, <2>1, <2>2, <2>3, <2>4 DEF Types
<1>5. Idle
  BY <1>1 DEF Idle
<1>6. Table(<<>>) = <<>>
  <2>1. CeilDiv(Len(<<>>), PageSize) = 0
    BY <1>3, CeilFacts
  <2>2. \A s : CeilDiv(Len(s), PageSize) = 0 =>
               Table(s) = [b \in 1 .. 0 |-> PageOf(s[(b - 1) * PageSize + 1])]
    BY Zenon DEF Table
  <2>3. 1 .. 0 = {}
    OBVIOUS
  <2>4. \A s : [b \in {} |-> PageOf(s[(b - 1) * PageSize + 1])] = <<>>
    OBVIOUS
  <2> QED
    BY <2>1, <2>2, <2>3, <2>4
<1>7. Laid(<<>>, Table(<<>>))
  <2>1. CeilDiv(0, PageSize) = 0
    BY CeilFacts
  <2>2. IsInjective(<<>>)
    BY <1>3 DEF IsInjective
  <2>3. \A i \in 1 .. Len(<<>>) :
          <<>>[i] = <<>>[(i - 1) \div PageSize + 1] * PageSize + ((i - 1) % PageSize)
    BY <1>3
  <2> QED
    BY Zenon, <1>3, <1>6, <2>1, <2>2, <2>3 DEF Laid
<1>8. \A r \in Rows : Laid(rows[r], Table(rows[r]))
  <2>1. \A r \in Rows : rows[r] = <<>>
    BY <1>1
  <2> QED
    BY Zenon, <1>7, <2>1
<1>9. Parted(PoolList, GroupPages, Owned(rows))
  <2>1. PoolList = free_pages
    BY <1>1, <1>2 DEF PoolList
  <2>2. GroupPages = {} /\ SlotPages(<<>>) = {}
    BY <1>1, <1>3 DEF GroupPages, SlotPages
  <2>3. Owned(rows) = [r \in Rows |-> {}]
    <3>1. \A r \in Rows : rows[r] = <<>>
      BY <1>1
    <3> QED
      BY Zenon, <2>2, <3>1 DEF Owned
  <2>4. IsInjective(free_pages)
    BY <1>2 DEF IsInjective
  <2>5. Set(free_pages) = Pages
    BY <1>2 DEF Set, Pages
  <2>6. Parted(free_pages, {}, [r \in Rows |-> {}])
    BY <1>2, <2>4, <2>5 DEF Parted
  <2> QED
    BY Zenon, <2>1, <2>2, <2>3, <2>6
<1>10. NoSpuriousNone
  BY <1>1 DEF NoSpuriousNone, NoCall, Returned
<1>11. DraftBlockPrivate
  BY <1>1, <1>3 DEF DraftBlockPrivate
<1> QED
  BY Zenon, <1>4, <1>5, <1>8, <1>9, <1>10, <1>11 DEF AllocInv

\* The inductive invariant holds in every reachable state.
THEOREM AllocInvHolds == Spec => []AllocInv
<1>1. Init => AllocInv
  BY InitAllocInv
<1>2. AllocInv /\ [Next]_vars => AllocInv'
  <2> SUFFICES ASSUME AllocInv, [Next]_vars PROVE AllocInv'
    OBVIOUS
  <2>1. CASE UNCHANGED vars
    BY <2>1, StutterKeeps
  <2>2. CASE Next
    <3>1. Step /\ backend' = backend
      BY <2>2 DEF Next
    <3>2. ASSUME saved = <<>>, NEW ext \in [Rows -> 0 .. MaxExtend], AllocExtend(ext)
          PROVE  AllocInv'
      BY <3>1, <3>2, AllocExtendKeeps
    <3>3. ASSUME saved = <<>>, NEW batch \in SUBSET Rows, AllocDecode(batch)
          PROVE  AllocInv'
      BY <3>1, <3>3, AllocDecodeKeeps
    <3>4. ASSUME saved = <<>>, NEW r \in Rows, NEW keep \in 0 .. MaxLen, Free(r, keep)
          PROVE  AllocInv'
      BY <3>1, <3>4, FreeKeeps
    <3>5. CASE saved = <<>> /\ FreeGroupBegin
      BY <3>1, <3>5, FreeGroupBeginKeeps
    <3>6. CASE saved = <<>> /\ FreeGroupEnd
      BY <3>1, <3>6, FreeGroupEndKeeps
    <3>7. ASSUME NEW ext \in [Rows -> 0 .. MaxExtend], DraftAlloc(ext)
          PROVE  AllocInv'
      BY <3>1, <3>7, DraftAllocKeeps
    <3>8. CASE DraftRestore
      BY <3>1, <3>8, DraftRestoreKeeps
    <3> QED
      BY Zenon, <3>1, <3>2, <3>3, <3>4, <3>5, <3>6, <3>7, <3>8 DEF Step
  <2> QED
    BY <2>1, <2>2
<1> QED
  BY <1>1, <1>2, PTL DEF Spec

-----------------------------------------------------------------------------
(* The invariants the runs check.                                          *)

\* One place out of three.
LEMMA OneAndNone == 1 + 0 + 0 = 1 /\ 0 + 1 + 0 = 1 /\ 0 + 0 + 1 = 1
OBVIOUS

\* A page of the partition has one owner.
LEMMA OneOwner ==
  ASSUME NEW pool, NEW group, NEW own, Parted(pool, group, own), NEW p \in Pages
  PROVE  Cardinality({i \in DOMAIN pool : pool[i] = p}) + (IF p \in group THEN 1 ELSE 0)
         + Cardinality({r \in Rows : p \in own[r]}) = 1
<1> DEFINE I == {i \in DOMAIN pool : pool[i] = p}
           R == {r \in Rows : p \in own[r]}
<1>1. /\ IsInjective(pool) /\ Set(pool) \cap group = {}
      /\ \A r \in Rows : own[r] \cap Set(pool) = {} /\ own[r] \cap group = {}
      /\ \A q, r \in Rows : q # r => own[q] \cap own[r] = {}
      /\ p \in Set(pool) \/ p \in group \/ \E r \in Rows : p \in own[r]
  BY DEF Parted
<1>2. Cardinality({}) = 0 /\ \A x : Cardinality({x}) = 1
  BY FS_EmptySet, FS_Singleton
<1> DEFINE g == IF p \in group THEN 1 ELSE 0
<1>3. CASE p \in Set(pool)
  <2>1. PICK i \in DOMAIN pool : pool[i] = p
    BY <1>3 DEF Set
  <2>2. I = {i}
    BY <1>1, <2>1 DEF IsInjective
  <2>3. R = {} /\ p \notin group
    BY <1>1, <1>3
  <2>4. Cardinality(I) = 1 /\ Cardinality(R) = 0 /\ g = 0
    BY Zenon, <1>2, <2>2, <2>3
  <2> HIDE DEF I, R, g
  <2> QED
    BY Zenon, <2>4, OneAndNone DEF I, R, g
<1>4. CASE p \notin Set(pool)
  <2>1. I = {}
    BY <1>4 DEF Set
  <2>2. CASE p \in group
    <3>1. R = {}
      BY <1>1, <2>2
    <3>2. Cardinality(I) = 0 /\ Cardinality(R) = 0 /\ g = 1
      BY Zenon, <1>2, <2>1, <2>2, <3>1
    <3> HIDE DEF I, R, g
    <3> QED
      BY Zenon, <3>2, OneAndNone DEF I, R, g
  <2>3. CASE p \notin group
    <3>1. PICK r \in Rows : p \in own[r]
      BY <1>1, <1>4, <2>3
    <3>2. R = {r}
      BY <1>1, <3>1
    <3>3. Cardinality(I) = 0 /\ Cardinality(R) = 1 /\ g = 0
      BY Zenon, <1>2, <2>1, <2>3, <3>2
    <3> HIDE DEF I, R, g
    <3> QED
      BY Zenon, <3>3, OneAndNone DEF I, R, g
  <2> QED
    BY <2>2, <2>3
<1> QED
  BY <1>3, <1>4

\* Every page of the pool is in one place (free(), alloc_extend, alloc_decode,
\* merge_and_sort_free and the free group move pages, and lose or double none).
THEOREM PageConservationHolds == Spec => []PageConservation
<1>1. AllocInv => PageConservation
  <2> SUFFICES ASSUME AllocInv PROVE PageConservation
    OBVIOUS
  <2>1. Types /\ Parted(PoolList, GroupPages, Owned(rows))
    BY DEF AllocInv
  <2>2. TypeOK
    BY <2>1 DEF Types, TypeOK
  <2>3. \A r \in Rows : Owned(rows)[r] = RowPages(r)
    BY DEF Owned, SlotPages, RowPages
  <2>4. ASSUME NEW p \in Pages
        PROVE  Cardinality({i \in DOMAIN PoolList : PoolList[i] = p})
               + (IF p \in GroupPages THEN 1 ELSE 0)
               + Cardinality({r \in Rows : p \in RowPages(r)}) = 1
    <3>1. {r \in Rows : p \in RowPages(r)} = {r \in Rows : p \in Owned(rows)[r]}
      BY <2>3
    <3>2. Cardinality({i \in DOMAIN PoolList : PoolList[i] = p})
          + (IF p \in GroupPages THEN 1 ELSE 0)
          + Cardinality({r \in Rows : p \in Owned(rows)[r]}) = 1
      BY <2>1, OneOwner
    <3> QED
      BY Zenon, <3>1, <3>2
  <2> QED
    BY Zenon, <2>2, <2>4 DEF PageConservation
<1> QED
  BY <1>1, AllocInvHolds, PTL

\* Position k of a row sits at offset k % page_size of a page of its block
\* (alloc_extend_kernel, alloc_decode_kernel).
THEOREM RowLayoutHolds == Spec => []RowLayout
<1>1. AllocInv => RowLayout
  <2> SUFFICES ASSUME AllocInv, NEW r \in Rows, NEW i \in DOMAIN rows[r], NEW j \in DOMAIN rows[r]
               PROVE  /\ rows[r][i] % PageSize = (i - 1) % PageSize
                      /\ (PageOf(rows[r][i]) = PageOf(rows[r][j]))
                           <=> ((i - 1) \div PageSize = (j - 1) \div PageSize)
    BY DEF RowLayout
  <2> DEFINE s == rows[r]
  <2>1. Laid(s, Table(s)) /\ DOMAIN s = 1 .. Len(s)
    BY DEF AllocInv, Laid
  <2> QED
    BY Zenon, <2>1, LaidLayout
<1> QED
  BY <1>1, AllocInvHolds, PTL

\* None is returned only when the pool has too few pages, those waiting in
\* release_pages included (the merge conditions of alloc_extend, alloc_decode).
THEOREM NoSpuriousNoneHolds == Spec => []NoSpuriousNone
<1>1. AllocInv => NoSpuriousNone
  BY DEF AllocInv
<1> QED
  BY <1>1, AllocInvHolds, PTL

\* The slots of a draft block are in no row (alloc_extend between backup_state
\* and restore_state).
THEOREM DraftBlockPrivateHolds == Spec => []DraftBlockPrivate
<1>1. AllocInv => DraftBlockPrivate
  BY DEF AllocInv
<1> QED
  BY <1>1, AllocInvHolds, PTL
=============================================================================
