-------------------------- MODULE RadixTreeProofs --------------------------
(***************************************************************************)
(* Proofs about RadixTree: the tree stays a radix tree with exact locks,    *)
(* sizes, leaves and events, for all texts, page sizes and pools.           *)
(***************************************************************************)
EXTENDS RadixTree, CollectionProofs

-----------------------------------------------------------------------------
(* Names of nodes: token paths of whole pages.                             *)

Tok == {Text[r][i] : r \in Req, i \in Nat}
Name == {n \in Seq(Tok) : Len(n) % PageSize = 0}

\* The first k pages of a path.
Cut(n, k) == SubSeq(n, 1, k * PageSize)

\* m is n up to one of its pages.
Pre(m, n) == Pages(m) <= Pages(n) /\ \A i \in 1 .. Pages(m) : Block(m, i) = Block(n, i)

\* The length of a name is a multiple of the page size.
LEMMA NameLen ==
  ASSUME NEW n \in Name
  PROVE  /\ Pages(n) \in Nat /\ Len(n) \in Nat /\ Len(n) = Pages(n) * PageSize
         /\ n \in Seq(Tok) /\ DOMAIN n = 1 .. Len(n)
<1>1. PageSize \in Nat \ {0} /\ n \in Seq(Tok) /\ Len(n) % PageSize = 0 /\ Len(n) \in Nat
  BY TreeAssumption DEF Name
<1>2. Pages(n) \in Nat /\ Len(n) = Pages(n) * PageSize + (Len(n) % PageSize)
  BY <1>1, Division DEF Pages
<1>3. Pages(n) * PageSize \in Nat
  BY <1>1, <1>2
<1> QED
  BY <1>1, <1>2, <1>3

\* A sequence of k pages is a name of k pages.
LEMMA NameOf ==
  ASSUME NEW n \in Seq(Tok), NEW k \in Nat, Len(n) = k * PageSize
  PROVE  n \in Name /\ Pages(n) = k
<1>1. PageSize \in Nat \ {0} /\ Len(n) \in Nat /\ 0 \in 0 .. PageSize - 1
  BY TreeAssumption
<1>2. Len(n) = k * PageSize + 0
  BY <1>1
<1>3. Len(n) \div PageSize = k /\ Len(n) % PageSize = 0
  <2>1. \A q \in Int, m \in 0 .. PageSize - 1 :
          Len(n) = q * PageSize + m => Len(n) \div PageSize = q /\ Len(n) % PageSize = m
    BY Zenon, <1>1, Division
  <2>2. k \in Int
    OBVIOUS
  <2> QED
    BY Zenon, <1>1, <1>2, <2>1, <2>2
<1> QED
  BY <1>3 DEF Name, Pages

\* The key of the first k pages of a request.
LEMMA PathName ==
  ASSUME NEW r \in Req, NEW k \in Nat
  PROVE  Path(r, k) \in Name /\ Pages(Path(r, k)) = k
<1>1. PageSize \in Nat \ {0} /\ k * PageSize \in Nat
  BY TreeAssumption
<1> DEFINE N == k * PageSize
           p == SubSeq(Text[r], 1, N)
<1>2. N \in Nat
  BY <1>1
<1> HIDE DEF N
<1>3. p = [i \in 1 .. N |-> Text[r][i]]
  BY <1>2
<1>4. \A i \in 1 .. N : Text[r][i] \in Tok
  BY <1>2 DEF Tok
<1>5. p \in [1 .. N -> Tok]
  BY <1>3, <1>4
<1> HIDE DEF p
<1>6. p \in Seq(Tok) /\ Len(p) = N
  BY <1>2, <1>5, SeqOfMap
<1> QED
  BY <1>6, NameOf DEF p, Path, N

\* The empty path.
LEMMA RootName ==
  Root \in Name /\ Pages(Root) = 0 /\ Len(Root) = 0
<1>1. PageSize \in Nat /\ 0 * PageSize = 0
  BY TreeAssumption
<1>2. Root \in Seq(Tok) /\ Len(Root) = 0 /\ 0 \in Nat
  BY DEF Root
<1>3. Len(Root) = 0 * PageSize
  BY Zenon, <1>1, <1>2
<1> QED
  BY Zenon, <1>2, <1>3, NameOf

\* The page i of a name, token by token.
LEMMA BlockAt ==
  ASSUME NEW n, NEW i \in Nat \ {0}
  PROVE  /\ (i - 1) * PageSize \in Nat /\ i * PageSize = (i - 1) * PageSize + PageSize
         /\ Block(n, i) = [j \in 1 .. PageSize |-> n[(i - 1) * PageSize + j]]
<1>1. PageSize \in Nat \ {0} /\ i - 1 \in Nat
  BY TreeAssumption
<1> DEFINE a == (i - 1) * PageSize
<1>2. a \in Nat /\ i * PageSize = a + PageSize
  BY <1>1
<1> HIDE DEF a
<1>3. SubSeq(n, a + 1, a + PageSize) = [j \in 1 .. PageSize |-> n[a + j]]
  BY <1>1, <1>2
<1>4. Block(n, i) = SubSeq(n, a + 1, a + PageSize)
  BY <1>2 DEF Block, a
<1> QED
  BY <1>2, <1>3, <1>4 DEF a

\* Where token j is: its page and its place in it.
LEMMA TokenPlace ==
  ASSUME NEW k \in Nat, NEW j \in 1 .. k * PageSize
  PROVE  \E i \in 1 .. k, q \in 1 .. PageSize : j = (i - 1) * PageSize + q
<1>1. PageSize \in Nat \ {0} /\ k * PageSize \in Nat /\ j - 1 \in Nat
  BY TreeAssumption
<1> DEFINE d == (j - 1) \div PageSize
           e == (j - 1) % PageSize
<1>2. d \in Nat /\ e \in 0 .. PageSize - 1 /\ j - 1 = d * PageSize + e
  BY <1>1, Division
<1> HIDE DEF d, e
<1>3. d < k
  <2>1. SUFFICES ASSUME k <= d PROVE FALSE
    BY <1>2
  <2>2. k * PageSize <= d * PageSize /\ d * PageSize \in Int
    BY <1>1, <1>2, <2>1, Scale
  <2> QED
    BY <1>1, <1>2, <2>2
<1>4. d + 1 \in 1 .. k /\ e + 1 \in 1 .. PageSize /\ (d + 1) - 1 = d /\ d * PageSize \in Nat
  BY <1>1, <1>2, <1>3
<1>5. j = ((d + 1) - 1) * PageSize + (e + 1)
  BY <1>1, <1>2, <1>4
<1> QED
  BY <1>4, <1>5

\* Token q of page i is one of the first i pages.
LEMMA PlaceToken ==
  ASSUME NEW k \in Nat, NEW i \in 1 .. k, NEW q \in 1 .. PageSize
  PROVE  (i - 1) * PageSize + q \in 1 .. k * PageSize
<1>1. PageSize \in Nat \ {0} /\ i \in Nat \ {0} /\ i <= k
  BY TreeAssumption
<1>2. i * PageSize <= k * PageSize /\ k * PageSize \in Int
  BY <1>1, Scale
<1>3. (i - 1) * PageSize \in Nat /\ i * PageSize = (i - 1) * PageSize + PageSize
  BY <1>1, BlockAt
<1> QED
  BY <1>1, <1>2, <1>3

\* Two paths have the same first k pages iff they have the same tokens there.
LEMMA SameBlocks ==
  ASSUME NEW m, NEW n, NEW k \in Nat
  PROVE  (\A i \in 1 .. k : Block(m, i) = Block(n, i))
           <=> (\A j \in 1 .. k * PageSize : m[j] = n[j])
<1>0. PageSize \in Nat \ {0}
  BY TreeAssumption
<1>1. ASSUME \A i \in 1 .. k : Block(m, i) = Block(n, i), NEW j \in 1 .. k * PageSize
      PROVE  m[j] = n[j]
  <2>1. PICK i \in 1 .. k, q \in 1 .. PageSize : j = (i - 1) * PageSize + q
    BY TokenPlace
  <2>2. Block(m, i)[q] = Block(n, i)[q]
    BY <1>1
  <2>3. Block(m, i) = [x \in 1 .. PageSize |-> m[(i - 1) * PageSize + x]]
    BY <2>1, BlockAt
  <2>4. Block(n, i) = [x \in 1 .. PageSize |-> n[(i - 1) * PageSize + x]]
    BY <2>1, BlockAt
  <2> QED
    BY Zenon, <2>1, <2>2, <2>3, <2>4
<1>2. ASSUME \A j \in 1 .. k * PageSize : m[j] = n[j], NEW i \in 1 .. k
      PROVE  Block(m, i) = Block(n, i)
  <2>1. \A x \in 1 .. PageSize : m[(i - 1) * PageSize + x] = n[(i - 1) * PageSize + x]
    BY <1>2, PlaceToken
  <2>2. Block(m, i) = [x \in 1 .. PageSize |-> m[(i - 1) * PageSize + x]]
    BY BlockAt
  <2>3. Block(n, i) = [x \in 1 .. PageSize |-> n[(i - 1) * PageSize + x]]
    BY BlockAt
  <2> QED
    BY Zenon, <2>1, <2>2, <2>3
<1> QED
  BY Zenon, <1>1, <1>2

\* A name that is a prefix up to a page is a prefix of the token sequence.
LEMMA PreIsPrefix ==
  ASSUME NEW m \in Name, NEW n \in Name
  PROVE  Pre(m, n) <=> Len(m) <= Len(n) /\ SubSeq(n, 1, Len(m)) = m
<1>0. /\ PageSize \in Nat \ {0}
      /\ Pages(m) \in Nat /\ Len(m) \in Nat /\ Len(m) = Pages(m) * PageSize
      /\ Pages(n) \in Nat /\ Len(n) \in Nat /\ Len(n) = Pages(n) * PageSize
      /\ m \in Seq(Tok) /\ n \in Seq(Tok)
  BY TreeAssumption, NameLen
<1>1. Pages(m) <= Pages(n) <=> Len(m) <= Len(n)
  <2>1. Pages(m) <= Pages(n) => Len(m) <= Len(n)
    BY <1>0, Scale
  <2>2. Pages(n) < Pages(m) => Len(n) < Len(m)
    BY <1>0, ScaleStrictly
  <2> QED
    BY <1>0, <2>1, <2>2
<1>2. (\A i \in 1 .. Pages(m) : Block(m, i) = Block(n, i)) <=> (\A j \in 1 .. Len(m) : m[j] = n[j])
  <2> DEFINE N == Pages(m) * PageSize
  <2>1. (\A i \in 1 .. Pages(m) : Block(m, i) = Block(n, i)) <=> (\A j \in 1 .. N : m[j] = n[j])
    BY Zenon, <1>0, SameBlocks
  <2>2. Len(m) = N
    BY <1>0
  <2> HIDE DEF N
  <2> QED
    BY Zenon, <2>1, <2>2
<1>3. Len(m) <= Len(n) => (SubSeq(n, 1, Len(m)) = m <=> \A j \in 1 .. Len(m) : m[j] = n[j])
  <2>1. SubSeq(n, 1, Len(m)) = [j \in 1 .. Len(m) |-> n[j]]
    BY <1>0
  <2>2. m = [j \in 1 .. Len(m) |-> m[j]]
    BY <1>0
  <2> DEFINE N == Len(m)
  <2> HIDE DEF N
  <2>3. [j \in 1 .. N |-> n[j]] = [j \in 1 .. N |-> m[j]] <=> \A j \in 1 .. N : m[j] = n[j]
    <3>1. ASSUME [j \in 1 .. N |-> n[j]] = [j \in 1 .. N |-> m[j]], NEW j \in 1 .. N PROVE m[j] = n[j]
      <4>1. [x \in 1 .. N |-> n[x]][j] = [x \in 1 .. N |-> m[x]][j]
        BY Zenon, <3>1
      <4> QED
        BY Zenon, <4>1
    <3> QED
      BY Zenon, <3>1
  <2> QED
    BY Zenon, <2>1, <2>2, <2>3 DEF N
<1> QED
  BY Zenon, <1>1, <1>2, <1>3 DEF Pre

\* A name is determined by its pages.
LEMMA PreSame ==
  ASSUME NEW m \in Name, NEW n \in Name, Pre(m, n), Pages(n) <= Pages(m)
  PROVE  m = n
<1>1. /\ Pages(m) \in Nat /\ Len(m) = Pages(m) * PageSize
      /\ Pages(n) \in Nat /\ Len(n) = Pages(n) * PageSize
      /\ n \in Seq(Tok) /\ Len(n) \in Nat
  BY NameLen
<1>2. Pages(m) = Pages(n)
  BY <1>1 DEF Pre
<1>3. Len(m) = Len(n)
  BY <1>1, <1>2
<1>4. SubSeq(n, 1, Len(n)) = m
  BY <1>3, PreIsPrefix
<1>5. SubSeq(n, 1, Len(n)) = n
  BY <1>1
<1> QED
  BY <1>4, <1>5

\* Prefixes of one name: the shorter is a prefix of the longer.
LEMMA PreFacts ==
  ASSUME NEW m \in Name, NEW n \in Name
  PROVE  /\ Pages(m) \in Nat /\ Pages(n) \in Nat
         /\ Pre(m, m) /\ Pre(Root, m)
         /\ \A x \in Name : Pre(m, n) /\ Pre(n, x) => Pre(m, x)
         /\ \A x \in Name : Pre(m, x) /\ Pre(n, x) /\ Pages(m) <= Pages(n) => Pre(m, n)
         /\ Pre(m, n) /\ Pages(m) = Pages(n) => m = n
<1>1. Pages(m) \in Nat /\ Pages(n) \in Nat /\ Pages(Root) = 0 /\ \A x \in Name : Pages(x) \in Nat
  BY NameLen, RootName
<1>2. Pre(m, m) /\ Pre(Root, m)
  BY <1>1 DEF Pre
<1>3. ASSUME NEW x \in Name, Pre(m, n), Pre(n, x) PROVE Pre(m, x)
  BY <1>1, <1>3 DEF Pre
<1>4. ASSUME NEW x \in Name, Pre(m, x), Pre(n, x), Pages(m) <= Pages(n) PROVE Pre(m, n)
  BY <1>1, <1>4 DEF Pre
<1>5. Pre(m, n) /\ Pages(m) = Pages(n) => m = n
  BY <1>1, PreSame
<1> QED
  BY Zenon, <1>1, <1>2, <1>3, <1>4, <1>5

\* Cutting a name.
LEMMA CutFacts ==
  ASSUME NEW n \in Name, NEW k \in 0 .. Pages(n)
  PROVE  /\ Cut(n, k) \in Name /\ Pages(Cut(n, k)) = k /\ Pre(Cut(n, k), n)
         /\ Len(Cut(n, k)) = k * PageSize
         /\ \A i \in 1 .. k : Block(Cut(n, k), i) = Block(n, i)
<1>0. /\ PageSize \in Nat \ {0} /\ Pages(n) \in Nat /\ Len(n) \in Nat /\ Len(n) = Pages(n) * PageSize
      /\ n \in Seq(Tok)
  BY TreeAssumption, NameLen
<1>1. k * PageSize <= Len(n) /\ k * PageSize \in Nat
  BY <1>0, Scale
<1> DEFINE N == k * PageSize
<1>2. SubSeq(n, 1, N) \in Seq(Tok) /\ Len(SubSeq(n, 1, N)) = N /\ \A j \in 1 .. N : SubSeq(n, 1, N)[j] = n[j]
  <2> HIDE DEF N
  <2> QED
    BY <1>0, <1>1 DEF N
<1>3. Cut(n, k) \in Name /\ Pages(Cut(n, k)) = k /\ Len(Cut(n, k)) = N
  <2>1. k \in Nat
    BY <1>0
  <2> QED
    BY Zenon, <1>2, <2>1, NameOf DEF Cut
<1>4. \A i \in 1 .. k : Block(Cut(n, k), i) = Block(n, i)
  <2>1. k \in Nat
    BY <1>0
  <2> QED
    BY Zenon, <1>2, <2>1, SameBlocks DEF Cut
<1> QED
  BY <1>0, <1>3, <1>4 DEF Pre

-----------------------------------------------------------------------------
(* The shape of the tree.                                                  *)

\* A loop makes one turn after the other.
LEMMA IteratedEquation ==
  ASSUME NEW g, NEW a, NEW N \in Nat
  PROVE  /\ Iterated(g, a, N)[0] = a
         /\ \A i \in 1 .. N : Iterated(g, a, N)[i] = g[Iterated(g, a, N)[i - 1]]
<1> DEFINE Next1(k, i) == IF i = 0 THEN a ELSE g[k[i - 1]]
           Upto(k, n) == \A i \in 0 .. N : i <= n => k[i] = Next1(k, i)
           T == {n \in Nat : \E k : Upto(k, n)}
<1>1. 0 \in T
  <2>1. Upto([i \in 0 .. N |-> a], 0)
    OBVIOUS
  <2> QED
    BY <2>1
<1>2. ASSUME NEW n \in Nat, n \in T PROVE n + 1 \in T
  <2>1. PICK k : Upto(k, n)
    BY <1>2
  <2> DEFINE h == [i \in 0 .. N |-> IF i = n + 1 THEN Next1(k, i) ELSE k[i]]
  <2>2. ASSUME NEW i \in 0 .. N, i <= n + 1 PROVE h[i] = Next1(h, i)
    <3>1. i # 0 => h[i - 1] = k[i - 1]
      BY <2>2
    <3>2. Next1(h, i) = Next1(k, i)
      BY <3>1
    <3>3. i # n + 1 => i <= n
      BY <2>2
    <3> QED
      BY <2>1, <3>2, <3>3
  <2>3. \E f : Upto(f, n + 1)
    <3>1. Upto(h, n + 1)
      BY <2>2
    <3> HIDE DEF h
    <3> QED
      BY <3>1
  <2> QED
    BY <2>3
<1> HIDE DEF T
<1>3. \A n \in Nat : n \in T
  BY <1>1, <1>2, NatSetInduction
<1>4. PICK k : Upto(k, N)
  BY <1>3 DEF T
<1> DEFINE h == [i \in 0 .. N |-> k[i]]
<1>5. h = [i \in 0 .. N |-> Next1(h, i)]
  <2> SUFFICES ASSUME NEW i \in 0 .. N PROVE k[i] = Next1(h, i)
    OBVIOUS
  <2>1. i # 0 => h[i - 1] = k[i - 1]
    OBVIOUS
  <2>2. Next1(h, i) = Next1(k, i)
    BY <2>1
  <2> QED
    BY <1>4, <2>2
<1>6. \E f : f = [i \in 0 .. N |-> Next1(f, i)]
  <2> HIDE DEF h
  <2> QED
    BY <1>5
<1> DEFINE F == CHOOSE f : f = [i \in 0 .. N |-> Next1(f, i)]
<1>7. F = [i \in 0 .. N |-> Next1(F, i)]
  BY <1>6
<1>8. F = Iterated(g, a, N)
  BY DEF Iterated
<1> HIDE DEF F
<1>9. F[0] = a /\ \A i \in 1 .. N : F[i] = g[F[i - 1]]
  BY <1>7
<1> QED
  BY <1>8, <1>9

\* Nodes are whole pages and extend their parents; a node that goes on like n behind
\* n's parent contains n.
Shares(t, n, x) ==
  /\ Pages(t[n].parent) < Pages(x)
  /\ \A i \in 1 .. Pages(t[n].parent) + 1 : Block(n, i) = Block(x, i)

Inner(t) == DOMAIN t \ {Root}

Tree(t) ==
  /\ IsFiniteSet(DOMAIN t) /\ DOMAIN t \subseteq Name
  /\ Root \in DOMAIN t /\ t[Root].parent = Root
  /\ \A n \in Inner(t) : /\ t[n].parent \in DOMAIN t
                         /\ Pre(t[n].parent, n) /\ Pages(t[n].parent) < Pages(n)
                         /\ \A x \in DOMAIN t : Shares(t, n, x) => Pre(n, x)

\* No node is between a node and its parent.
LEMMA ParentLongest ==
  ASSUME NEW t, Tree(t), NEW n \in Inner(t), NEW x \in DOMAIN t,
         Pre(x, n), Pages(x) < Pages(n)
  PROVE  Pages(x) <= Pages(t[n].parent) /\ Pre(x, t[n].parent)
<1>0. /\ n \in Name /\ x \in Name /\ t[n].parent \in Name /\ Pre(t[n].parent, n)
  BY DEF Tree, Inner
<1>1. Pages(n) \in Nat /\ Pages(x) \in Nat /\ Pages(t[n].parent) \in Nat
  BY <1>0, NameLen
<1>2. Pages(x) <= Pages(t[n].parent)
  <2> SUFFICES ASSUME Pages(t[n].parent) < Pages(x) PROVE FALSE
    BY <1>1
  <2>1. Shares(t, n, x)
    BY <1>1 DEF Shares, Pre
  <2>2. Pre(n, x)
    BY <2>1 DEF Tree
  <2> QED
    BY <1>1, <2>2 DEF Pre
<1> QED
  BY <1>0, <1>2, PreFacts

\* Above every node but the root is a path of nodes: below a node n on the way to x
\* is a child of n on the way to x.
LEMMA ChildToward ==
  ASSUME NEW t, Tree(t), NEW n \in DOMAIN t, NEW x \in DOMAIN t,
         Pre(n, x), Pages(n) < Pages(x)
  PROVE  \E c \in Children(t, n) : Pre(c, x)
<1> DEFINE S == {c \in DOMAIN t : Pre(n, c) /\ Pages(n) < Pages(c) /\ Pre(c, x)}
           L == {Pages(c) : c \in S}
<1>0. DOMAIN t \subseteq Name /\ \A y \in DOMAIN t : Pages(y) \in Nat
  BY NameLen DEF Tree
<1>1. x \in S
  BY <1>0, PreFacts
<1>2. L \subseteq Nat /\ L # {}
  BY <1>0, <1>1
<1>3. Min(L) \in L /\ \A y \in L : Min(L) <= y
  BY <1>2, MinExists
<1>4. PICK c \in S : \A y \in S : Pages(c) <= Pages(y)
  BY <1>3
<1>5. c \in Inner(t)
  BY <1>0, <1>4, RootName DEF Inner
<1> DEFINE p == t[c].parent
<1>6. p \in DOMAIN t /\ Pre(p, c) /\ Pages(p) < Pages(c)
  BY <1>5 DEF Tree
<1>7. Pages(n) <= Pages(p)
  BY <1>4, <1>5, ParentLongest
<1>8. Pre(n, p)
  BY <1>0, <1>4, <1>6, <1>7, PreFacts
<1>9. Pre(p, x)
  BY <1>0, <1>4, <1>6, PreFacts
<1>10. Pages(p) <= Pages(n)
  <2> SUFFICES ASSUME Pages(n) < Pages(p) PROVE FALSE
    BY <1>0, <1>6
  <2>1. p \in S
    BY <1>6, <1>8, <1>9
  <2> QED
    BY <1>0, <1>4, <1>6, <2>1
<1>11. n = p
  BY <1>0, <1>6, <1>8, <1>10, PreSame
<1> QED
  BY <1>4, <1>5, <1>11 DEF Children, Inner

\* Two children of a node differ in their first page.
LEMMA ChildrenDiffer ==
  ASSUME NEW t, Tree(t), NEW n \in Inner(t), NEW c \in Inner(t),
         t[n].parent = t[c].parent,
         Block(n, Pages(t[n].parent) + 1) = Block(c, Pages(t[n].parent) + 1)
  PROVE  n = c
<1> DEFINE p == t[n].parent
<1>0. /\ n \in Name /\ c \in Name /\ n \in DOMAIN t /\ c \in DOMAIN t
      /\ Pre(p, n) /\ Pre(p, c) /\ Pages(p) < Pages(n) /\ Pages(p) < Pages(c) /\ Pages(p) \in Nat
  BY NameLen DEF Tree, Inner
<1>1. \A i \in 1 .. Pages(p) + 1 : Block(n, i) = Block(c, i)
  BY <1>0 DEF Pre
<1>2. Shares(t, n, c) /\ Shares(t, c, n)
  BY <1>0, <1>1 DEF Shares
<1>3. Pre(n, c) /\ Pre(c, n)
  BY <1>0, <1>2 DEF Tree
<1> QED
  BY <1>0, <1>3, PreSame DEF Pre

\* inc_lock_ref and dec_lock_ref visit exactly the nodes that are prefixes of n.
LEMMA ChainIs ==
  ASSUME NEW t, Tree(t), NEW n \in DOMAIN t
  PROVE  Chain(t, n) = {m \in Inner(t) : Pre(m, n)}
<1> DEFINE N == Pages(n)
           g == [x \in DOMAIN t |-> t[x].parent]
           up == Iterated(g, n, N)
<1>0. /\ DOMAIN t \subseteq Name /\ Root \in DOMAIN t /\ t[Root].parent = Root
      /\ N \in Nat /\ Pages(Root) = 0 /\ \A y \in DOMAIN t : Pages(y) \in Nat
  BY NameLen, RootName DEF Tree
<1>1. up[0] = n /\ \A i \in 1 .. N : up[i] = g[up[i - 1]]
  <2> HIDE DEF N, g
  <2> QED
    BY <1>0, IteratedEquation
<1> HIDE DEF up
<1>2. \A x \in DOMAIN t : t[x].parent \in DOMAIN t
  BY <1>0 DEF Tree, Inner
<1> DEFINE T == {i \in Nat : i <= N => /\ up[i] \in DOMAIN t /\ Pre(up[i], n)
                                       /\ up[i] = Root \/ Pages(up[i]) + i <= N}
<1>3. 0 \in T
  BY <1>0, <1>1, PreFacts
<1>4. ASSUME NEW i \in Nat, i \in T PROVE i + 1 \in T
  <2> SUFFICES ASSUME i + 1 <= N
               PROVE  /\ up[i + 1] \in DOMAIN t /\ Pre(up[i + 1], n)
                      /\ up[i + 1] = Root \/ Pages(up[i + 1]) + (i + 1) <= N
    OBVIOUS
  <2>1. up[i] \in DOMAIN t /\ Pre(up[i], n) /\ (up[i] = Root \/ Pages(up[i]) + i <= N)
    BY <1>0, <1>4
  <2>2. up[i + 1] = t[up[i]].parent
    <3>1. i + 1 \in 1 .. N /\ (i + 1) - 1 = i
      BY <1>0
    <3> QED
      BY <1>1, <2>1, <3>1
  <2>3. CASE up[i] = Root
    BY <1>0, <2>1, <2>2, <2>3
  <2>4. CASE up[i] # Root
    <3>1. /\ up[i + 1] \in DOMAIN t /\ Pre(up[i + 1], up[i])
          /\ Pages(up[i + 1]) < Pages(up[i])
      BY <2>1, <2>2, <2>4 DEF Tree, Inner
    <3>2. Pre(up[i + 1], n)
      BY <1>0, <2>1, <3>1, PreFacts
    <3>3. Pages(up[i + 1]) + (i + 1) <= N
      BY <1>0, <2>1, <2>4, <3>1
    <3> QED
      BY <3>1, <3>2, <3>3
  <2> QED
    BY <2>3, <2>4
<1> HIDE DEF T
<1>5. \A i \in Nat : i \in T
  BY <1>3, <1>4, NatSetInduction
<1>6. \A i \in 0 .. N : /\ up[i] \in DOMAIN t /\ Pre(up[i], n)
                        /\ up[i] = Root \/ Pages(up[i]) + i <= N
  BY <1>0, <1>5 DEF T
<1>7. up[N] = Root
  <2> SUFFICES ASSUME up[N] # Root PROVE FALSE
    OBVIOUS
  <2>1. up[N] \in DOMAIN t /\ Pages(up[N]) + N <= N /\ Pages(up[N]) \in Nat
    BY <1>0, <1>6
  <2>2. Pages(up[N]) = 0
    BY <1>0, <2>1
  <2> QED
    BY <1>0, <2>1, <2>2, PreFacts, PreSame, RootName
<1>8. ASSUME NEW m \in Inner(t), Pre(m, n) PROVE \E i \in 0 .. N : m = up[i]
  <2> SUFFICES ASSUME \A i \in 0 .. N : m # up[i] PROVE FALSE
    OBVIOUS
  <2> DEFINE S == {i \in Nat : i <= N => Pre(m, up[i])}
  <2>0. m \in DOMAIN t /\ m \in Name /\ Pages(m) \in Nat /\ m # Root
    BY <1>0 DEF Inner
  <2>1. 0 \in S
    BY <1>1, <1>8
  <2>2. ASSUME NEW i \in Nat, i \in S PROVE i + 1 \in S
    <3> SUFFICES ASSUME i + 1 <= N PROVE Pre(m, up[i + 1])
      OBVIOUS
    <3>1. Pre(m, up[i]) /\ i \in 0 .. N /\ m # up[i] /\ up[i] \in DOMAIN t
      BY <1>0, <1>6, <2>2
    <3>2. Pages(m) < Pages(up[i])
      BY <1>0, <2>0, <3>1, PreSame DEF Pre
    <3>3. up[i] \in Inner(t)
      BY <1>0, <2>0, <3>1, <3>2 DEF Inner
    <3>4. up[i + 1] = t[up[i]].parent
      <4>1. i + 1 \in 1 .. N /\ (i + 1) - 1 = i
        BY <1>0
      <4> QED
        BY <1>1, <3>1, <4>1
    <3> QED
      BY <2>0, <3>1, <3>2, <3>3, <3>4, ParentLongest
  <2> HIDE DEF S
  <2>3. \A i \in Nat : i \in S
    BY <2>1, <2>2, NatSetInduction
  <2>4. Pre(m, up[N])
    BY <1>0, <2>3 DEF S
  <2>5. Pages(m) = 0
    BY <1>0, <1>7, <2>0, <2>4 DEF Pre
  <2> QED
    BY <1>0, <2>0, <2>5, PreFacts, PreSame, RootName
<1>9. Chain(t, n) = {up[i] : i \in 0 .. N} \ {Root}
  BY DEF Chain, up
<1>10. ASSUME NEW i \in 0 .. N, up[i] # Root PROVE up[i] \in Inner(t) /\ Pre(up[i], n)
  BY <1>6, <1>10 DEF Inner
<1>11. \A m \in Inner(t) : m # Root
  BY DEF Inner
<1> HIDE DEF N
<1> QED
  BY <1>8, <1>9, <1>10, <1>11

\* The common pages of two paths.
LEMMA CommonFacts ==
  ASSUME NEW c \in Name, NEW key \in Name
  PROVE  LET k == Common(c, key)
         IN  /\ k \in Nat /\ k <= Pages(c) /\ k <= Pages(key)
             /\ \A i \in 1 .. k : Block(c, i) = Block(key, i)
             /\ k < Pages(c) /\ k < Pages(key) => Block(c, k + 1) # Block(key, k + 1)
<1> DEFINE k == Common(c, key)
           N == Min({Pages(c), Pages(key)})
           S == {m \in 0 .. N : \A i \in 1 .. m : Block(c, i) = Block(key, i)}
<1>0. Pages(c) \in Nat /\ Pages(key) \in Nat
  BY NameLen
<1>1. N = IF Pages(c) <= Pages(key) THEN Pages(c) ELSE Pages(key)
  BY <1>0, MinMaxPair
<1> HIDE DEF N
<1>2. N \in Nat /\ N <= Pages(c) /\ N <= Pages(key) /\ (N = Pages(c) \/ N = Pages(key))
  BY <1>0, <1>1
<1>3. 0 \in S /\ S \subseteq 0 .. N
  BY <1>2
<1>4. Max(S) \in S /\ \A y \in S : Max(S) >= y
  BY <1>2, <1>3, MaxExists
<1>5. k = Max(S)
  BY DEF Common, N
<1> HIDE DEF k
<1>6. /\ k \in 0 .. N /\ \A i \in 1 .. k : Block(c, i) = Block(key, i)
      /\ \A y \in S : k >= y
  BY <1>4, <1>5
<1>7. k < N => Block(c, k + 1) # Block(key, k + 1)
  <2> SUFFICES ASSUME k < N, Block(c, k + 1) = Block(key, k + 1) PROVE FALSE
    OBVIOUS
  <2>1. \A i \in 1 .. k + 1 : Block(c, i) = Block(key, i)
    BY <1>2, <1>6
  <2>2. k + 1 \in S
    BY <1>2, <1>6, <2>1
  <2> QED
    BY <1>2, <1>6, <2>2
<1>8. /\ k \in Nat /\ k <= Pages(c) /\ k <= Pages(key)
      /\ \A i \in 1 .. k : Block(c, i) = Block(key, i)
      /\ k < Pages(c) /\ k < Pages(key) => Block(c, k + 1) # Block(key, k + 1)
  BY <1>0, <1>2, <1>6, <1>7
<1> QED
  BY Zenon, <1>8 DEF k

\* The children a key may go on with.
LEMMA BranchFacts ==
  ASSUME NEW t, Tree(t), NEW n \in DOMAIN t, NEW key \in Name, Pre(n, key)
  PROVE  \A c : c \in Branch(t, n, key) <=>
                  /\ c \in Inner(t) /\ t[c].parent = n /\ Pages(n) < Pages(key)
                  /\ Block(c, Pages(n) + 1) = Block(key, Pages(n) + 1)
<1>0. /\ n \in Name /\ PageSize \in Nat \ {0}
      /\ Pages(n) \in Nat /\ Len(n) = Pages(n) * PageSize /\ Len(n) \in Nat
      /\ Pages(key) \in Nat /\ Len(key) = Pages(key) * PageSize /\ Len(key) \in Nat
  BY TreeAssumption, NameLen DEF Tree
<1>1. Pages(n) < Pages(key) => Len(n) < Len(key)
  BY <1>0, ScaleStrictly
<1>2. Pages(key) <= Pages(n) => Len(key) <= Len(n)
  BY <1>0, Scale
<1>3. Len(key) > Len(n) <=> Pages(n) < Pages(key)
  BY <1>0, <1>1, <1>2
<1> QED
  BY <1>3 DEF Branch, Children, Inner

\* Where the descent along a key ends: at the longest node the key contains.
LEMMA DescendFacts ==
  ASSUME NEW t, Tree(t), NEW key \in Name
  PROVE  LET n == Descend(t, key)
         IN  /\ n \in DOMAIN t /\ Pre(n, key)
             /\ \A x \in DOMAIN t : Pre(x, key) => Pages(x) <= Pages(n) /\ Pre(x, n)
<1> DEFINE N == Pages(key)
           whole(n) == {c \in Branch(t, n, key) : Common(c, key) = Pages(c)}
           turn == [n \in DOMAIN t |-> IF whole(n) = {} THEN n ELSE CHOOSE c \in whole(n) : TRUE]
           at == Iterated(turn, Root, N)
           n == Descend(t, key)
<1>0. /\ DOMAIN t \subseteq Name /\ Root \in DOMAIN t /\ N \in Nat
      /\ Pages(Root) = 0 /\ \A y \in DOMAIN t : Pages(y) \in Nat
  BY NameLen, RootName DEF Tree
<1>1. at[0] = Root /\ \A i \in 1 .. N : at[i] = turn[at[i - 1]]
  <2> HIDE DEF N, turn
  <2> QED
    BY <1>0, IteratedEquation
<1>2. n = at[N]
  BY DEF Descend
<1> HIDE DEF at, n
<1>3. ASSUME NEW m \in DOMAIN t, Pre(m, key), NEW c \in whole(m)
      PROVE  /\ c \in Inner(t) /\ c \in DOMAIN t /\ Pre(c, key)
             /\ Pages(m) < Pages(c) /\ Pages(m) < N
  <2>1. c \in Inner(t) /\ t[c].parent = m /\ Pages(m) < N /\ Common(c, key) = Pages(c)
    BY <1>3, BranchFacts
  <2>2. c \in Name /\ Pages(m) < Pages(c) /\ c \in DOMAIN t
    BY <2>1 DEF Tree, Inner
  <2>3. Pre(c, key)
    BY <2>1, <2>2, CommonFacts DEF Pre
  <2> QED
    BY <2>1, <2>2, <2>3
<1>4. ASSUME NEW m \in DOMAIN t, NEW c \in Inner(t), t[c].parent = m, Pre(m, key), Pre(c, key)
      PROVE  c \in whole(m)
  <2>1. c \in Name /\ Pages(m) < Pages(c) /\ Pages(c) \in Nat /\ Pages(m) \in Nat /\ Pages(c) <= N
    BY <1>0, <1>4 DEF Tree, Inner, Pre
  <2>2. Block(c, Pages(m) + 1) = Block(key, Pages(m) + 1)
    BY <1>4, <2>1 DEF Pre
  <2>3. c \in Branch(t, m, key)
    BY <1>0, <1>4, <2>1, <2>2, BranchFacts
  <2>4. Common(c, key) = Pages(c)
    <3> DEFINE k == Common(c, key)
    <3>1. k \in Nat /\ k <= Pages(c) /\ (k < Pages(c) /\ k < N => Block(c, k + 1) # Block(key, k + 1))
      BY <2>1, CommonFacts
    <3> HIDE DEF k
    <3> SUFFICES ASSUME k < Pages(c) PROVE FALSE
      BY <2>1, <3>1 DEF k
    <3>2. Block(c, k + 1) = Block(key, k + 1)
      BY <1>4, <2>1, <3>1 DEF Pre
    <3> QED
      BY <1>0, <2>1, <3>1, <3>2
  <2> QED
    BY <2>3, <2>4
<1> DEFINE T == {i \in Nat : i <= N => /\ at[i] \in DOMAIN t /\ Pre(at[i], key)
                                       /\ whole(at[i]) = {} \/ i <= Pages(at[i])}
<1>5. 0 \in T
  BY <1>0, <1>1, PreFacts
<1>6. ASSUME NEW i \in Nat, i \in T PROVE i + 1 \in T
  <2> SUFFICES ASSUME i + 1 <= N
               PROVE  /\ at[i + 1] \in DOMAIN t /\ Pre(at[i + 1], key)
                      /\ whole(at[i + 1]) = {} \/ i + 1 <= Pages(at[i + 1])
    BY <1>0
  <2>1. /\ at[i] \in DOMAIN t /\ Pre(at[i], key)
        /\ whole(at[i]) = {} \/ i <= Pages(at[i])
    BY <1>0, <1>6
  <2>2. at[i + 1] = turn[at[i]]
    <3>1. i + 1 \in 1 .. N /\ (i + 1) - 1 = i
      BY <1>0
    <3> HIDE DEF turn
    <3> QED
      BY <1>1, <3>1
  <2>3. CASE whole(at[i]) = {}
    <3>1. at[i + 1] = at[i]
      BY <2>1, <2>2, <2>3
    <3> QED
      BY <2>1, <2>3, <3>1
  <2>4. CASE whole(at[i]) # {}
    <3>1. at[i + 1] \in whole(at[i])
      BY <2>1, <2>2, <2>4
    <3> HIDE DEF whole, turn
    <3>2. /\ at[i + 1] \in DOMAIN t /\ Pre(at[i + 1], key)
          /\ Pages(at[i]) < Pages(at[i + 1])
      BY <1>3, <2>1, <3>1
    <3>3. i <= Pages(at[i]) /\ Pages(at[i]) \in Nat /\ Pages(at[i + 1]) \in Nat
      BY <1>0, <2>1, <2>4, <3>2
    <3> QED
      BY <3>2, <3>3
  <2> QED
    BY <2>3, <2>4
<1> HIDE DEF T
<1>7. \A i \in Nat : i \in T
  BY <1>5, <1>6, NatSetInduction
<1>8. n \in DOMAIN t /\ Pre(n, key) /\ (whole(n) = {} \/ N <= Pages(n))
  <2> HIDE DEF whole, turn
  <2> QED
    BY <1>0, <1>2, <1>7 DEF T
<1>9. whole(n) = {}
  <2> SUFFICES ASSUME NEW c \in whole(n) PROVE FALSE
    OBVIOUS
  <2> HIDE DEF whole
  <2>1. Pages(n) < N /\ Pages(n) \in Nat
    BY <1>0, <1>3, <1>8
  <2>2. N <= Pages(n)
    BY <1>8
  <2> QED
    BY <1>0, <2>1, <2>2
<1> HIDE DEF whole, turn
<1>10. ASSUME NEW x \in DOMAIN t, Pre(x, key) PROVE Pages(x) <= Pages(n) /\ Pre(x, n)
  <2>0. x \in Name /\ n \in Name /\ Pages(x) \in Nat /\ Pages(n) \in Nat
    BY <1>0, <1>8
  <2>1. Pages(x) <= Pages(n)
    <3> SUFFICES ASSUME Pages(n) < Pages(x) PROVE FALSE
      BY <2>0
    <3>1. Pre(n, x)
      BY <1>8, <1>10, <2>0, PreFacts
    <3>2. PICK c \in Children(t, n) : Pre(c, x)
      BY <1>8, <3>1, ChildToward
    <3>3. c \in Inner(t) /\ t[c].parent = n /\ c \in Name
      BY <1>0, <3>2 DEF Children, Inner
    <3>4. Pre(c, key)
      BY <1>10, <2>0, <3>2, <3>3, PreFacts
    <3>5. c \in whole(n)
      BY <1>4, <1>8, <3>3, <3>4
    <3> QED
      BY <1>9, <3>5
  <2> QED
    BY <1>8, <1>10, <2>0, <2>1, PreFacts
<1>11. /\ n \in DOMAIN t /\ Pre(n, key)
       /\ \A x \in DOMAIN t : Pre(x, key) => Pages(x) <= Pages(n) /\ Pre(x, n)
  BY <1>8, <1>10
<1> QED
  BY Zenon, <1>11 DEF n

\* That node is the only one.
LEMMA DescendIs ==
  ASSUME NEW t, Tree(t), NEW key \in Name, NEW n \in DOMAIN t, Pre(n, key),
         \A x \in DOMAIN t : Pre(x, key) => Pages(x) <= Pages(n)
  PROVE  Descend(t, key) = n
<1> DEFINE m == Descend(t, key)
<1>1. m \in DOMAIN t /\ Pre(m, key) /\ Pages(n) <= Pages(m) /\ Pre(n, m)
  BY DescendFacts
<1> HIDE DEF m
<1>2. Pages(m) <= Pages(n) /\ m \in Name /\ n \in Name
  BY <1>1 DEF Tree
<1> QED
  BY <1>1, <1>2, PreSame DEF m

-----------------------------------------------------------------------------
(* Trees after a split, a new leaf and the end of a leaf.                  *)

\* u has the nodes and parents of t with the new node upper between c and its parent.
SplitShape(t, u, c, upper) ==
  /\ DOMAIN u = DOMAIN t \cup {upper}
  /\ u[upper].parent = t[c].parent /\ u[c].parent = upper
  /\ \A x \in DOMAIN t \ {c} : u[x].parent = t[x].parent

\* The tree stays one, and the nodes below the new one are those below the old one.
LEMMA SplitTree ==
  ASSUME NEW t, Tree(t), NEW c \in Inner(t), NEW upper \in Name, Pre(upper, c),
         Pages(t[c].parent) < Pages(upper), Pages(upper) < Pages(c),
         NEW u, SplitShape(t, u, c, upper)
  PROVE  /\ Tree(u) /\ upper \notin DOMAIN t /\ upper # Root
         /\ \A x \in DOMAIN t : Pre(upper, x) <=> Pre(c, x)
<1> DEFINE p == t[c].parent
<1>0. /\ c \in DOMAIN t /\ c # Root /\ c \in Name /\ p \in DOMAIN t /\ p \in Name /\ Pre(p, c)
      /\ DOMAIN t \subseteq Name /\ \A y \in Name : Pages(y) \in Nat
      /\ Pages(Root) = 0 /\ Root \in DOMAIN t
  BY NameLen, RootName DEF Tree, Inner
<1>1. upper \notin DOMAIN t
  <2> SUFFICES ASSUME upper \in DOMAIN t PROVE FALSE
    OBVIOUS
  <2>1. Pages(upper) <= Pages(p)
    BY ParentLongest
  <2> QED
    BY <1>0, <2>1
<1>2. upper # Root
  BY <1>0, <1>1
<1>3. ASSUME NEW x \in DOMAIN t PROVE Pre(upper, x) <=> Pre(c, x)
  <2>1. x \in Name
    BY <1>0
  <2>2. Pre(c, x) => Pre(upper, x)
    BY <1>0, <2>1, PreFacts
  <2>3. ASSUME Pre(upper, x) PROVE Pre(c, x)
    <3>1. Pages(p) < Pages(x)
      BY <1>0, <2>1, <2>3 DEF Pre
    <3>2. \A i \in 1 .. Pages(p) + 1 : Block(c, i) = Block(x, i)
      BY <1>0, <2>1, <2>3 DEF Pre
    <3>3. Shares(t, c, x)
      BY <3>1, <3>2 DEF Shares
    <3> QED
      BY <3>3 DEF Tree
  <2> QED
    BY <2>2, <2>3
<1>4. Pre(p, upper)
  BY <1>0, PreFacts
<1>5. IsFiniteSet(DOMAIN u) /\ DOMAIN u \subseteq Name /\ Root \in DOMAIN u /\ u[Root].parent = Root
  <2>1. IsFiniteSet(DOMAIN t) /\ t[Root].parent = Root
    BY DEF Tree
  <2>2. IsFiniteSet(DOMAIN t \cup {upper})
    BY <2>1, FS_AddElement
  <2> QED
    BY <1>0, <1>2, <2>1, <2>2 DEF SplitShape
<1>6. ASSUME NEW n \in Inner(u)
      PROVE  /\ u[n].parent \in DOMAIN u
             /\ Pre(u[n].parent, n) /\ Pages(u[n].parent) < Pages(n)
             /\ \A x \in DOMAIN u : Shares(u, n, x) => Pre(n, x)
  <2>1. CASE n = upper
    <3>1. u[n].parent = p
      BY <2>1 DEF SplitShape
    <3>2. ASSUME NEW x \in DOMAIN u, Shares(u, n, x) PROVE Pre(n, x)
      <4>1. CASE x = upper
        BY <1>0, <2>1, <4>1, PreFacts
      <4>2. CASE x # upper
        <5>1. x \in DOMAIN t /\ x \in Name
          BY <1>0, <4>2 DEF SplitShape
        <5>2. Shares(t, c, x)
          BY <1>0, <2>1, <3>1, <3>2, <5>1 DEF Shares, Pre
        <5>3. Pre(c, x)
          BY <5>1, <5>2 DEF Tree
        <5> QED
          BY <1>3, <2>1, <5>1, <5>3
      <4> QED
        BY <4>1, <4>2
    <3> QED
      BY <1>0, <1>4, <2>1, <3>1, <3>2 DEF SplitShape
  <2>2. CASE n = c
    <3>1. u[n].parent = upper
      BY <2>2 DEF SplitShape
    <3>2. ASSUME NEW x \in DOMAIN u, Shares(u, n, x) PROVE Pre(n, x)
      <4>1. Pages(upper) < Pages(x)
        BY <3>1, <3>2 DEF Shares
      <4>2. x \in DOMAIN t /\ x \in Name
        BY <1>0, <4>1 DEF SplitShape
      <4>3. Shares(t, c, x)
        BY <1>0, <2>2, <3>1, <3>2, <4>1, <4>2 DEF Shares
      <4> QED
        BY <2>2, <4>2, <4>3 DEF Tree
    <3> QED
      BY <2>2, <3>1, <3>2 DEF SplitShape
  <2>3. CASE n # upper /\ n # c
    <3>1. n \in Inner(t) /\ n \in DOMAIN t /\ n \in Name /\ u[n].parent = t[n].parent
      BY <1>0, <2>3 DEF SplitShape, Inner
    <3>2. t[n].parent \in DOMAIN t /\ Pre(t[n].parent, n) /\ Pages(t[n].parent) < Pages(n)
      BY <3>1 DEF Tree
    <3>3. ASSUME NEW x \in DOMAIN u, Shares(u, n, x) PROVE Pre(n, x)
      <4>1. CASE x \in DOMAIN t
        <5>1. Shares(t, n, x)
          BY <3>1, <3>3 DEF Shares
        <5> QED
          BY <3>1, <4>1, <5>1 DEF Tree
      <4>2. CASE x = upper
        <5>1. Shares(t, n, c)
          BY <1>0, <3>1, <3>2, <3>3, <4>2 DEF Shares, Pre
        <5>2. Pre(n, c)
          BY <1>0, <3>1, <5>1 DEF Tree
        <5>3. Pages(n) < Pages(c)
          BY <1>0, <2>3, <3>1, <5>2, PreSame DEF Pre
        <5>4. Pages(n) <= Pages(p)
          BY <3>1, <5>2, <5>3, ParentLongest
        <5>5. Pages(n) <= Pages(upper)
          BY <1>0, <3>1, <5>4
        <5> QED
          BY <1>0, <3>1, <4>2, <5>2, <5>5, PreFacts
      <4> QED
        BY <4>1, <4>2 DEF SplitShape
    <3> QED
      BY <3>1, <3>2, <3>3 DEF SplitShape
  <2> QED
    BY <2>1, <2>2, <2>3
<1>7. Tree(u)
  BY <1>5, <1>6 DEF Tree
<1> QED
  BY <1>1, <1>2, <1>3, <1>7

\* u is t with the new node key, a child of n.
GrowShape(t, u, n, key) ==
  /\ DOMAIN u = DOMAIN t \cup {key}
  /\ u[key].parent = n
  /\ \A x \in DOMAIN t : u[x].parent = t[x].parent

\* The tree stays one when no child of n goes on like the key.
LEMMA GrowTree ==
  ASSUME NEW t, Tree(t), NEW n \in DOMAIN t, NEW key \in Name, Pre(n, key), n # key,
         Branch(t, n, key) = {}, NEW u, GrowShape(t, u, n, key)
  PROVE  /\ Tree(u) /\ key \notin DOMAIN t /\ key # Root
         /\ \A x \in DOMAIN t : ~ Pre(key, x)
         /\ Children(u, key) = {}
<1>0. /\ n \in Name /\ DOMAIN t \subseteq Name /\ \A y \in Name : Pages(y) \in Nat
      /\ Pages(Root) = 0 /\ Root \in DOMAIN t
  BY NameLen, RootName DEF Tree
<1>1. Pages(n) < Pages(key)
  BY <1>0, PreSame DEF Pre
<1>2. ASSUME NEW x \in DOMAIN t, Pre(n, x), Pages(n) < Pages(x),
             Block(x, Pages(n) + 1) = Block(key, Pages(n) + 1)
      PROVE  FALSE
  <2>1. PICK c \in Children(t, n) : Pre(c, x)
    BY <1>2, ChildToward
  <2>2. c \in Inner(t) /\ t[c].parent = n /\ c \in Name /\ Pages(n) < Pages(c)
    BY <1>0, <2>1 DEF Children, Inner, Tree
  <2>3. Block(c, Pages(n) + 1) = Block(x, Pages(n) + 1)
    BY <1>0, <2>1, <2>2 DEF Pre
  <2>4. c \in Branch(t, n, key)
    BY <1>1, <1>2, <2>2, <2>3, BranchFacts
  <2> QED
    BY <2>4
<1>3. ASSUME NEW x \in DOMAIN t, Pre(key, x) PROVE FALSE
  <2>1. x \in Name /\ Pre(n, x) /\ Pages(n) < Pages(x)
    BY <1>0, <1>1, <1>3, PreFacts DEF Pre
  <2>2. Block(x, Pages(n) + 1) = Block(key, Pages(n) + 1)
    BY <1>0, <1>1, <1>3 DEF Pre
  <2> QED
    BY <1>2, <2>1, <2>2
<1>4. key \notin DOMAIN t /\ key # Root
  BY <1>0, <1>3, PreFacts
<1>5. IsFiniteSet(DOMAIN u) /\ DOMAIN u \subseteq Name /\ Root \in DOMAIN u /\ u[Root].parent = Root
  <2>1. IsFiniteSet(DOMAIN t) /\ t[Root].parent = Root
    BY DEF Tree
  <2>2. IsFiniteSet(DOMAIN t \cup {key})
    BY <2>1, FS_AddElement
  <2> QED
    BY <1>0, <1>4, <2>1, <2>2 DEF GrowShape
<1>6. ASSUME NEW m \in Inner(u)
      PROVE  /\ u[m].parent \in DOMAIN u /\ u[m].parent # key
             /\ Pre(u[m].parent, m) /\ Pages(u[m].parent) < Pages(m)
             /\ \A x \in DOMAIN u : Shares(u, m, x) => Pre(m, x)
  <2>1. CASE m = key
    <3>1. u[m].parent = n
      BY <2>1 DEF GrowShape
    <3>2. ASSUME NEW x \in DOMAIN u, Shares(u, m, x) PROVE Pre(m, x)
      <4>1. CASE x = key
        BY <2>1, <4>1, PreFacts
      <4>2. CASE x # key
        <5>1. x \in DOMAIN t
          BY <4>2 DEF GrowShape
        <5>2. /\ Pages(n) < Pages(x) /\ Block(key, Pages(n) + 1) = Block(x, Pages(n) + 1)
              /\ Pre(n, x)
          BY <1>0, <2>1, <3>1, <3>2, <5>1 DEF Shares, Pre
        <5> QED
          BY <1>2, <5>1, <5>2
      <4> QED
        BY <4>1, <4>2
    <3> QED
      BY <1>1, <2>1, <3>1, <3>2 DEF GrowShape
  <2>2. CASE m # key
    <3>1. m \in Inner(t) /\ m \in DOMAIN t /\ m \in Name /\ u[m].parent = t[m].parent
      BY <1>0, <2>2 DEF GrowShape, Inner
    <3> DEFINE p == t[m].parent
    <3>2. p \in DOMAIN t /\ Pre(p, m) /\ Pages(p) < Pages(m)
      BY <3>1 DEF Tree
    <3>3. ASSUME NEW x \in DOMAIN u, Shares(u, m, x) PROVE Pre(m, x)
      <4>1. CASE x \in DOMAIN t
        <5>1. Shares(t, m, x)
          BY <3>1, <3>3 DEF Shares
        <5> QED
          BY <3>1, <4>1, <5>1 DEF Tree
      <4>2. CASE x = key
        <5>1. /\ Pages(p) < Pages(key)
              /\ \A i \in 1 .. Pages(p) + 1 : Block(m, i) = Block(key, i)
          BY <3>1, <3>3, <4>2 DEF Shares
        <5>2. CASE Pages(p) < Pages(n)
          <6>1. Shares(t, m, n)
            BY <1>0, <3>2, <5>1, <5>2 DEF Shares, Pre
          <6>2. Pre(m, n)
            BY <3>1, <6>1 DEF Tree
          <6> QED
            BY <1>0, <3>1, <4>2, <6>2, PreFacts
        <5>3. CASE Pages(n) <= Pages(p)
          <6>1. Block(m, Pages(n) + 1) = Block(key, Pages(n) + 1)
            BY <1>0, <3>2, <5>1, <5>3
          <6>2. Pages(n) < Pages(m)
            BY <1>0, <3>1, <3>2, <5>3
          <6>3. Pre(n, m)
            BY <1>0, <1>1, <3>1, <3>2, <5>1, <5>3, <6>2 DEF Pre
          <6> QED
            BY <1>2, <3>1, <6>1, <6>2, <6>3
        <5> QED
          BY <1>0, <3>2, <5>2, <5>3
      <4> QED
        BY <4>1, <4>2 DEF GrowShape
    <3> QED
      BY <1>4, <3>1, <3>2, <3>3 DEF GrowShape
  <2> QED
    BY <2>1, <2>2
<1>7. Tree(u)
  BY <1>5, <1>6 DEF Tree
<1>8. Children(u, key) = {}
  BY <1>6 DEF Children, Inner
<1> QED
  BY <1>3, <1>4, <1>7, <1>8

\* Without a leaf the tree is a tree.
LEMMA DropTree ==
  ASSUME NEW t, Tree(t), NEW x \in Inner(t), Children(t, x) = {},
         NEW u, DOMAIN u = DOMAIN t \ {x}, \A n \in DOMAIN u : u[n].parent = t[n].parent
  PROVE  Tree(u) /\ \A y \in DOMAIN t : Pre(x, y) => y = x
<1>0. /\ DOMAIN t \subseteq Name /\ \A y \in Name : Pages(y) \in Nat
      /\ x \in Name /\ x \in DOMAIN t /\ x # Root /\ Root \in DOMAIN t
  BY NameLen DEF Tree, Inner
<1>1. IsFiniteSet(DOMAIN u) /\ DOMAIN u \subseteq Name /\ Root \in DOMAIN u /\ u[Root].parent = Root
  <2>1. IsFiniteSet(DOMAIN t) /\ t[Root].parent = Root
    BY DEF Tree
  <2>2. IsFiniteSet(DOMAIN t \ {x})
    BY <2>1, FS_RemoveElement
  <2> QED
    BY <1>0, <2>1, <2>2
<1>2. ASSUME NEW n \in Inner(u)
      PROVE  /\ u[n].parent \in DOMAIN u
             /\ Pre(u[n].parent, n) /\ Pages(u[n].parent) < Pages(n)
             /\ \A y \in DOMAIN u : Shares(u, n, y) => Pre(n, y)
  <2>1. n \in Inner(t) /\ n \in DOMAIN t /\ u[n].parent = t[n].parent
    BY DEF Inner
  <2>2. /\ t[n].parent \in DOMAIN t /\ t[n].parent # x
        /\ Pre(t[n].parent, n) /\ Pages(t[n].parent) < Pages(n)
        /\ \A y \in DOMAIN t : Shares(t, n, y) => Pre(n, y)
    BY <2>1 DEF Tree, Children, Inner
  <2> QED
    BY <2>1, <2>2 DEF Shares
<1>3. ASSUME NEW y \in DOMAIN t, Pre(x, y), y # x PROVE FALSE
  <2>1. y \in Name /\ Pages(x) < Pages(y)
    BY <1>0, <1>3, PreSame DEF Pre
  <2> QED
    BY <1>0, <1>3, <2>1, ChildToward
<1> QED
  BY <1>1, <1>2, <1>3 DEF Tree

-----------------------------------------------------------------------------
(* The invariant of the RadixCache object.                                 *)

\* The fields of the nodes: a page and a hash per page of the node's edge.
Fields(t) ==
  /\ t[Root] = [parent |-> Root, value |-> <<>>, lock |-> 1, hash |-> <<>>]
  /\ \A n \in Inner(t) :
       /\ t[n] = [parent |-> t[n].parent, value |-> t[n].value, lock |-> t[n].lock, hash |-> t[n].hash]
       /\ t[n].value \in Seq(1 .. NumPages) /\ Len(t[n].value) = Pages(n) - Pages(t[n].parent)
       /\ t[n].hash \in Seq(Name) /\ Len(t[n].hash) = Pages(n) - Pages(t[n].parent)
       /\ \A i \in 1 .. Len(t[n].hash) : t[n].hash[i] = Cut(n, Pages(t[n].parent) + i)

\* The requests that lock n, l being their last nodes.
Below(l, n) == {r \in Req : Pre(n, l[r])}

Locks(t, l) == \A n \in Inner(t) : t[n].lock = Cardinality(Below(l, n))

Unlocked(t) == {n \in Inner(t) : t[n].lock = 0}
Locked(t) == {n \in Inner(t) : t[n].lock > 0}
Frontier(t) == {n \in Unlocked(t) : Children(t, n) = {}}

\* The cached paths, and the block announced for a path.
Paths(t) == {p \in Name : p # Root /\ \E n \in DOMAIN t : Pre(p, n)}
Announced(p) == [hash |-> p, parent |-> Cut(p, Pages(p) - 1)]

IsObject(s) == s = [node |-> s.node, leaves |-> s.leaves, evictable |-> s.evictable,
                    protected |-> s.protected, blocks |-> s.blocks]

Sums(s) ==
  /\ s.evictable = TokensOf(s.node, Unlocked(s.node))
  /\ s.protected = TokensOf(s.node, Locked(s.node))

Object(s, l) ==
  /\ IsObject(s) /\ Tree(s.node) /\ Fields(s.node)
  /\ l \in [Req -> DOMAIN s.node] /\ Locks(s.node, l)
  /\ Sums(s)
  /\ s.leaves = Frontier(s.node)
  /\ s.blocks = {Announced(p) : p \in Paths(s.node)}

\* Key lengths are whole pages, and all are positive.
LEMMA KeyLenFacts ==
  ASSUME NEW t, Tree(t), NEW n \in Inner(t)
  PROVE  /\ KeyLen(t, n) \in Nat \ {0} /\ KeyLen(t, n) = Len(n) - Len(t[n].parent)
         /\ Len(n) \in Nat /\ Len(t[n].parent) \in Nat
<1> DEFINE p == t[n].parent
<1>1. n \in Name /\ p \in Name /\ Pages(p) < Pages(n)
  BY DEF Tree, Inner
<1>2. /\ Pages(n) \in Nat /\ Len(n) = Pages(n) * PageSize /\ Len(n) \in Nat
      /\ Pages(p) \in Nat /\ Len(p) = Pages(p) * PageSize /\ Len(p) \in Nat
      /\ PageSize \in Nat \ {0}
  BY <1>1, TreeAssumption, NameLen
<1>3. Len(p) < Len(n)
  BY <1>1, <1>2, ScaleStrictly
<1> QED
  BY <1>2, <1>3 DEF KeyLen

\* Sums over nodes.
LEMMA TokensFacts ==
  ASSUME NEW t, Tree(t), NEW S \in SUBSET Inner(t)
  PROVE  /\ IsFiniteSet(S) /\ TokensOf(t, S) \in Nat
         /\ \A n \in S : TokensOf(t, S) = KeyLen(t, n) + TokensOf(t, S \ {n})
         /\ \A R \in SUBSET S : /\ TokensOf(t, S) = TokensOf(t, R) + TokensOf(t, S \ R)
                                /\ TokensOf(t, R) \in Nat /\ TokensOf(t, S \ R) \in Nat
         /\ S # {} => TokensOf(t, S) > 0
         /\ TokensOf(t, {}) = 0
<1> DEFINE f == [n \in DOMAIN t |-> KeyLen(t, n)]
<1>1. IsFiniteSet(S)
  <2>1. IsFiniteSet(DOMAIN t) /\ S \subseteq DOMAIN t
    BY DEF Tree, Inner
  <2> QED
    BY <2>1, FS_Subset
<1>2. \A n \in S : f[n] = KeyLen(t, n) /\ f[n] \in Nat \ {0}
  BY KeyLenFacts DEF Inner
<1>3. \A R : TokensOf(t, R) = Total(f, R)
  BY DEF TokensOf
<1> HIDE DEF f
<1>4. Total(f, S) \in Nat
  BY <1>1, <1>2, SumNat
<1>5. \A n \in S : Total(f, S) = f[n] + Total(f, S \ {n})
  BY <1>1, <1>2, SumRemove
<1>6. ASSUME NEW R \in SUBSET S
      PROVE  /\ Total(f, S) = Total(f, R) + Total(f, S \ R)
             /\ Total(f, R) \in Nat /\ Total(f, S \ R) \in Nat
  <2>1. IsFiniteSet(R) /\ IsFiniteSet(S \ R)
    BY <1>1, FS_Subset
  <2>2. R \cap (S \ R) = {} /\ R \cup (S \ R) = S
    OBVIOUS
  <2>3. \A x \in R \cup (S \ R) : f[x] \in Int
    BY <1>2
  <2>4. Total(f, R \cup (S \ R)) = Total(f, R) + Total(f, S \ R)
    BY <2>1, <2>2, <2>3, SumUnion
  <2>5. Total(f, R) \in Nat
    BY <1>2, <2>1, SumNat
  <2>6. Total(f, S \ R) \in Nat
    BY <1>2, <2>1, SumNat
  <2> QED
    BY Zenon, <2>2, <2>4, <2>5, <2>6
<1>7. S # {} => Total(f, S) > 0
  <2> SUFFICES ASSUME NEW n \in S PROVE Total(f, S) > 0
    OBVIOUS
  <2>1. Total(f, S) = f[n] + Total(f, S \ {n})
    BY <1>5
  <2>2. Total(f, S \ {n}) \in Nat
    BY <1>6
  <2>3. f[n] \in Nat \ {0}
    BY <1>2
  <2> QED
    BY <2>1, <2>2, <2>3
<1>8. Total(f, {}) = 0
  BY SumEmpty
<1> QED
  BY Zenon, <1>1, <1>2, <1>3, <1>4, <1>5, <1>6, <1>7, <1>8

\* Sums are the same in two trees where the nodes have the same parents.
LEMMA TokensAgree ==
  ASSUME NEW t, NEW u, NEW S, IsFiniteSet(S), S \subseteq DOMAIN t, S \subseteq DOMAIN u,
         \A n \in S : t[n].parent = u[n].parent
  PROVE  TokensOf(t, S) = TokensOf(u, S)
<1> DEFINE f == [n \in DOMAIN t |-> KeyLen(t, n)]
           g == [n \in DOMAIN u |-> KeyLen(u, n)]
<1>1. \A n \in S : f[n] = g[n]
  BY DEF KeyLen
<1>2. TokensOf(t, S) = Total(f, S) /\ TokensOf(u, S) = Total(g, S)
  BY DEF TokensOf
<1> HIDE DEF f, g
<1> QED
  BY <1>1, <1>2, SumAgree

\* Every cached path belongs to one node.
LEMMA PathOwner ==
  ASSUME NEW t, Tree(t), NEW p \in Paths(t)
  PROVE  /\ p \in Name /\ Pages(p) \in Nat \ {0}
         /\ \E n \in Inner(t) : Pre(p, n) /\ Pages(t[n].parent) < Pages(p)
         /\ \A n, c \in Inner(t) : /\ Pre(p, n) /\ Pages(t[n].parent) < Pages(p)
                                   /\ Pre(p, c) /\ Pages(t[c].parent) < Pages(p)
                                   => n = c
<1> DEFINE S == {n \in DOMAIN t : Pre(p, n)}
           L == {Pages(n) : n \in S}
<1>0. /\ p \in Name /\ p # Root /\ Pages(Root) = 0 /\ Root \in Name
      /\ DOMAIN t \subseteq Name /\ \A y \in Name : Pages(y) \in Nat
  BY NameLen, RootName DEF Tree, Paths
<1>1. S # {} /\ L \subseteq Nat /\ L # {}
  BY <1>0 DEF Paths
<1>2. Min(L) \in L /\ \A y \in L : Min(L) <= y
  BY <1>1, MinExists
<1>3. PICK n \in S : \A y \in S : Pages(n) <= Pages(y)
  BY <1>2
<1>4. Pages(p) \in Nat \ {0}
  BY <1>0, PreFacts, PreSame
<1>5. n \in Inner(t)
  BY <1>0, <1>3, <1>4 DEF Inner, Pre
<1>6. Pages(t[n].parent) < Pages(p)
  <2> DEFINE q == t[n].parent
  <2> SUFFICES ASSUME Pages(p) <= Pages(q) PROVE FALSE
    BY <1>0, <1>5 DEF Tree
  <2>1. q \in DOMAIN t /\ Pre(q, n) /\ Pages(q) < Pages(n) /\ q \in Name
    BY <1>0, <1>5 DEF Tree
  <2>2. Pre(p, q)
    BY <1>0, <1>3, <2>1, PreFacts
  <2> QED
    BY <1>0, <1>3, <2>1, <2>2
<1>7. ASSUME NEW a \in Inner(t), NEW c \in Inner(t),
             Pre(p, a), Pages(t[a].parent) < Pages(p), Pre(p, c), Pages(t[c].parent) < Pages(p)
      PROVE  Pre(a, c) /\ a \in Name
  <2>1. /\ a \in Name /\ c \in Name /\ c \in DOMAIN t
        /\ Pages(t[a].parent) \in Nat /\ Pages(p) \in Nat /\ Pages(c) \in Nat
    BY <1>0 DEF Inner, Tree
  <2>2. Shares(t, a, c)
    BY <1>7, <2>1 DEF Shares, Pre
  <2> QED
    BY <2>1, <2>2 DEF Tree
<1>8. \A a, c \in Inner(t) : /\ Pre(p, a) /\ Pages(t[a].parent) < Pages(p)
                             /\ Pre(p, c) /\ Pages(t[c].parent) < Pages(p)
                             => a = c
  BY <1>7, PreSame DEF Pre
<1> QED
  BY <1>0, <1>3, <1>4, <1>5, <1>6, <1>8

-----------------------------------------------------------------------------
(* Splitting a node.                                                       *)

\* Cutting a name and its prefix.
LEMMA CutSame ==
  ASSUME NEW m \in Name, NEW n \in Name, Pre(m, n), NEW j \in 0 .. Pages(m)
  PROVE  Cut(m, j) = Cut(n, j)
<1>1. Pages(m) \in Nat /\ Pages(n) \in Nat /\ Pages(m) <= Pages(n)
  BY NameLen DEF Pre
<1>2. j \in 0 .. Pages(n)
  BY <1>1
<1>3. Cut(m, j) \in Name /\ Pages(Cut(m, j)) = j /\ Pre(Cut(m, j), m)
  BY CutFacts
<1>4. Cut(n, j) \in Name /\ Pages(Cut(n, j)) = j /\ Pre(Cut(n, j), n)
  BY <1>2, CutFacts
<1>5. Pre(Cut(m, j), n)
  BY <1>3, PreFacts
<1> QED
  BY <1>1, <1>3, <1>4, <1>5, PreFacts

\* A name is its own cut at its end.
LEMMA CutEnd ==
  ASSUME NEW m \in Name, NEW n \in Name, Pre(m, n)
  PROVE  Cut(n, Pages(m)) = m
<1>1. Pages(m) \in Nat /\ Pages(n) \in Nat /\ Pages(m) <= Pages(n)
  BY NameLen DEF Pre
<1>2. Pages(m) \in 0 .. Pages(n)
  BY <1>1
<1>3. LET x == Cut(n, Pages(m)) IN x \in Name /\ Pages(x) = Pages(m) /\ Pre(x, n)
  BY <1>2, CutFacts
<1> QED
  BY <1>1, <1>3, PreFacts

\* The two parts of a sequence.
LEMMA SeqCut ==
  ASSUME NEW A, NEW s \in Seq(A), NEW k \in 0 .. Len(s)
  PROVE  /\ SubSeq(s, 1, k) \in Seq(A) /\ Len(SubSeq(s, 1, k)) = k
         /\ \A i \in 1 .. k : SubSeq(s, 1, k)[i] = s[i]
         /\ SubSeq(s, k + 1, Len(s)) \in Seq(A) /\ Len(SubSeq(s, k + 1, Len(s))) = Len(s) - k
         /\ \A i \in 1 .. Len(s) - k : SubSeq(s, k + 1, Len(s))[i] = s[i + k]
  OBVIOUS

\* What a split makes of the nodes.
LEMMA SplitNodeFacts ==
  ASSUME NEW t, Tree(t), Fields(t), NEW c \in Inner(t), NEW upper \in Name, Pre(upper, c),
         Pages(t[c].parent) < Pages(upper), Pages(upper) < Pages(c)
  PROVE  LET u == SplitNode(t, c, upper)
             k == Pages(upper) - Pages(t[c].parent)
         IN  /\ SplitShape(t, u, c, upper) /\ Fields(u)
             /\ u[upper].lock = t[c].lock /\ u[c].lock = t[c].lock
             /\ u[upper].value = SubSeq(t[c].value, 1, k)
             /\ u[c].value = SubSeq(t[c].value, k + 1, Len(t[c].value))
             /\ \A x \in DOMAIN t \ {c} : u[x] = t[x]
<1> DEFINE u == SplitNode(t, c, upper)
           p == t[c].parent
           k == Pages(upper) - Pages(p)
           v == t[c].value
           h == t[c].hash
           top == [parent |-> p, value |-> SubSeq(v, 1, k), lock |-> t[c].lock, hash |-> SubSeq(h, 1, k)]
           low == [parent |-> upper, value |-> SubSeq(v, k + 1, Len(v)), lock |-> t[c].lock,
                   hash |-> SubSeq(h, k + 1, Len(h))]
<1>0. /\ c \in DOMAIN t /\ c # Root /\ c \in Name /\ p \in DOMAIN t /\ p \in Name /\ Pre(p, c)
      /\ DOMAIN t \subseteq Name /\ Root \in DOMAIN t
      /\ Pages(p) \in Nat /\ Pages(upper) \in Nat /\ Pages(c) \in Nat
  BY NameLen DEF Tree, Inner
<1>1. upper \notin DOMAIN t
  <2> SUFFICES ASSUME upper \in DOMAIN t PROVE FALSE
    OBVIOUS
  <2>1. Pages(upper) <= Pages(p)
    BY ParentLongest
  <2> QED
    BY <1>0, <2>1
<1>2. t[c] = [parent |-> p, value |-> v, lock |-> t[c].lock, hash |-> h]
  BY DEF Fields
<1>t. /\ top.parent = p /\ top.value = SubSeq(v, 1, k) /\ top.lock = t[c].lock
      /\ top.hash = SubSeq(h, 1, k)
      /\ top = [parent |-> top.parent, value |-> top.value, lock |-> top.lock, hash |-> top.hash]
  OBVIOUS
<1>l. /\ low.parent = upper /\ low.value = SubSeq(v, k + 1, Len(v)) /\ low.lock = t[c].lock
      /\ low.hash = SubSeq(h, k + 1, Len(h))
      /\ low = [parent |-> low.parent, value |-> low.value, lock |-> low.lock, hash |-> low.hash]
  OBVIOUS
<1>3. u = With(With(t, c, low), upper, top)
  BY DEF SplitNode, SplitPages, SplitLock
<1> HIDE DEF u, top, low
<1>4. /\ DOMAIN u = DOMAIN t \cup {upper} /\ u[upper] = top /\ u[c] = low
      /\ \A x \in DOMAIN t \ {c} : u[x] = t[x]
  BY <1>0, <1>1, <1>3 DEF With
<1>6. SplitShape(t, u, c, upper)
  BY <1>4, <1>t, <1>l DEF SplitShape
<1>7. /\ v \in Seq(1 .. NumPages) /\ Len(v) = Pages(c) - Pages(p)
      /\ h \in Seq(Name) /\ Len(h) = Pages(c) - Pages(p)
      /\ \A i \in 1 .. Len(h) : h[i] = Cut(c, Pages(p) + i)
      /\ t[c].lock = t[c].lock
  BY DEF Fields
<1>8. k \in Nat /\ k < Pages(c) - Pages(p) /\ k + Pages(p) = Pages(upper)
  BY <1>0
<1>9. /\ u[Root] = t[Root]
  BY <1>0, <1>4
<1>10. ASSUME NEW n \in Inner(u)
       PROVE  /\ u[n] = [parent |-> u[n].parent, value |-> u[n].value, lock |-> u[n].lock, hash |-> u[n].hash]
              /\ u[n].value \in Seq(1 .. NumPages) /\ Len(u[n].value) = Pages(n) - Pages(u[n].parent)
              /\ u[n].hash \in Seq(Name) /\ Len(u[n].hash) = Pages(n) - Pages(u[n].parent)
              /\ \A i \in 1 .. Len(u[n].hash) : u[n].hash[i] = Cut(n, Pages(u[n].parent) + i)
  <2>1. CASE n = upper
    <3>0. k \in 0 .. Len(v) /\ k \in 0 .. Len(h)
      BY <1>7, <1>8
    <3> HIDE DEF v, h, k
    <3>2. /\ SubSeq(v, 1, k) \in Seq(1 .. NumPages) /\ Len(SubSeq(v, 1, k)) = k
          /\ SubSeq(h, 1, k) \in Seq(Name) /\ Len(SubSeq(h, 1, k)) = k
          /\ \A i \in 1 .. k : SubSeq(h, 1, k)[i] = h[i]
      <4>1. v \in Seq(1 .. NumPages) /\ h \in Seq(Name)
        BY <1>7
      <4>2. SubSeq(v, 1, k) \in Seq(1 .. NumPages) /\ Len(SubSeq(v, 1, k)) = k
        BY <3>0, <4>1, SeqCut
      <4>3. /\ SubSeq(h, 1, k) \in Seq(Name) /\ Len(SubSeq(h, 1, k)) = k
            /\ \A i \in 1 .. k : SubSeq(h, 1, k)[i] = h[i]
        BY <3>0, <4>1, SeqCut
      <4> QED
        BY <4>2, <4>3
    <3>3. ASSUME NEW i \in 1 .. k PROVE h[i] = Cut(upper, Pages(p) + i)
      <4>1. h[i] = Cut(c, Pages(p) + i) /\ Pages(p) + i \in 0 .. Pages(upper)
        BY <1>0, <1>7, <1>8
      <4> QED
        BY <1>0, <4>1, CutSame
    <3>4. k = Pages(upper) - Pages(p)
      BY <1>0, <1>8
    <3> HIDE DEF p
    <3>5. u[n] = top
      BY <1>4, <2>1
    <3> QED
      BY Zenon, <1>t, <2>1, <3>2, <3>3, <3>4, <3>5
  <2>2. CASE n = c
    <3> DEFINE m == Pages(c) - Pages(p)
    <3> HIDE DEF v, h, k
    <3>0. Len(v) = m /\ Len(h) = m /\ m \in Nat /\ k \in Nat /\ k < m /\ m - k = Pages(c) - Pages(upper)
      BY <1>0, <1>7, <1>8
    <3>9. k \in 0 .. m
      BY <3>0
    <3> HIDE DEF m
    <3>2. /\ SubSeq(v, k + 1, m) \in Seq(1 .. NumPages) /\ Len(SubSeq(v, k + 1, m)) = m - k
          /\ SubSeq(h, k + 1, m) \in Seq(Name) /\ Len(SubSeq(h, k + 1, m)) = m - k
          /\ \A i \in 1 .. m - k : SubSeq(h, k + 1, m)[i] = h[i + k]
      <4>1. v \in Seq(1 .. NumPages) /\ h \in Seq(Name) /\ k \in 0 .. Len(v) /\ k \in 0 .. Len(h)
        BY <1>7, <3>0, <3>9
      <4>2. SubSeq(v, k + 1, Len(v)) \in Seq(1 .. NumPages) /\ Len(SubSeq(v, k + 1, Len(v))) = Len(v) - k
        BY <4>1, SeqCut
      <4>3. /\ SubSeq(h, k + 1, Len(h)) \in Seq(Name) /\ Len(SubSeq(h, k + 1, Len(h))) = Len(h) - k
            /\ \A i \in 1 .. Len(h) - k : SubSeq(h, k + 1, Len(h))[i] = h[i + k]
        BY <4>1, SeqCut
      <4> QED
        BY Zenon, <3>0, <4>2, <4>3
    <3>3. ASSUME NEW i \in 1 .. m - k PROVE h[i + k] = Cut(c, Pages(upper) + i)
      <4>1. i + k \in 1 .. Len(h) /\ Pages(p) + (i + k) = Pages(upper) + i
        BY <1>0, <1>8, <3>0
      <4> QED
        BY <1>7, <4>1
    <3> HIDE DEF p
    <3>5. u[n] = low
      BY <1>4, <2>2
    <3>6. low.value = SubSeq(v, k + 1, m) /\ low.hash = SubSeq(h, k + 1, m)
      BY Zenon, <1>l, <3>0
    <3>7. m - k = Pages(n) - Pages(upper)
      BY <2>2, <3>0
    <3> QED
      BY Zenon, <1>l, <2>2, <3>2, <3>3, <3>5, <3>6, <3>7
  <2>3. CASE n # upper /\ n # c
    <3>1. n \in Inner(t) /\ u[n] = t[n]
      BY <1>4, <2>3 DEF Inner
    <3> QED
      BY <3>1 DEF Fields
  <2> QED
    BY <2>1, <2>2, <2>3
<1>11. Fields(u)
  BY <1>9, <1>10 DEF Fields
<1>12. /\ u[upper].lock = t[c].lock /\ u[c].lock = t[c].lock
       /\ u[upper].value = SubSeq(t[c].value, 1, k)
       /\ u[c].value = SubSeq(t[c].value, k + 1, Len(t[c].value))
  BY Zenon, <1>4, <1>t, <1>l
<1> QED
  BY Zenon, <1>4, <1>6, <1>11, <1>12 DEF u

\* Splits do not move tokens between nodes of different locks.
LEMMA SplitTokens ==
  ASSUME NEW t, Tree(t), NEW c \in Inner(t), NEW upper \in Name, Pre(upper, c),
         Pages(t[c].parent) < Pages(upper), Pages(upper) < Pages(c),
         NEW u, SplitShape(t, u, c, upper), NEW S \in SUBSET Inner(t)
  PROVE  /\ c \in S => TokensOf(u, S \cup {upper}) = TokensOf(t, S)
         /\ c \notin S => TokensOf(u, S) = TokensOf(t, S)
<1>1. Tree(u) /\ upper \notin DOMAIN t /\ upper # Root
  BY SplitTree
<1>2. /\ IsFiniteSet(S) /\ S \subseteq DOMAIN t /\ S \subseteq DOMAIN u /\ upper \notin S
      /\ S \subseteq Inner(u) /\ upper \in Inner(u) /\ c \in Inner(u)
      /\ u[upper].parent = t[c].parent /\ u[c].parent = upper
  BY <1>1, TokensFacts DEF SplitShape, Inner
<1>3. CASE c \notin S
  <2>1. \A n \in S : t[n].parent = u[n].parent
    BY <1>2, <1>3 DEF SplitShape
  <2> QED
    BY <1>2, <1>3, <2>1, TokensAgree
<1>4. CASE c \in S
  <2> DEFINE R == S \ {c}
             B == S \cup {upper}
  <2>1. TokensOf(t, R) = TokensOf(u, R)
    <3>1. IsFiniteSet(R) /\ R \subseteq DOMAIN t /\ R \subseteq DOMAIN u
      BY <1>2, FS_Subset
    <3>2. \A n \in R : t[n].parent = u[n].parent
      BY <1>2 DEF SplitShape
    <3> QED
      BY <3>1, <3>2, TokensAgree
  <2>2. TokensOf(t, S) = KeyLen(t, c) + TokensOf(t, R)
    BY <1>4, TokensFacts
  <2>3. TokensOf(u, B) = KeyLen(u, upper) + TokensOf(u, B \ {upper})
    <3>1. B \in SUBSET Inner(u) /\ upper \in B
      BY <1>2
    <3> QED
      BY <1>1, <3>1, TokensFacts
  <2>4. TokensOf(u, S) = KeyLen(u, c) + TokensOf(u, R) /\ TokensOf(u, R) \in Nat
    <3>1. S \in SUBSET Inner(u) /\ R \in SUBSET Inner(u)
      BY <1>2
    <3> QED
      BY <1>1, <1>4, <3>1, TokensFacts
  <2>5. B \ {upper} = S
    BY <1>2
  <2>6. /\ KeyLen(t, c) = Len(c) - Len(t[c].parent)
        /\ KeyLen(u, upper) = Len(upper) - Len(t[c].parent)
        /\ KeyLen(u, c) = Len(c) - Len(upper)
        /\ Len(c) \in Nat /\ Len(upper) \in Nat /\ Len(t[c].parent) \in Nat
    BY <1>1, <1>2, KeyLenFacts
  <2>7. KeyLen(t, c) = KeyLen(u, upper) + KeyLen(u, c)
    BY <2>6
  <2> HIDE DEF R, B
  <2>8. TokensOf(u, B) = TokensOf(t, S)
    <3>1. TokensOf(u, B) = KeyLen(u, upper) + TokensOf(u, S)
      BY Zenon, <2>3, <2>5
    <3> DEFINE a == TokensOf(u, R)
               b == KeyLen(u, upper)
               d == KeyLen(u, c)
               e == KeyLen(t, c)
    <3>2. /\ a \in Nat /\ b \in Int /\ d \in Int /\ e = b + d
          /\ TokensOf(t, S) = e + a /\ TokensOf(u, S) = d + a /\ TokensOf(u, B) = b + TokensOf(u, S)
      <4>1. b \in Int /\ d \in Int
        BY <2>6
      <4> QED
        BY Zenon, <2>1, <2>2, <2>4, <2>7, <3>1, <4>1
    <3> HIDE DEF a, b, d, e
    <3> QED
      BY <3>2
  <2> QED
    BY <1>4, <2>8 DEF B
<1> QED
  BY <1>3, <1>4

\* A split keeps the invariant.
LEMMA SplitObject ==
  ASSUME NEW s, NEW l, Object(s, l), NEW c \in Inner(s.node), NEW upper \in Name, Pre(upper, c),
         Pages(s.node[c].parent) < Pages(upper), Pages(upper) < Pages(c)
  PROVE  Object([s EXCEPT !.node = SplitNode(s.node, c, upper)], l)
<1> DEFINE t == s.node
           u == SplitNode(t, c, upper)
           z == [s EXCEPT !.node = u]
<1>0. Tree(t) /\ Fields(t) /\ IsObject(s) /\ l \in [Req -> DOMAIN t] /\ Locks(t, l)
  BY DEF Object
<1>1. /\ IsObject(z) /\ z.node = u /\ z.leaves = s.leaves /\ z.blocks = s.blocks
      /\ z.evictable = s.evictable /\ z.protected = s.protected
  <2> HIDE DEF u
  <2> QED
    BY <1>0 DEF IsObject
<1>2. /\ SplitShape(t, u, c, upper) /\ Fields(u)
      /\ u[upper].lock = t[c].lock /\ u[c].lock = t[c].lock
      /\ \A x \in DOMAIN t \ {c} : u[x] = t[x]
  BY <1>0, SplitNodeFacts
<1> HIDE DEF u, z
<1>3. /\ Tree(u) /\ upper \notin DOMAIN t /\ upper # Root
      /\ \A x \in DOMAIN t : Pre(upper, x) <=> Pre(c, x)
  BY <1>0, <1>2, SplitTree
<1> HIDE DEF t
<1>4. /\ DOMAIN u = DOMAIN t \cup {upper} /\ Inner(u) = Inner(t) \cup {upper} /\ c \in DOMAIN t
      /\ c # upper /\ u[upper].parent = t[c].parent /\ u[c].parent = upper
      /\ upper \notin Inner(t) /\ c \in Inner(t)
  BY <1>2, <1>3 DEF SplitShape, Inner, t
<1>5. l \in [Req -> DOMAIN u]
  BY <1>0, <1>4
<1>6. Locks(u, l)
  <2> SUFFICES ASSUME NEW n \in Inner(u) PROVE u[n].lock = Cardinality(Below(l, n))
    BY DEF Locks
  <2>1. CASE n = upper
    <3>1. Below(l, upper) = Below(l, c)
      BY <1>0, <1>3 DEF Below
    <3> QED
      BY <1>0, <1>2, <1>4, <2>1, <3>1 DEF Locks
  <2>2. CASE n # upper
    <3>1. n \in Inner(t) /\ u[n].lock = t[n].lock
      BY <1>2, <1>4, <2>2 DEF Inner
    <3> QED
      BY <1>0, <3>1 DEF Locks
  <2> QED
    BY <2>1, <2>2
<1>7. \A n \in Inner(t) : u[n].lock = t[n].lock
  BY <1>2 DEF Inner
<1>8. Sums(z)
  <2>1. Unlocked(u) = IF c \in Unlocked(t) THEN Unlocked(t) \cup {upper} ELSE Unlocked(t)
    BY <1>2, <1>4, <1>7 DEF Unlocked
  <2>2. Locked(u) = IF c \in Locked(t) THEN Locked(t) \cup {upper} ELSE Locked(t)
    BY <1>2, <1>4, <1>7 DEF Locked
  <2>3. Unlocked(t) \in SUBSET Inner(t) /\ Locked(t) \in SUBSET Inner(t)
    BY DEF Unlocked, Locked
  <2>4. Pages(t[c].parent) < Pages(upper)
    BY DEF t
  <2>5. TokensOf(u, Unlocked(u)) = TokensOf(t, Unlocked(t))
    <3> DEFINE S == Unlocked(t)
    <3>0. S \in SUBSET Inner(t)
      BY <2>3
    <3> HIDE DEF S
    <3>1. /\ c \in S => TokensOf(u, S \cup {upper}) = TokensOf(t, S)
          /\ c \notin S => TokensOf(u, S) = TokensOf(t, S)
      BY <1>0, <1>2, <1>4, <2>4, <3>0, SplitTokens
    <3> USE DEF S
    <3> QED
      BY Zenon, <2>1, <3>1
  <2>6. TokensOf(u, Locked(u)) = TokensOf(t, Locked(t))
    <3> DEFINE S == Locked(t)
    <3>0. S \in SUBSET Inner(t)
      BY <2>3
    <3> HIDE DEF S
    <3>1. /\ c \in S => TokensOf(u, S \cup {upper}) = TokensOf(t, S)
          /\ c \notin S => TokensOf(u, S) = TokensOf(t, S)
      BY <1>0, <1>2, <1>4, <2>4, <3>0, SplitTokens
    <3> USE DEF S
    <3> QED
      BY Zenon, <2>2, <3>1
  <2>7. s.evictable = TokensOf(t, Unlocked(t)) /\ s.protected = TokensOf(t, Locked(t))
    BY DEF Object, Sums, t
  <2> QED
    BY <1>1, <2>5, <2>6, <2>7 DEF Sums
<1>9. ASSUME NEW x \in Inner(t) PROVE Children(u, x) = {} <=> Children(t, x) = {}
  <2>1. CASE x = t[c].parent
    BY <1>4, <2>1 DEF Children, Inner
  <2>2. CASE x # t[c].parent
    <3>1. x # upper
      BY <1>4
    <3>2. \A n \in DOMAIN t \ {c} : u[n].parent = t[n].parent
      BY <1>2
    <3>3. Children(u, x) = Children(t, x)
      BY <1>4, <2>2, <3>1, <3>2 DEF Children
    <3> QED
      BY <3>3
  <2> QED
    BY <2>1, <2>2
<1>10. Frontier(u) = Frontier(t)
  <2>1. c \in Children(u, upper)
    BY <1>3, <1>4 DEF Children, Inner
  <2> QED
    BY <1>4, <1>7, <1>9, <2>1 DEF Frontier, Unlocked
<1>11. Paths(u) = Paths(t)
  <2>1. ASSUME NEW q \in Name, Pre(q, upper) PROVE Pre(q, c)
    <3>1. c \in Name
      BY <1>0, <1>4 DEF Tree
    <3> QED
      BY <2>1, <3>1, PreFacts
  <2> QED
    BY <1>4, <2>1 DEF Paths
<1>12. s.leaves = Frontier(t) /\ s.blocks = {Announced(q) : q \in Paths(t)}
  BY DEF Object, t
<1>13. Object(z, l)
  BY <1>1, <1>2, <1>3, <1>5, <1>6, <1>8, <1>10, <1>11, <1>12 DEF Object
<1> QED
  BY <1>13 DEF z, u, t

-----------------------------------------------------------------------------
(* Matching a key.                                                         *)

\* What a match splits: the child that the key leaves between two nodes.
LEMMA MatchSplits ==
  ASSUME NEW s, Tree(s.node), NEW key \in Name
  PROVE  LET t == s.node
             n == Descend(t, key)
         IN  \/ Branch(t, n, key) = {} /\ Matched(s, key) = s
             \/ \E c \in Inner(t), upper \in Name :
                  /\ t[c].parent = n
                  /\ Pages(n) < Pages(upper) /\ Pages(upper) < Pages(c)
                  /\ Pre(upper, c) /\ Pre(upper, key)
                  /\ Pages(upper) < Pages(key) => Block(c, Pages(upper) + 1) # Block(key, Pages(upper) + 1)
                  /\ Matched(s, key) = [s EXCEPT !.node = SplitNode(t, c, upper)]
<1> DEFINE t == s.node
           n == Descend(t, key)
<1>0. /\ n \in DOMAIN t /\ Pre(n, key)
      /\ \A x \in DOMAIN t : Pre(x, key) => Pages(x) <= Pages(n)
      /\ n \in Name /\ Tree(t)
  BY DescendFacts DEF Tree
<1> HIDE DEF n
<1>1. CASE Branch(t, n, key) = {}
  BY <1>1 DEF Matched, n
<1>2. CASE Branch(t, n, key) # {}
  <2> DEFINE c == CHOOSE x \in Branch(t, n, key) : TRUE
             k == Common(c, key)
             upper == Cut(key, k)
  <2>1. c \in Branch(t, n, key)
    BY <1>2
  <2>2. Matched(s, key) = [s EXCEPT !.node = SplitNode(t, c, upper)]
    BY <1>2 DEF Matched, Cut, n
  <2> HIDE DEF c
  <2>3. /\ c \in Inner(t) /\ t[c].parent = n /\ Pages(n) < Pages(key)
        /\ Block(c, Pages(n) + 1) = Block(key, Pages(n) + 1)
    BY <1>0, <2>1, BranchFacts
  <2>4. /\ c \in Name /\ c \in DOMAIN t /\ Pre(n, c) /\ Pages(n) < Pages(c)
        /\ Pages(c) \in Nat /\ Pages(n) \in Nat /\ Pages(key) \in Nat
    BY <1>0, <2>3, NameLen DEF Tree, Inner
  <2>5. /\ k \in Nat /\ k <= Pages(c) /\ k <= Pages(key)
        /\ \A i \in 1 .. k : Block(c, i) = Block(key, i)
        /\ k < Pages(c) /\ k < Pages(key) => Block(c, k + 1) # Block(key, k + 1)
    BY <2>4, CommonFacts
  <2> HIDE DEF k
  <2>6. Pages(n) < k
    <3> SUFFICES ASSUME k <= Pages(n) PROVE FALSE
      BY <2>4, <2>5
    <3>1. Block(c, k + 1) = Block(key, k + 1)
      BY <1>0, <2>3, <2>4, <2>5 DEF Pre
    <3> QED
      BY <2>3, <2>4, <2>5, <3>1
  <2>7. k < Pages(c)
    <3> SUFFICES ASSUME k = Pages(c) PROVE FALSE
      BY <2>4, <2>5
    <3>1. Pre(c, key)
      BY <2>4, <2>5 DEF Pre
    <3>2. Pages(c) <= Pages(n)
      BY <1>0, <2>4, <3>1
    <3> QED
      BY <2>4, <3>2
  <2>8. k \in 0 .. Pages(key)
    BY <2>4, <2>5
  <2>9. /\ upper \in Name /\ Pages(upper) = k /\ Pre(upper, key)
        /\ \A i \in 1 .. k : Block(upper, i) = Block(key, i)
    BY <2>8, CutFacts
  <2> HIDE DEF upper
  <2>10. Pre(upper, c)
    BY <2>4, <2>5, <2>9 DEF Pre
  <2>11. /\ t[c].parent = n /\ c \in Inner(t) /\ upper \in Name
         /\ Pages(n) < Pages(upper) /\ Pages(upper) < Pages(c)
         /\ Pre(upper, c) /\ Pre(upper, key)
         /\ Pages(upper) < Pages(key) => Block(c, Pages(upper) + 1) # Block(key, Pages(upper) + 1)
    BY <2>3, <2>5, <2>6, <2>7, <2>9, <2>10
  <2> QED
    BY Zenon, <2>2, <2>11 DEF n
<1> QED
  BY <1>1, <1>2

\* A match keeps the invariant and ends at a node that no child goes on from.
LEMMA MatchedFacts ==
  ASSUME NEW s, NEW l, Object(s, l), NEW key \in Name
  PROVE  LET m == Matched(s, key)
             n == Descend(m.node, key)
         IN  /\ Object(m, l)
             /\ n \in DOMAIN m.node /\ n \in Name /\ Pre(n, key) /\ Branch(m.node, n, key) = {}
             /\ DOMAIN s.node \subseteq DOMAIN m.node
             /\ m.blocks = s.blocks
<1> DEFINE t == s.node
           n == Descend(t, key)
           m == Matched(s, key)
           Goal(z) == LET e == Descend(z.node, key)
                      IN  /\ Object(z, l)
                          /\ e \in DOMAIN z.node /\ e \in Name /\ Pre(e, key) /\ Branch(z.node, e, key) = {}
                          /\ DOMAIN s.node \subseteq DOMAIN z.node
                          /\ z.blocks = s.blocks
<1>0. /\ Tree(t) /\ Fields(t) /\ IsObject(s) /\ n \in DOMAIN t /\ Pre(n, key) /\ n \in Name
      /\ \A x \in DOMAIN t : Pre(x, key) => Pages(x) <= Pages(n) /\ Pre(x, n)
  BY DescendFacts DEF Object, Tree
<1>1. CASE Branch(t, n, key) = {} /\ m = s
  BY <1>0, <1>1
<1>2. CASE \E c \in Inner(t), upper \in Name :
             /\ t[c].parent = n
             /\ Pages(n) < Pages(upper) /\ Pages(upper) < Pages(c)
             /\ Pre(upper, c) /\ Pre(upper, key)
             /\ Pages(upper) < Pages(key) => Block(c, Pages(upper) + 1) # Block(key, Pages(upper) + 1)
             /\ m = [s EXCEPT !.node = SplitNode(t, c, upper)]
  <2>1. PICK c \in Inner(t), upper \in Name :
             /\ t[c].parent = n
             /\ Pages(n) < Pages(upper) /\ Pages(upper) < Pages(c)
             /\ Pre(upper, c) /\ Pre(upper, key)
             /\ Pages(upper) < Pages(key) => Block(c, Pages(upper) + 1) # Block(key, Pages(upper) + 1)
             /\ m = [s EXCEPT !.node = SplitNode(t, c, upper)]
    BY <1>2
  <2> DEFINE u == SplitNode(t, c, upper)
             z == [s EXCEPT !.node = u]
  <2>2. Object(z, l)
    <3> HIDE DEF n
    <3> QED
      BY <2>1, SplitObject
  <2>3. z.node = u /\ z.blocks = s.blocks
    <3> HIDE DEF u
    <3> QED
      BY <1>0 DEF IsObject
  <2>4. SplitShape(t, u, c, upper)
    <3> HIDE DEF n, t
    <3> QED
      BY <1>0, <2>1, SplitNodeFacts
  <2>5. /\ Tree(u) /\ DOMAIN u = DOMAIN t \cup {upper} /\ u[c].parent = upper
        /\ u[upper].parent = n /\ \A x \in DOMAIN t \ {c} : u[x].parent = t[x].parent
    BY <2>1, <2>2, <2>3, <2>4 DEF SplitShape, Object
  <2> HIDE DEF u
  <2>6. Descend(u, key) = upper
    <3>1. ASSUME NEW x \in DOMAIN u, Pre(x, key) PROVE Pages(x) <= Pages(upper)
      <4>1. CASE x = upper
        BY <4>1, NameLen
      <4>2. CASE x # upper
        <5>1. x \in Name /\ Pages(x) <= Pages(n)
          BY <1>0, <2>5, <3>1, <4>2 DEF Tree
        <5> QED
          BY <1>0, <2>1, <5>1, NameLen
      <4> QED
        BY <4>1, <4>2
    <3> HIDE DEF t, n
    <3> QED
      BY <2>1, <2>5, <3>1, DescendIs
  <2>7. Branch(u, upper, key) = {}
    <3> SUFFICES ASSUME NEW x \in Branch(u, upper, key) PROVE FALSE
      OBVIOUS
    <3>1. /\ x \in Inner(u) /\ u[x].parent = upper /\ Pages(upper) < Pages(key)
          /\ Block(x, Pages(upper) + 1) = Block(key, Pages(upper) + 1)
      BY <2>1, <2>5, BranchFacts
    <3>2. upper \notin DOMAIN t
      BY <1>0, <2>1, <2>4, SplitTree
    <3>3. x = c
      <4> SUFFICES ASSUME x # c PROVE FALSE
        OBVIOUS
      <4>1. x # upper
        <5>1. n # upper
          BY <1>0, <2>1, NameLen
        <5> QED
          BY <2>5, <3>1, <5>1
      <4>2. x \in DOMAIN t \ {c} /\ x # Root
        BY <2>5, <3>1, <4>1 DEF Inner
      <4>3. t[x].parent = upper
        BY <2>5, <3>1, <4>2
      <4>4. t[x].parent \in DOMAIN t
        BY <1>0, <4>2 DEF Tree, Inner
      <4> QED
        BY <3>2, <4>3, <4>4
    <3> QED
      BY <2>1, <3>1, <3>3
  <2>8. m = z
    BY <2>1 DEF u
  <2> HIDE DEF z, t, n, m
  <2>9. Goal(z)
    BY <2>1, <2>2, <2>3, <2>5, <2>6, <2>7 DEF t
  <2> QED
    BY <2>8, <2>9 DEF m
<1> HIDE DEF t, n, m
<1> QED
  BY <1>0, <1>1, <1>2, MatchSplits DEF t, n, m

-----------------------------------------------------------------------------
(* Inserting a key.                                                        *)

\* The hashes of a node go on from its parent's path.
LEMMA LastHashIs ==
  ASSUME NEW t, Tree(t), Fields(t), NEW n \in DOMAIN t
  PROVE  LastHash(t, n) = n
<1>1. CASE n = Root
  <2>1. t[n].hash = <<>>
    BY <1>1 DEF Fields
  <2> QED
    BY <1>1, <2>1 DEF LastHash, Root
<1>2. CASE n # Root
  <2> DEFINE h == t[n].hash
             p == t[n].parent
  <2>1. /\ n \in Inner(t) /\ n \in Name /\ p \in Name /\ Pages(p) < Pages(n)
        /\ Pages(p) \in Nat /\ Pages(n) \in Nat /\ Pre(n, n)
    BY <1>2, NameLen, PreFacts DEF Tree, Inner
  <2>2. Len(h) = Pages(n) - Pages(p) /\ \A i \in 1 .. Len(h) : h[i] = Cut(n, Pages(p) + i)
    BY <2>1 DEF Fields
  <2> HIDE DEF h
  <2>3. Len(h) \in 1 .. Len(h) /\ Pages(p) + Len(h) = Pages(n) /\ Len(h) > 0
    BY <2>1, <2>2
  <2>4. h[Len(h)] = Cut(n, Pages(n))
    BY <2>2, <2>3
  <2>5. Cut(n, Pages(n)) = n
    BY <2>1, CutEnd
  <2>6. h # <<>>
    BY <2>3
  <2> QED
    BY Zenon, <2>4, <2>5, <2>6 DEF LastHash, h
<1> QED
  BY <1>1, <1>2

\* A sequence is its start and its rest.
LEMMA SeqJoin ==
  ASSUME NEW A, NEW s \in Seq(A), NEW m \in 0 .. Len(s), NEW k \in m .. Len(s)
  PROVE  SubSeq(s, 1, m) \o SubSeq(s, m + 1, k) = SubSeq(s, 1, k)
<1> DEFINE a == SubSeq(s, 1, m)
           b == SubSeq(s, m + 1, k)
           d == SubSeq(s, 1, k)
<1>1. a \in Seq(A) /\ Len(a) = m /\ \A i \in 1 .. m : a[i] = s[i]
  OBVIOUS
<1>2. b \in Seq(A) /\ Len(b) = k - m /\ \A i \in 1 .. k - m : b[i] = s[m + i]
  OBVIOUS
<1>3. d \in Seq(A) /\ Len(d) = k /\ \A i \in 1 .. k : d[i] = s[i]
  OBVIOUS
<1> HIDE DEF a, b, d
<1>4. a \o b \in Seq(A) /\ Len(a \o b) = k
  BY <1>1, <1>2
<1>5. \A i \in 1 .. k : (a \o b)[i] = d[i]
  <2> TAKE i \in 1 .. k
  <2>1. (a \o b)[i] = IF i <= m THEN a[i] ELSE b[i - m]
    BY <1>1, <1>2
  <2>2. CASE i <= m
    BY <2>1, <2>2, <1>1, <1>3
  <2>3. CASE i > m
    <3>1. i - m \in 1 .. k - m /\ m + (i - m) = i
      BY <2>3
    <3>2. b[i - m] = s[i]
      BY <3>1, <1>2
    <3> QED
      BY <3>2, <2>1, <2>3, <1>3
  <2>4. i <= m \/ i > m
    BY <1>1
  <2> QED
    BY Zenon, <2>2, <2>3, <2>4
<1>6. a \o b = d
  BY <1>3, <1>4, <1>5
<1> QED
  BY <1>6 DEF a, b, d

\* The hashes of a new leaf are its paths.
LEMMA HashesAre ==
  ASSUME NEW t, Tree(t), Fields(t), NEW n \in DOMAIN t, NEW key \in Name, Pre(n, key)
  PROVE  LET hs == Hashes(t, n, key)
             d == Pages(key) - Pages(n)
         IN  /\ d \in Nat /\ hs \in Seq(Name) /\ Len(hs) = d /\ DOMAIN hs = 1 .. d
             /\ \A i \in 1 .. d : hs[i] = Cut(key, Pages(n) + i)
<1> DEFINE hs == Hashes(t, n, key)
           d == Pages(key) - Pages(n)
<1>0. /\ n \in Name /\ key \in Seq(Tok) /\ PageSize \in Nat \ {0}
      /\ Pages(n) \in Nat /\ Len(n) = Pages(n) * PageSize /\ Len(n) \in Nat
      /\ Pages(key) \in Nat /\ Len(key) = Pages(key) * PageSize /\ Len(key) \in Nat
      /\ Pages(n) <= Pages(key) /\ d \in Nat
      /\ SubSeq(key, 1, Len(n)) = n /\ Len(n) <= Len(key)
  BY TreeAssumption, NameLen, PreIsPrefix DEF Tree, Pre
<1>1. LastHash(t, n) = n
  BY LastHashIs
<1>2. ASSUME NEW i \in 1 .. d
      PROVE  n \o SubSeq(key, Len(n) + 1, (Pages(n) + i) * PageSize) = Cut(key, Pages(n) + i)
  <2> DEFINE k == (Pages(n) + i) * PageSize
  <2>1. Pages(n) + i \in Nat /\ Pages(n) <= Pages(n) + i /\ Pages(n) + i <= Pages(key)
    BY <1>0
  <2>2. Len(n) <= k /\ k <= Len(key) /\ k \in Int
    BY <1>0, <2>1, Scale
  <2>3. k \in Len(n) .. Len(key) /\ Len(n) \in 0 .. Len(key)
    BY <1>0, <2>2
  <2> HIDE DEF k
  <2>4. SubSeq(key, 1, Len(n)) \o SubSeq(key, Len(n) + 1, k) = SubSeq(key, 1, k)
    BY <1>0, <2>3, SeqJoin
  <2> QED
    BY Zenon, <1>0, <2>4 DEF Cut, k
<1>3. hs = [i \in 1 .. d |-> Cut(key, Pages(n) + i)]
  <2>1. hs = [i \in 1 .. d |-> n \o SubSeq(key, Len(n) + 1, (Pages(n) + i) * PageSize)]
    BY Zenon, <1>1 DEF Hashes
  <2> HIDE DEF d, hs
  <2> QED
    BY Zenon, <1>2, <2>1
<1>4. \A i \in 1 .. d : Cut(key, Pages(n) + i) \in Name
  <2> SUFFICES ASSUME NEW i \in 1 .. d PROVE Cut(key, Pages(n) + i) \in Name
    OBVIOUS
  <2>1. Pages(n) + i \in 0 .. Pages(key)
    BY <1>0
  <2> QED
    BY <2>1, CutFacts
<1>5. hs \in [1 .. d -> Name] /\ \A i \in 1 .. d : hs[i] = Cut(key, Pages(n) + i)
  <2> HIDE DEF d, hs
  <2> QED
    BY Zenon, <1>3, <1>4
<1> HIDE DEF hs, d
<1>6. hs \in Seq(Name) /\ Len(hs) = d /\ DOMAIN hs = 1 .. d
  BY <1>0, <1>5, SeqOfMap
<1> QED
  BY Zenon, <1>0, <1>5, <1>6 DEF hs, d

\* The blocks announced for a new leaf are those of its paths.
LEMMA StoredAre ==
  ASSUME NEW t, Tree(t), Fields(t), NEW n \in DOMAIN t, NEW key \in Name, Pre(n, key)
  PROVE  Stored(t, n, Hashes(t, n, key))
           = {Announced(Cut(key, j)) : j \in Pages(n) + 1 .. Pages(key)}
<1> DEFINE hs == Hashes(t, n, key)
           d == Pages(key) - Pages(n)
           block(i) == [hash |-> hs[i], parent |-> IF i = 1 THEN LastHash(t, n) ELSE hs[i - 1]]
<1>0. /\ n \in Name /\ Pages(n) \in Nat /\ Pages(key) \in Nat /\ Pages(n) <= Pages(key)
  BY NameLen DEF Tree, Pre
<1>1. /\ d \in Nat /\ DOMAIN hs = 1 .. d
      /\ \A i \in 1 .. d : hs[i] = Cut(key, Pages(n) + i)
  BY HashesAre
<1>2. ASSUME NEW i \in 1 .. d PROVE block(i) = Announced(Cut(key, Pages(n) + i))
  <2> DEFINE j == Pages(n) + i
             p == Cut(key, j)
  <2>1. j \in 1 .. Pages(key) /\ j \in 0 .. Pages(key) /\ j - 1 \in 0 .. j
    BY <1>0
  <2>2. p \in Name /\ Pages(p) = j /\ Pre(p, key)
    BY <2>1, CutFacts
  <2>3. Cut(p, j - 1) = Cut(key, j - 1)
    <3> HIDE DEF p, j
    <3> QED
      BY <2>1, <2>2, CutSame
  <2>4. (IF i = 1 THEN LastHash(t, n) ELSE hs[i - 1]) = Cut(key, j - 1)
    <3>1. CASE i = 1
      <4>1. LastHash(t, n) = n /\ Cut(key, Pages(n)) = n
        BY <1>0, LastHashIs, CutEnd
      <4>2. j - 1 = Pages(n)
        BY <1>0, <3>1
      <4> QED
        BY <3>1, <4>1, <4>2
    <3>2. CASE i # 1
      <4>1. i - 1 \in 1 .. d /\ Pages(n) + (i - 1) = j - 1
        BY <1>0, <1>1, <3>2
      <4>2. hs[i - 1] = Cut(key, j - 1)
        BY <1>1, <4>1
      <4> QED
        BY <3>2, <4>2
    <3> QED
      BY <3>1, <3>2
  <2>5. hs[i] = p
    BY <1>1
  <2>6. block(i) = [hash |-> p, parent |-> Cut(p, Pages(p) - 1)]
    <3>1. Pages(p) - 1 = j - 1
      BY <2>2
    <3> HIDE DEF p, j, hs
    <3> QED
      BY Zenon, <2>3, <2>4, <2>5, <3>1
  <2> QED
    BY Zenon, <2>6 DEF Announced
<1>3. Stored(t, n, hs) = {block(i) : i \in 1 .. d}
  BY Zenon, <1>1 DEF Stored
<1>4. \A j \in Pages(n) + 1 .. Pages(key) : j - Pages(n) \in 1 .. d /\ Pages(n) + (j - Pages(n)) = j
  BY <1>0
<1>5. \A i \in 1 .. d : Pages(n) + i \in Pages(n) + 1 .. Pages(key)
  BY <1>0
<1> HIDE DEF d, hs, block
<1>6. {block(i) : i \in 1 .. d} = {Announced(Cut(key, j)) : j \in Pages(n) + 1 .. Pages(key)}
  <2>1. ASSUME NEW i \in 1 .. d
        PROVE  block(i) \in {Announced(Cut(key, j)) : j \in Pages(n) + 1 .. Pages(key)}
    BY Zenon, <1>2, <1>5
  <2>2. ASSUME NEW j \in Pages(n) + 1 .. Pages(key)
        PROVE  Announced(Cut(key, j)) \in {block(i) : i \in 1 .. d}
    <3>1. block(j - Pages(n)) = Announced(Cut(key, j))
      <4>1. block(j - Pages(n)) = Announced(Cut(key, Pages(n) + (j - Pages(n))))
        BY Zenon, <1>2, <1>4
      <4> QED
        BY Zenon, <1>4, <4>1
    <3> QED
      BY Zenon, <1>4, <3>1
  <2> QED
    BY Zenon, <2>1, <2>2
<1> QED
  BY Zenon, <1>3, <1>6 DEF hs

\* What a new leaf makes of the nodes.
LEMMA GrowNodeFacts ==
  ASSUME NEW t, Tree(t), Fields(t), NEW n \in DOMAIN t, NEW key \in Name, Pre(n, key), n # key,
         Branch(t, n, key) = {},
         NEW v \in Seq(1 .. NumPages), Len(v) = Pages(key) - Pages(n)
  PROVE  LET u == With(t, key, [parent |-> n, value |-> v, lock |-> 0, hash |-> Hashes(t, n, key)])
         IN  /\ GrowShape(t, u, n, key) /\ Fields(u)
             /\ u[key].lock = 0
             /\ \A x \in DOMAIN t : u[x] = t[x]
<1> DEFINE hs == Hashes(t, n, key)
           new == [parent |-> n, value |-> v, lock |-> 0, hash |-> hs]
           u == With(t, key, new)
<1>1. hs \in Seq(Name) /\ Len(hs) = Pages(key) - Pages(n) /\ \A i \in 1 .. Len(hs) : hs[i] = Cut(key, Pages(n) + i)
  BY HashesAre
<1>2. /\ new.parent = n /\ new.value = v /\ new.lock = 0 /\ new.hash = hs
      /\ new = [parent |-> new.parent, value |-> new.value, lock |-> new.lock, hash |-> new.hash]
  OBVIOUS
<1>3. key \notin DOMAIN t /\ key # Root
  <2> SUFFICES ASSUME key \in DOMAIN t \/ key = Root PROVE FALSE
    OBVIOUS
  <2>1. Root \in DOMAIN t /\ DOMAIN t \subseteq Name
    BY DEF Tree
  <2>2. key \in DOMAIN t /\ Pre(key, key) /\ n \in Name
    BY <2>1, PreFacts
  <2>3. Pages(n) < Pages(key)
    <3>1. Pages(n) \in Nat /\ Pages(key) \in Nat /\ Pages(n) <= Pages(key)
      BY <2>2, NameLen DEF Pre
    <3>2. Pages(n) # Pages(key)
      BY <2>2, PreFacts
    <3> QED
      BY <3>1, <3>2
  <2>4. PICK c \in Children(t, n) : Pre(c, key)
    BY <2>2, <2>3, ChildToward
  <2>5. c \in Inner(t) /\ t[c].parent = n
    BY <2>4 DEF Children, Inner
  <2>6. Block(c, Pages(n) + 1) = Block(key, Pages(n) + 1)
    <3>1. Pages(n) \in Nat /\ Pages(c) \in Nat /\ Pages(n) < Pages(c)
      BY <2>1, <2>5, NameLen DEF Tree, Inner
    <3> QED
      BY <2>4, <3>1 DEF Pre
  <2>7. c \in Branch(t, n, key)
    BY <2>3, <2>5, <2>6, BranchFacts
  <2> QED
    BY <2>7
<1> HIDE DEF new, hs
<1>4. DOMAIN u = DOMAIN t \cup {key} /\ u[key] = new /\ \A x \in DOMAIN t : u[x] = t[x]
  BY <1>3 DEF With
<1> HIDE DEF u
<1>5. GrowShape(t, u, n, key)
  BY <1>2, <1>4 DEF GrowShape
<1>6. u[Root] = t[Root]
  BY <1>4 DEF Tree
<1>7. ASSUME NEW x \in Inner(u)
       PROVE  /\ u[x] = [parent |-> u[x].parent, value |-> u[x].value, lock |-> u[x].lock, hash |-> u[x].hash]
              /\ u[x].value \in Seq(1 .. NumPages) /\ Len(u[x].value) = Pages(x) - Pages(u[x].parent)
              /\ u[x].hash \in Seq(Name) /\ Len(u[x].hash) = Pages(x) - Pages(u[x].parent)
              /\ \A i \in 1 .. Len(u[x].hash) : u[x].hash[i] = Cut(x, Pages(u[x].parent) + i)
  <2>1. CASE x = key
    BY Zenon, <1>1, <1>2, <1>4, <2>1
  <2>2. CASE x # key
    <3>1. x \in Inner(t) /\ u[x] = t[x]
      BY <1>4, <1>7, <2>2 DEF Inner
    <3> QED
      BY <3>1 DEF Fields
  <2> QED
    BY <2>1, <2>2
<1>8. Fields(u)
  BY <1>6, <1>7 DEF Fields
<1>9. u[key].lock = 0
  BY <1>2, <1>4
<1> QED
  BY Zenon, <1>4, <1>5, <1>8, <1>9 DEF u, new, hs

\* The paths of key that go on behind n.
Edge(n, key) == {Cut(key, j) : j \in Pages(n) + 1 .. Pages(key)}

\* The cached paths after a new leaf: those of before and those of its edge.
LEMMA GrowPaths ==
  ASSUME NEW t, Tree(t), NEW n \in DOMAIN t, NEW key \in Name, Pre(n, key),
         NEW u, GrowShape(t, u, n, key)
  PROVE  Paths(u) = Paths(t) \cup Edge(n, key)
<1>0. n \in Name /\ Pages(n) \in Nat /\ Pages(key) \in Nat /\ Pages(n) <= Pages(key) /\ Pages(Root) = 0
  BY NameLen, RootName DEF Tree, Pre
<1>9. DOMAIN u = DOMAIN t \cup {key}
  BY DEF GrowShape
<1>1. ASSUME NEW p \in Name, p # Root, Pre(p, key)
      PROVE  p \in Paths(t) \/ \E j \in Pages(n) + 1 .. Pages(key) : p = Cut(key, j)
  <2>1. Pages(p) \in Nat /\ Pages(p) <= Pages(key)
    BY <1>1, NameLen DEF Pre
  <2>2. CASE Pages(p) <= Pages(n)
    <3>1. Pre(p, n)
      BY <1>0, <1>1, <2>2, PreFacts
    <3> QED
      BY <1>1, <3>1 DEF Paths
  <2>3. CASE Pages(p) > Pages(n)
    <3>1. Pages(p) \in Pages(n) + 1 .. Pages(key)
      BY <1>0, <2>1, <2>3
    <3>2. p = Cut(key, Pages(p))
      BY <1>1, CutEnd
    <3> QED
      BY <3>1, <3>2
  <2> QED
    BY <1>0, <2>1, <2>2, <2>3
<1>2. ASSUME NEW j \in Pages(n) + 1 .. Pages(key)
      PROVE  Cut(key, j) \in Paths(u)
  <2>1. j \in 0 .. Pages(key) /\ j # 0
    BY <1>0
  <2>2. Cut(key, j) \in Name /\ Pages(Cut(key, j)) = j /\ Pre(Cut(key, j), key)
    BY <2>1, CutFacts
  <2>3. Cut(key, j) # Root
    BY <1>0, <2>1, <2>2
  <2> QED
    BY <1>9, <2>2, <2>3 DEF Paths
<1>3. Paths(t) \subseteq Paths(u)
  BY <1>9 DEF Paths
<1>4. ASSUME NEW p \in Paths(u)
      PROVE  p \in Paths(t) \cup {Cut(key, j) : j \in Pages(n) + 1 .. Pages(key)}
  <2>1. p \in Name /\ p # Root /\ \E x \in DOMAIN u : Pre(p, x)
    BY DEF Paths
  <2>2. Pre(p, key) \/ \E x \in DOMAIN t : Pre(p, x)
    BY <1>9, <2>1
  <2>3. CASE Pre(p, key)
    BY <1>1, <2>1, <2>3
  <2>4. CASE \E x \in DOMAIN t : Pre(p, x)
    BY <2>1, <2>4 DEF Paths
  <2> QED
    BY <2>2, <2>3, <2>4
<1> QED
  BY <1>2, <1>3, <1>4 DEF Edge

\* The object after _insert_helper added the leaf key below n.
Grown(s, n, key, v) ==
  LET t == With(s.node, key, [parent |-> n, value |-> v, lock |-> 0, hash |-> Hashes(s.node, n, key)])
  IN  [s EXCEPT !.node = t,
                !.evictable = @ + Len(key) - Len(n),
                !.leaves = LeafStatus(t, @, {n, key}),
                !.blocks = @ \cup Stored(s.node, n, Hashes(s.node, n, key))]

\* A new leaf keeps the invariant.
LEMMA GrowObject ==
  ASSUME NEW s, NEW l, Object(s, l), NEW n \in DOMAIN s.node, NEW key \in Name, Pre(n, key), n # key,
         Branch(s.node, n, key) = {},
         NEW v \in Seq(1 .. NumPages), Len(v) = Pages(key) - Pages(n)
  PROVE  LET z == Grown(s, n, key, v)
         IN  /\ Object(z, l) /\ DOMAIN z.node = DOMAIN s.node \cup {key}
             /\ \A x \in Inner(z.node) : z.node[x].parent # key
<1> DEFINE t == s.node
           hs == Hashes(t, n, key)
           u == With(t, key, [parent |-> n, value |-> v, lock |-> 0, hash |-> hs])
           e == s.evictable + Len(key) - Len(n)
           g == LeafStatus(u, s.leaves, {n, key})
           b == s.blocks \cup Stored(t, n, hs)
           z == Grown(s, n, key, v)
<1>0. Tree(t) /\ Fields(t) /\ IsObject(s) /\ l \in [Req -> DOMAIN t] /\ Locks(t, l)
  BY DEF Object
<1>1. z = [node |-> u, leaves |-> g, evictable |-> e, protected |-> s.protected, blocks |-> b]
  <2>1. z = [s EXCEPT !.node = u, !.evictable = e, !.leaves = g, !.blocks = b]
    BY Zenon DEF Grown
  <2> HIDE DEF u, g, e, b, z, t
  <2> QED
    BY <1>0, <2>1 DEF IsObject
<1>2. /\ IsObject(z) /\ z.node = u /\ z.leaves = g /\ z.blocks = b
      /\ z.evictable = e /\ z.protected = s.protected
  <2> HIDE DEF u, g, e, b, z
  <2> QED
    BY <1>1 DEF IsObject
<1>3. GrowShape(t, u, n, key) /\ Fields(u) /\ u[key].lock = 0 /\ \A x \in DOMAIN t : u[x] = t[x]
  BY <1>0, GrowNodeFacts
<1>4. b = s.blocks \cup {Announced(Cut(key, j)) : j \in Pages(n) + 1 .. Pages(key)}
  BY <1>0, StoredAre
<1> HIDE DEF u, z, hs, b
<1>5. /\ Tree(u) /\ key \notin DOMAIN t /\ key # Root /\ Children(u, key) = {}
      /\ \A x \in DOMAIN t : ~ Pre(key, x)
  BY <1>0, <1>3, GrowTree
<1>6. /\ DOMAIN u = DOMAIN t \cup {key} /\ Inner(u) = Inner(t) \cup {key} /\ key \notin Inner(t)
      /\ u[key].parent = n
  BY <1>3, <1>5 DEF GrowShape, Inner
<1>7. s.evictable = TokensOf(t, Unlocked(t)) /\ s.protected = TokensOf(t, Locked(t))
      /\ s.leaves = Frontier(t) /\ s.blocks = {Announced(q) : q \in Paths(t)} /\ n \in DOMAIN t
  BY DEF Object, Sums
<1> HIDE DEF t
<1>8. l \in [Req -> DOMAIN u]
  BY <1>0, <1>6
<1>9. Locks(u, l)
  <2> SUFFICES ASSUME NEW x \in Inner(u) PROVE u[x].lock = Cardinality(Below(l, x))
    BY DEF Locks
  <2>1. CASE x = key
    <3>1. Below(l, key) = {}
      BY <1>0, <1>5 DEF Below
    <3>2. Cardinality({}) = 0
      BY FS_EmptySet
    <3> QED
      BY <1>3, <2>1, <3>1, <3>2
  <2>2. CASE x # key
    BY <1>0, <1>3, <1>6, <2>2 DEF Locks, Inner
  <2> QED
    BY <2>1, <2>2
<1>10. Unlocked(u) = Unlocked(t) \cup {key} /\ Locked(u) = Locked(t)
  BY <1>3, <1>6 DEF Unlocked, Locked, Inner
<1>11. Unlocked(t) \in SUBSET Inner(t) /\ Locked(t) \in SUBSET Inner(t)
  BY DEF Unlocked, Locked
<1>12. \A S \in SUBSET Inner(t) : TokensOf(u, S) = TokensOf(t, S)
  <2> TAKE S \in SUBSET Inner(t)
  <2>1. IsFiniteSet(S)
    BY <1>0, TokensFacts
  <2>2. S \subseteq DOMAIN t /\ S \subseteq DOMAIN u /\ \A x \in S : u[x].parent = t[x].parent
    BY <1>3, <1>6 DEF Inner
  <2> QED
    BY <2>1, <2>2, TokensAgree
<1>13. Sums(z)
  <2>1. e = TokensOf(u, Unlocked(u))
    <3> DEFINE U == Unlocked(t) \cup {key}
    <3>1. U \in SUBSET Inner(u) /\ key \in U /\ U \ {key} = Unlocked(t) /\ key \in Inner(u)
      BY <1>6, <1>11
    <3> HIDE DEF U
    <3>2. TokensOf(u, U) = KeyLen(u, key) + TokensOf(u, Unlocked(t))
      BY <1>5, <3>1, TokensFacts
    <3>3. TokensOf(u, Unlocked(t)) = s.evictable
      BY <1>7, <1>11, <1>12
    <3>4. KeyLen(u, key) = Len(key) - Len(n) /\ Len(key) \in Nat /\ Len(n) \in Nat
      BY <1>5, <1>6, <3>1, KeyLenFacts
    <3>5. s.evictable \in Nat
      BY <1>0, <1>7, <1>11, TokensFacts
    <3>6. TokensOf(u, U) = (Len(key) - Len(n)) + s.evictable
      BY Zenon, <3>2, <3>3, <3>4
    <3> QED
      BY <3>4, <3>5, <3>6, <1>10 DEF U
  <2>2. TokensOf(u, Locked(u)) = s.protected
    BY <1>7, <1>10, <1>11, <1>12
  <2> QED
    BY <1>2, <2>1, <2>2 DEF Sums
<1>14. g = Frontier(u)
  <2>1. ASSUME NEW x \in Inner(t), x # n PROVE Children(u, x) = Children(t, x)
    <3>1. x # key /\ n # x
      BY <1>6, <2>1
    <3> QED
      BY <1>3, <1>6, <3>1 DEF Children
  <2>2. key \in Children(u, n)
    BY <1>5, <1>6 DEF Children
  <2>3. u[key].lock <= 0 /\ ~(Children(u, n) = {}) /\ key \in Frontier(u) /\ n \notin Frontier(u)
    BY <1>3, <1>5, <1>6, <1>10, <2>2 DEF Frontier
  <2>4. \A x \in Inner(t) \ {n} : x \in Frontier(u) <=> x \in Frontier(t)
    BY <1>6, <1>10, <2>1 DEF Frontier
  <2>5. Frontier(t) \subseteq Inner(t) /\ Frontier(u) \subseteq Inner(t) \cup {key}
    BY <1>6 DEF Frontier, Unlocked
  <2>6. g = (Frontier(t) \ {n, key}) \cup {key}
    <3>1. g = (Frontier(t) \ {n, key}) \cup {x \in {n, key} : u[x].lock <= 0 /\ Children(u, x) = {}}
      BY Zenon, <1>7 DEF LeafStatus
    <3> QED
      BY <1>5, <2>3, <3>1
  <2>7. key \notin Inner(t)
    BY <1>6
  <2> HIDE DEF g
  <2> QED
    BY Zenon, <2>3, <2>4, <2>5, <2>6, <2>7
<1>15. b = {Announced(q) : q \in Paths(u)}
  <2>1. Paths(u) = Paths(t) \cup Edge(n, key)
    BY <1>0, <1>3, <1>7, GrowPaths
  <2> QED
    BY <1>4, <1>7, <2>1 DEF Edge
<1>16. Object(z, l)
  BY <1>2, <1>3, <1>5, <1>8, <1>9, <1>13, <1>14, <1>15 DEF Object
<1>17. \A x \in Inner(u) : u[x].parent # key
  BY <1>5 DEF Children, Inner
<1> QED
  BY Zenon, <1>2, <1>6, <1>16, <1>17 DEF z, t

\* A part of a sequence.
LEMMA SeqMiddle ==
  ASSUME NEW A, NEW s \in Seq(A), NEW m \in Nat, NEW k \in m .. Len(s)
  PROVE  /\ SubSeq(s, m + 1, k) \in Seq(A) /\ Len(SubSeq(s, m + 1, k)) = k - m
         /\ \A i \in 1 .. k - m : SubSeq(s, m + 1, k)[i] = s[m + i]
OBVIOUS

\* An insert keeps the invariant, and the key is a node of its own after it, which a
\* match finds as it is.
LEMMA InsertFacts ==
  ASSUME NEW s, NEW l, Object(s, l), NEW key \in Name,
         NEW value \in Seq(1 .. NumPages), Pages(key) <= Len(value)
  PROVE  LET z == Insert(s, key, value)
         IN  /\ Object(z, l) /\ key \in DOMAIN z.node /\ DOMAIN s.node \subseteq DOMAIN z.node
             /\ Matched(z, key) = z /\ Descend(z.node, key) = key
             /\ PrefixLen(s, key) \in 0 .. Pages(key)
<1> DEFINE m == Matched(s, key)
           n == Descend(m.node, key)
           z == Insert(s, key, value)
           v == SubSeq(value, Pages(n) + 1, Pages(key))
<1>1. /\ Object(m, l) /\ n \in DOMAIN m.node /\ n \in Name /\ Pre(n, key)
      /\ Branch(m.node, n, key) = {} /\ DOMAIN s.node \subseteq DOMAIN m.node
  BY MatchedFacts
<1>2. /\ Pages(n) \in Nat /\ Pages(key) \in Nat /\ Pages(n) <= Pages(key) /\ Pre(key, key)
  BY <1>1, NameLen, PreFacts DEF Pre
<1>3. v \in Seq(1 .. NumPages) /\ Len(v) = Pages(key) - Pages(n)
  <2> HIDE DEF n
  <2>1. Len(value) \in Nat
    OBVIOUS
  <2>2. Pages(key) \in Pages(n) .. Len(value)
    BY <1>2, <2>1
  <2> QED
    BY <1>2, <2>2, SeqMiddle
<1>4. z = IF n = key THEN m ELSE Grown(m, n, key, v)
  BY Zenon DEF Insert, Grown
<1>5. PrefixLen(s, key) = Pages(n)
  BY DEF PrefixLen
<1> HIDE DEF m, n, z, v
<1>6. Object(z, l) /\ key \in DOMAIN z.node /\ DOMAIN s.node \subseteq DOMAIN z.node
  <2>1. CASE n = key
    BY <1>1, <1>4, <2>1
  <2>2. CASE n # key
    <3>1. Object(Grown(m, n, key, v), l) /\ DOMAIN Grown(m, n, key, v).node = DOMAIN m.node \cup {key}
      BY <1>1, <1>3, <2>2, GrowObject
    <3>2. z = Grown(m, n, key, v)
      BY <1>4, <2>2
    <3> QED
      BY <1>1, <3>1, <3>2
  <2> QED
    BY <2>1, <2>2
<1>7. Tree(z.node)
  BY <1>6 DEF Object
<1>8. Descend(z.node, key) = key
  <2>1. \A x \in DOMAIN z.node : Pre(x, key) => Pages(x) <= Pages(key)
    BY DEF Pre
  <2> QED
    BY <1>2, <1>6, <1>7, <2>1, DescendIs
<1>9. Branch(z.node, key, key) = {}
  BY <1>2, <1>6, <1>7, BranchFacts
<1>10. Matched(z, key) = z
  BY Zenon, <1>8, <1>9 DEF Matched
<1> QED
  BY <1>2, <1>5, <1>6, <1>8, <1>10 DEF z

-----------------------------------------------------------------------------
(* Locks.                                                                  *)

\* u is t but for the locks of nodes.
Relocked(t, u) ==
  /\ DOMAIN u = DOMAIN t /\ u[Root] = t[Root]
  /\ \A n \in Inner(t) : u[n] = [parent |-> t[n].parent, value |-> t[n].value,
                                 lock |-> u[n].lock, hash |-> t[n].hash]

\* Locks do not change the shape, the fields or the sums.
LEMMA RelockedFacts ==
  ASSUME NEW t, Tree(t), Fields(t), NEW u, Relocked(t, u)
  PROVE  /\ Tree(u) /\ Fields(u) /\ Inner(u) = Inner(t) /\ Paths(u) = Paths(t)
         /\ \A n \in DOMAIN t : u[n].parent = t[n].parent /\ u[n].value = t[n].value
         /\ \A n \in DOMAIN t : Children(u, n) = Children(t, n)
         /\ \A S \in SUBSET Inner(t) : TokensOf(u, S) = TokensOf(t, S)
<1>1. DOMAIN u = DOMAIN t /\ u[Root] = t[Root] /\ Inner(u) = Inner(t)
  BY DEF Relocked, Inner
<1>2. \A n \in Inner(t) : /\ u[n] = [parent |-> t[n].parent, value |-> t[n].value,
                                     lock |-> u[n].lock, hash |-> t[n].hash]
                          /\ u[n].parent = t[n].parent /\ u[n].value = t[n].value /\ u[n].hash = t[n].hash
  BY DEF Relocked
<1>3. \A n \in DOMAIN t : u[n].parent = t[n].parent /\ u[n].value = t[n].value
  BY <1>1, <1>2 DEF Inner
<1>4. Tree(u)
  <2>1. ASSUME NEW n \in Inner(u), NEW x \in DOMAIN u, Shares(u, n, x) PROVE Shares(t, n, x)
    BY <1>1, <1>2, <2>1 DEF Shares
  <2> QED
    BY <1>1, <1>2, <2>1 DEF Tree
<1>5. Fields(u)
  <2> SUFFICES ASSUME NEW n \in Inner(t)
       PROVE  /\ u[n] = [parent |-> u[n].parent, value |-> u[n].value, lock |-> u[n].lock, hash |-> u[n].hash]
              /\ u[n].value \in Seq(1 .. NumPages) /\ Len(u[n].value) = Pages(n) - Pages(u[n].parent)
              /\ u[n].hash \in Seq(Name) /\ Len(u[n].hash) = Pages(n) - Pages(u[n].parent)
              /\ \A i \in 1 .. Len(u[n].hash) : u[n].hash[i] = Cut(n, Pages(u[n].parent) + i)
    BY <1>1 DEF Fields
  <2>1. /\ t[n].value \in Seq(1 .. NumPages) /\ Len(t[n].value) = Pages(n) - Pages(t[n].parent)
        /\ t[n].hash \in Seq(Name) /\ Len(t[n].hash) = Pages(n) - Pages(t[n].parent)
        /\ \A i \in 1 .. Len(t[n].hash) : t[n].hash[i] = Cut(n, Pages(t[n].parent) + i)
    BY DEF Fields
  <2> QED
    BY Zenon, <1>2, <2>1
<1>6. \A n \in DOMAIN t : Children(u, n) = Children(t, n)
  BY <1>1, <1>3 DEF Children
<1>7. \A S \in SUBSET Inner(t) : TokensOf(u, S) = TokensOf(t, S)
  <2> TAKE S \in SUBSET Inner(t)
  <2>1. IsFiniteSet(S)
    BY TokensFacts
  <2>2. S \subseteq DOMAIN t /\ S \subseteq DOMAIN u /\ \A x \in S : u[x].parent = t[x].parent
    BY <1>1, <1>3 DEF Inner
  <2> QED
    BY <2>1, <2>2, TokensAgree
<1>8. Paths(u) = Paths(t)
  BY <1>1 DEF Paths
<1> QED
  BY <1>1, <1>3, <1>4, <1>5, <1>6, <1>7, <1>8

\* The requests below a node are finitely many.
LEMMA BelowFinite ==
  ASSUME NEW l, NEW n
  PROVE  IsFiniteSet(Below(l, n)) /\ Cardinality(Below(l, n)) \in Nat
<1>1. IsFiniteSet(Req) /\ Below(l, n) \subseteq Req
  BY TreeAssumption DEF Below
<1> QED
  BY <1>1, FS_Subset, FS_CardinalityType

\* The locks of a tree are natural numbers.
LEMMA LocksNat ==
  ASSUME NEW t, NEW l, Locks(t, l)
  PROVE  \A n \in Inner(t) : t[n].lock \in Nat
BY BelowFinite DEF Locks

\* Changed locks keep the invariant when they are exact and the sums and leaves follow.
LEMMA RelockObject ==
  ASSUME NEW s, NEW l, Object(s, l), NEW z, IsObject(z), Relocked(s.node, z.node),
         NEW k, k \in [Req -> DOMAIN s.node], Locks(z.node, k), Sums(z),
         NEW C \in SUBSET Inner(s.node),
         \A n \in Inner(s.node) \ C : z.node[n].lock = s.node[n].lock,
         z.leaves = LeafStatus(z.node, s.leaves, C), z.blocks = s.blocks
  PROVE  Object(z, k)
<1> DEFINE t == s.node
           u == z.node
<1>0. Tree(t) /\ Fields(t) /\ s.leaves = Frontier(t) /\ s.blocks = {Announced(q) : q \in Paths(t)}
  BY DEF Object
<1>1. /\ Tree(u) /\ Fields(u) /\ Inner(u) = Inner(t) /\ Paths(u) = Paths(t) /\ DOMAIN u = DOMAIN t
      /\ \A n \in DOMAIN t : Children(u, n) = Children(t, n)
  <2>1. DOMAIN u = DOMAIN t
    BY DEF Relocked
  <2> HIDE DEF t, u
  <2>2. Relocked(t, u)
    BY DEF t, u
  <2> QED
    BY <1>0, <2>1, <2>2, RelockedFacts
<1>2. \A n \in Inner(u) : u[n].lock \in Nat
  BY LocksNat
<1> HIDE DEF t, u
<1>3. z.leaves = Frontier(u)
  <2>1. z.leaves = (Frontier(t) \ C) \cup {n \in C : u[n].lock <= 0 /\ Children(u, n) = {}}
    BY Zenon, <1>0 DEF LeafStatus, u
  <2>2. C \subseteq Inner(t) /\ \A n \in Inner(t) \ C : u[n].lock = t[n].lock
    BY DEF t, u
  <2>3. \A n \in Inner(t) : Children(u, n) = Children(t, n)
    BY <1>1 DEF Inner
  <2>4. \A n \in C : u[n].lock <= 0 <=> u[n].lock = 0
    BY <1>1, <1>2, <2>2
  <2> QED
    BY <1>1, <2>1, <2>2, <2>3, <2>4 DEF Frontier, Unlocked
<1>4. z.blocks = {Announced(q) : q \in Paths(u)} /\ k \in [Req -> DOMAIN u]
  BY <1>0, <1>1 DEF t
<1> QED
  BY <1>1, <1>3, <1>4 DEF Object, u

\* The nodes t with the locks of C changed by d.
Relock(t, C, d) ==
  [n \in DOMAIN t |-> IF n \in C THEN [t[n] EXCEPT !.lock = @ + d] ELSE t[n]]

\* The nodes that a request with last node m locks.
Above(t, m) == {n \in Inner(t) : Pre(n, m)}

LEMMA RelockIs ==
  ASSUME NEW t, Tree(t), Fields(t), NEW C \in SUBSET Inner(t), NEW d \in Int
  PROVE  LET u == Relock(t, C, d)
         IN  /\ Relocked(t, u)
             /\ \A n \in C : u[n].lock = t[n].lock + d
             /\ \A n \in DOMAIN t \ C : u[n] = t[n]
<1> DEFINE u == Relock(t, C, d)
<1>1. DOMAIN u = DOMAIN t /\ \A n \in DOMAIN t \ C : u[n] = t[n]
  BY DEF Relock
<1>2. u[Root] = t[Root]
  BY <1>1 DEF Tree, Inner
<1>3. ASSUME NEW n \in Inner(t)
      PROVE  /\ u[n] = [parent |-> t[n].parent, value |-> t[n].value,
                        lock |-> u[n].lock, hash |-> t[n].hash]
             /\ n \in C => u[n].lock = t[n].lock + d
  <2>1. t[n] = [parent |-> t[n].parent, value |-> t[n].value, lock |-> t[n].lock, hash |-> t[n].hash]
    BY DEF Fields
  <2>2. CASE n \in C
    <3>1. u[n] = [t[n] EXCEPT !.lock = t[n].lock + d]
      BY <2>2 DEF Relock, Inner
    <3> HIDE DEF u
    <3> DEFINE e == t[n]
    <3>2. e = [parent |-> e.parent, value |-> e.value, lock |-> e.lock, hash |-> e.hash] /\ u[n] = [e EXCEPT !.lock = e.lock + d]
      BY <2>1, <3>1
    <3> HIDE DEF e
    <3>3. u[n] = [parent |-> e.parent, value |-> e.value, lock |-> e.lock + d, hash |-> e.hash]
      BY <3>2
    <3>4. u[n].lock = e.lock + d
      BY <3>3
    <3> QED
      BY <3>3, <3>4 DEF e
  <2>3. CASE n \notin C
    BY <1>1, <2>1, <2>3 DEF Inner
  <2> QED
    BY <2>2, <2>3
<1>4. \A n \in C : n \in Inner(t)
  OBVIOUS
<1> HIDE DEF u
<1> QED
  BY <1>1, <1>2, <1>3, <1>4 DEF Relocked, u

\* l and k differ in request r, which holds no lock in l.
Moves(l, k, r) == l[r] = Root /\ \A q \in Req \ {r} : k[q] = l[q]

\* With a lock on k[r] there is one request more below the nodes above it.
LEMMA BelowMoves ==
  ASSUME NEW t, Tree(t), NEW l, NEW k, NEW r \in Req, Moves(l, k, r), NEW n \in Inner(t)
  PROVE  Cardinality(Below(k, n))
         = IF n \in Above(t, k[r]) THEN Cardinality(Below(l, n)) + 1 ELSE Cardinality(Below(l, n))
<1>2. ~ Pre(n, l[r])
  <2>1. n \in Name /\ n # Root /\ Pages(Root) = 0 /\ Root \in Name
    BY RootName DEF Tree, Inner
  <2>2. Pre(n, Root) => Pre(Root, n) /\ Pages(n) = Pages(Root)
    BY <2>1, PreFacts, NameLen DEF Pre
  <2> QED
    BY <2>1, <2>2, PreFacts DEF Moves
<1>3. IsFiniteSet(Below(l, n)) /\ r \notin Below(l, n)
  BY <1>2, BelowFinite DEF Below
<1>4. Below(k, n) = IF n \in Above(t, k[r]) THEN Below(l, n) \cup {r} ELSE Below(l, n)
  BY <1>2 DEF Below, Above, Moves
<1>5. Cardinality(Below(l, n) \cup {r}) = Cardinality(Below(l, n)) + 1
  BY <1>3, FS_AddElement
<1> QED
  BY Zenon, <1>4, <1>5

\* S is A and B, which have nothing in common.
Parts(S, A, B) == S = A \cup B /\ A \cap B = {}

\* The tokens of two parts.
LEMMA TokensPart ==
  ASSUME NEW t, Tree(t), NEW S \in SUBSET Inner(t), NEW A, NEW B, Parts(S, A, B)
  PROVE  /\ TokensOf(t, S) = TokensOf(t, A) + TokensOf(t, B)
         /\ TokensOf(t, A) \in Nat /\ TokensOf(t, B) \in Nat
<1>1. A \in SUBSET S /\ S \ A = B
  BY DEF Parts
<1>2. /\ TokensOf(t, S) = TokensOf(t, A) + TokensOf(t, S \ A)
      /\ TokensOf(t, A) \in Nat /\ TokensOf(t, S \ A) \in Nat
  BY <1>1, TokensFacts
<1> QED
  BY Zenon, <1>1, <1>2

\* inc_lock_ref for a request without a lock keeps the invariant.
LEMMA IncFacts ==
  ASSUME NEW s, NEW l, Object(s, l), NEW r \in Req, l[r] = Root, NEW node \in DOMAIN s.node
  PROVE  LET z == IncLockRef(s, node)
         IN  /\ Object(z, [l EXCEPT ![r] = node]) /\ Relocked(s.node, z.node)
<1> DEFINE t == s.node
           k == [l EXCEPT ![r] = node]
           C == Chain(t, node)
           U == {n \in C : t[n].lock = 0}
           d == TokensOf(t, U)
           u == Relock(t, C, 1)
           z == IncLockRef(s, node)
<1>0. /\ Tree(t) /\ Fields(t) /\ IsObject(s) /\ l \in [Req -> DOMAIN t] /\ Locks(t, l) /\ node \in DOMAIN t
      /\ s.evictable = TokensOf(t, Unlocked(t)) /\ s.protected = TokensOf(t, Locked(t))
  BY DEF Object, Sums
<1>1. C = Above(t, node)
  BY <1>0, ChainIs DEF Above
<1>2. z = [node |-> u, leaves |-> LeafStatus(u, s.leaves, C), evictable |-> s.evictable - d,
           protected |-> s.protected + d, blocks |-> s.blocks]
  <2>1. z = [s EXCEPT !.node = u, !.evictable = s.evictable - d, !.protected = s.protected + d,
                      !.leaves = LeafStatus(u, s.leaves, C)]
    BY Zenon DEF IncLockRef, Relock
  <2> HIDE DEF u, d, z, C, t
  <2> DEFINE g == LeafStatus(u, s.leaves, C)
  <2>2. z = [s EXCEPT !.node = u, !.evictable = s.evictable - d, !.protected = s.protected + d, !.leaves = g]
    BY <2>1
  <2> HIDE DEF g
  <2>3. z = [node |-> u, leaves |-> g, evictable |-> s.evictable - d, protected |-> s.protected + d, blocks |-> s.blocks]
    BY <1>0, <2>2 DEF IsObject
  <2> QED
    BY Zenon, <2>3 DEF g
<1> HIDE DEF u, d, z, C, t
<1>3. /\ IsObject(z) /\ z.node = u /\ z.leaves = LeafStatus(u, s.leaves, C)
      /\ z.evictable = s.evictable - d /\ z.protected = s.protected + d /\ z.blocks = s.blocks
  BY <1>2 DEF IsObject
<1>4. C \in SUBSET Inner(t)
  BY <1>1 DEF Above
<1>5. /\ Relocked(t, u) /\ \A n \in C : u[n].lock = t[n].lock + 1
      /\ \A n \in DOMAIN t \ C : u[n] = t[n]
  <2>1. 1 \in Int
    OBVIOUS
  <2> QED
    BY <1>0, <1>4, <2>1, RelockIs DEF u
<1>6. \A n \in Inner(t) \ C : u[n].lock = t[n].lock
  BY <1>5 DEF Inner
<1>7. Inner(u) = Inner(t) /\ \A S \in SUBSET Inner(t) : TokensOf(u, S) = TokensOf(t, S)
  BY <1>0, <1>5, RelockedFacts
<1>8. \A n \in Inner(t) : t[n].lock = Cardinality(Below(l, n)) /\ t[n].lock \in Nat
  BY <1>0, LocksNat DEF Locks
<1>9. Locks(u, k)
  <2> SUFFICES ASSUME NEW n \in Inner(t) PROVE u[n].lock = Cardinality(Below(k, n))
    BY <1>7 DEF Locks
  <2>1. Cardinality(Below(k, n))
        = IF n \in C THEN Cardinality(Below(l, n)) + 1 ELSE Cardinality(Below(l, n))
    <3>1. k[r] = node /\ Moves(l, k, r)
      BY <1>0 DEF Moves
    <3> HIDE DEF k
    <3>2. Cardinality(Below(k, n))
          = IF n \in Above(t, k[r]) THEN Cardinality(Below(l, n)) + 1 ELSE Cardinality(Below(l, n))
      BY <1>0, <3>1, BelowMoves
    <3> QED
      BY Zenon, <1>1, <3>1, <3>2
  <2> HIDE DEF k
  <2> QED
    BY <1>5, <1>6, <1>8, <2>1
<1>10. Unlocked(u) = Unlocked(t) \ U /\ Locked(u) = Locked(t) \cup U /\ U \subseteq Unlocked(t)
       /\ U \cap Locked(t) = {} /\ Unlocked(t) \in SUBSET Inner(t) /\ Locked(u) \in SUBSET Inner(t)
  BY <1>4, <1>5, <1>6, <1>7, <1>8 DEF Unlocked, Locked
<1> HIDE DEF U
<1>11. Sums(z)
  <2>1. TokensOf(t, Unlocked(t)) = d + TokensOf(t, Unlocked(u)) /\ d \in Nat /\ TokensOf(t, Unlocked(u)) \in Nat
    <3>1. Parts(Unlocked(t), U, Unlocked(u)) /\ Unlocked(t) \in SUBSET Inner(t)
      BY <1>10 DEF Parts
    <3> QED
      BY <1>0, <3>1, TokensPart DEF d
  <2>3. TokensOf(t, Locked(u)) = d + TokensOf(t, Locked(t)) /\ TokensOf(t, Locked(t)) \in Nat
    <3>1. Parts(Locked(u), U, Locked(t)) /\ Locked(u) \in SUBSET Inner(t)
      BY <1>10 DEF Parts
    <3> QED
      BY <1>0, <3>1, TokensPart DEF d
  <2>4. Unlocked(u) \in SUBSET Inner(t)
    BY <1>10
  <2>5. TokensOf(u, Unlocked(u)) = TokensOf(t, Unlocked(u)) /\ TokensOf(u, Locked(u)) = TokensOf(t, Locked(u))
    BY <1>7, <1>10, <2>4
  <2> QED
    BY <1>0, <1>3, <2>1, <2>3, <2>5 DEF Sums
<1>12. k \in [Req -> DOMAIN t]
  BY <1>0
<1> HIDE DEF k
<1>13. Object(z, k)
  BY <1>3, <1>4, <1>5, <1>6, <1>9, <1>11, <1>12, RelockObject DEF t
<1> QED
  BY <1>3, <1>5, <1>13 DEF z, k, t

\* dec_lock_ref of a request's last node keeps the invariant.
LEMMA DecFacts ==
  ASSUME NEW s, NEW l, Object(s, l), NEW r \in Req
  PROVE  LET z == DecLockRef(s, l[r])
         IN  /\ Object(z, [l EXCEPT ![r] = Root]) /\ Relocked(s.node, z.node)
<1> DEFINE t == s.node
           node == l[r]
           k == [l EXCEPT ![r] = Root]
           C == Chain(t, node)
           U == {n \in C : t[n].lock = 1}
           d == TokensOf(t, U)
           u == Relock(t, C, -1)
           z == DecLockRef(s, node)
<1>0. /\ Tree(t) /\ Fields(t) /\ IsObject(s) /\ l \in [Req -> DOMAIN t] /\ Locks(t, l)
      /\ s.evictable = TokensOf(t, Unlocked(t)) /\ s.protected = TokensOf(t, Locked(t))
  BY DEF Object, Sums
<1>a. node \in DOMAIN t
  BY <1>0
<1> HIDE DEF node
<1>1. C = Above(t, node)
  BY <1>0, <1>a, ChainIs DEF Above
<1>2. z = [node |-> u, leaves |-> LeafStatus(u, s.leaves, C), evictable |-> s.evictable + d,
           protected |-> s.protected - d, blocks |-> s.blocks]
  <2>0. \A n \in C : t[n].lock - 1 = t[n].lock + -1
    <3>1. \A n \in Inner(t) : t[n].lock \in Nat
      BY <1>0, LocksNat
    <3>2. C \subseteq Inner(t)
      BY <1>1 DEF Above
    <3> HIDE DEF t, C
    <3> QED
      BY <3>1, <3>2
  <2> DEFINE w == [n \in DOMAIN t |-> IF n \in C THEN [t[n] EXCEPT !.lock = @ - 1] ELSE t[n]]
  <2>1. z = [s EXCEPT !.node = w, !.evictable = s.evictable + d, !.protected = s.protected - d,
                      !.leaves = LeafStatus(w, s.leaves, C)]
    BY Zenon DEF DecLockRef
  <2> HIDE DEF d, z, C, t
  <2>a. w = u
    <3>1. ASSUME NEW n \in C PROVE [t[n] EXCEPT !.lock = t[n].lock - 1] = [t[n] EXCEPT !.lock = t[n].lock + -1]
      BY Zenon, <2>0
    <3> QED
      BY <3>1 DEF Relock
  <2> HIDE DEF w, u
  <2> DEFINE g == LeafStatus(u, s.leaves, C)
  <2>2. z = [s EXCEPT !.node = u, !.evictable = s.evictable + d, !.protected = s.protected - d, !.leaves = g]
    BY <2>1, <2>a
  <2> HIDE DEF g
  <2>3. z = [node |-> u, leaves |-> g, evictable |-> s.evictable + d, protected |-> s.protected - d, blocks |-> s.blocks]
    BY <1>0, <2>2 DEF IsObject
  <2> QED
    BY Zenon, <2>3 DEF g
<1> HIDE DEF u, d, z, C, t
<1>3. /\ IsObject(z) /\ z.node = u /\ z.leaves = LeafStatus(u, s.leaves, C)
      /\ z.evictable = s.evictable + d /\ z.protected = s.protected - d /\ z.blocks = s.blocks
  BY <1>2 DEF IsObject
<1>4. C \in SUBSET Inner(t)
  BY <1>1 DEF Above
<1>5. /\ Relocked(t, u) /\ \A n \in C : u[n].lock = t[n].lock + -1
      /\ \A n \in DOMAIN t \ C : u[n] = t[n]
  <2>1. -1 \in Int
    OBVIOUS
  <2> QED
    BY <1>0, <1>4, <2>1, RelockIs DEF u
<1>6. \A n \in Inner(t) \ C : u[n].lock = t[n].lock
  BY <1>5 DEF Inner
<1>7. Inner(u) = Inner(t) /\ \A S \in SUBSET Inner(t) : TokensOf(u, S) = TokensOf(t, S)
  BY <1>0, <1>5, RelockedFacts
<1>8. \A n \in Inner(t) : t[n].lock = Cardinality(Below(l, n)) /\ t[n].lock \in Nat
  BY <1>0, LocksNat DEF Locks
<1>9. \A n \in Inner(t) : /\ u[n].lock = Cardinality(Below(k, n)) /\ u[n].lock \in Nat
                          /\ n \in C => t[n].lock = u[n].lock + 1
  <2> TAKE n \in Inner(t)
  <2>1. Cardinality(Below(l, n))
        = IF n \in C THEN Cardinality(Below(k, n)) + 1 ELSE Cardinality(Below(k, n))
    <3>1. Moves(k, l, r)
      BY <1>0 DEF Moves
    <3> HIDE DEF k
    <3>2. Cardinality(Below(l, n))
          = IF n \in Above(t, l[r]) THEN Cardinality(Below(k, n)) + 1 ELSE Cardinality(Below(k, n))
      BY <1>0, <3>1, BelowMoves
    <3> QED
      BY Zenon, <1>1, <3>2 DEF node
  <2> HIDE DEF k
  <2>2. Cardinality(Below(k, n)) \in Nat
    BY BelowFinite
  <2> QED
    BY <1>5, <1>6, <1>8, <2>1, <2>2
<1>b. Locks(u, k)
  BY <1>7, <1>9 DEF Locks
<1>10. Unlocked(u) = Unlocked(t) \cup U /\ Locked(u) = Locked(t) \ U /\ U \subseteq Locked(t)
       /\ U \cap Unlocked(t) = {} /\ Unlocked(u) \in SUBSET Inner(t) /\ Locked(t) \in SUBSET Inner(t)
  <2> HIDE DEF k
  <2> QED
    BY <1>4, <1>6, <1>7, <1>8, <1>9 DEF Unlocked, Locked
<1> HIDE DEF U
<1>11. Sums(z)
  <2>1. TokensOf(t, Locked(t)) = d + TokensOf(t, Locked(u)) /\ d \in Nat /\ TokensOf(t, Locked(u)) \in Nat
    <3>1. Parts(Locked(t), U, Locked(u)) /\ Locked(t) \in SUBSET Inner(t)
      BY <1>10 DEF Parts
    <3> QED
      BY <1>0, <3>1, TokensPart DEF d
  <2>3. TokensOf(t, Unlocked(u)) = d + TokensOf(t, Unlocked(t)) /\ TokensOf(t, Unlocked(t)) \in Nat
    <3>1. Parts(Unlocked(u), U, Unlocked(t)) /\ Unlocked(u) \in SUBSET Inner(t)
      BY <1>10 DEF Parts
    <3> QED
      BY <1>0, <3>1, TokensPart DEF d
  <2>4. Locked(u) \in SUBSET Inner(t)
    BY <1>10
  <2>5. TokensOf(u, Unlocked(u)) = TokensOf(t, Unlocked(u)) /\ TokensOf(u, Locked(u)) = TokensOf(t, Locked(u))
    BY <1>7, <1>10, <2>4
  <2> QED
    BY <1>0, <1>3, <2>1, <2>3, <2>5 DEF Sums
<1>12. k \in [Req -> DOMAIN t]
  BY <1>0 DEF Tree
<1> HIDE DEF k
<1>13. Object(z, k)
  BY <1>3, <1>4, <1>5, <1>6, <1>b, <1>11, <1>12, RelockObject DEF t
<1> QED
  BY <1>3, <1>5, <1>13 DEF z, k, t, node

-----------------------------------------------------------------------------
(* Deleting a leaf.                                                        *)

\* The hashes of a node are the paths of its edge.
LEMMA HashRange ==
  ASSUME NEW t, Tree(t), Fields(t), NEW x \in Inner(t)
  PROVE  {t[x].hash[i] : i \in DOMAIN t[x].hash} = Edge(t[x].parent, x)
<1> DEFINE p == t[x].parent
           h == t[x].hash
<1>1. /\ h \in Seq(Name) /\ Len(h) = Pages(x) - Pages(p)
      /\ \A i \in 1 .. Len(h) : h[i] = Cut(x, Pages(p) + i)
  BY DEF Fields
<1>2. Pages(p) \in Nat /\ Pages(x) \in Nat /\ Pages(p) < Pages(x)
  BY NameLen DEF Tree, Inner
<1>3. DOMAIN h = 1 .. Len(h)
  <2> HIDE DEF h
  <2> QED
    BY <1>1
<1> HIDE DEF h, p
<1>4. \A i \in DOMAIN h : Pages(p) + i \in Pages(p) + 1 .. Pages(x) /\ h[i] = Cut(x, Pages(p) + i)
  BY <1>1, <1>2, <1>3
<1>5. \A j \in Pages(p) + 1 .. Pages(x) : j - Pages(p) \in DOMAIN h /\ Pages(p) + (j - Pages(p)) = j
  BY <1>1, <1>2, <1>3
<1>6. {h[i] : i \in DOMAIN h} = Edge(p, x)
  <2>1. ASSUME NEW i \in DOMAIN h PROVE h[i] \in Edge(p, x)
    BY Zenon, <1>4 DEF Edge
  <2>2. ASSUME NEW j \in Pages(p) + 1 .. Pages(x) PROVE Cut(x, j) \in {h[i] : i \in DOMAIN h}
    <3>1. h[j - Pages(p)] = Cut(x, j)
      <4>1. h[j - Pages(p)] = Cut(x, Pages(p) + (j - Pages(p)))
        BY Zenon, <1>4, <1>5
      <4> QED
        BY Zenon, <1>5, <4>1
    <3> QED
      BY Zenon, <1>5, <3>1
  <2> QED
    BY Zenon, <2>1, <2>2 DEF Edge
<1> QED
  BY Zenon, <1>6 DEF h, p

\* No node shares a path of the edge of a leaf.
LEMMA LeafEdge ==
  ASSUME NEW t, Tree(t), NEW x \in Inner(t), Children(t, x) = {}, NEW y \in DOMAIN t, y # x,
         NEW q \in Edge(t[x].parent, x)
  PROVE  ~ Pre(q, y)
<1> DEFINE p == t[x].parent
<1>0. /\ x \in Name /\ y \in Name /\ p \in Name /\ p \in DOMAIN t
      /\ Pages(p) \in Nat /\ Pages(x) \in Nat /\ Pages(y) \in Nat /\ Pages(p) < Pages(x)
  BY NameLen DEF Tree, Inner
<1>1. PICK j \in Pages(p) + 1 .. Pages(x) : q = Cut(x, j)
  BY DEF Edge
<1>2. j \in 0 .. Pages(x)
  BY <1>0
<1>3. Pages(q) = j /\ \A i \in 1 .. j : Block(q, i) = Block(x, i)
  BY <1>0, <1>1, <1>2, CutFacts
<1> SUFFICES ASSUME Pre(q, y) PROVE FALSE
  OBVIOUS
<1>4. j <= Pages(y) /\ \A i \in 1 .. j : Block(x, i) = Block(y, i)
  BY <1>3 DEF Pre
<1>5. Shares(t, x, y)
  <2>1. Pages(p) < Pages(y) /\ \A i \in 1 .. Pages(p) + 1 : i \in 1 .. j
    BY <1>0, <1>4
  <2> HIDE DEF p
  <2>2. \A i \in 1 .. Pages(p) + 1 : Block(x, i) = Block(y, i)
    BY <1>4, <2>1
  <2> QED
    BY Zenon, <2>1, <2>2 DEF Shares, p
<1>6. Pre(x, y)
  BY <1>5 DEF Tree
<1>7. Pages(x) < Pages(y)
  <2>1. Pages(x) <= Pages(y)
    BY <1>6 DEF Pre
  <2>2. Pages(x) # Pages(y)
    BY <1>0, <1>6, PreFacts
  <2> QED
    BY <1>0, <2>1, <2>2
<1> QED
  BY <1>6, <1>7, ChildToward DEF Inner

\* The cached paths without a leaf.
LEMMA DropPaths ==
  ASSUME NEW t, Tree(t), NEW x \in Inner(t), Children(t, x) = {},
         NEW u, DOMAIN u = DOMAIN t \ {x}
  PROVE  Paths(u) = Paths(t) \ Edge(t[x].parent, x)
<1> DEFINE p == t[x].parent
<1>0. /\ x \in Name /\ p \in Name /\ p \in DOMAIN t /\ p # x /\ Pre(p, x)
      /\ Pages(p) \in Nat /\ Pages(x) \in Nat /\ Pages(p) < Pages(x)
  BY NameLen DEF Tree, Inner
<1>1. ASSUME NEW q \in Paths(u) PROVE q \in Paths(t) \ Edge(p, x)
  <2>1. PICK y \in DOMAIN u : Pre(q, y)
    BY DEF Paths
  <2>2. y \in DOMAIN t /\ y # x /\ q \in Paths(t)
    BY <2>1 DEF Paths
  <2>3. q \in Edge(p, x) => ~ Pre(q, y)
    BY <2>2, LeafEdge
  <2> QED
    BY <2>1, <2>2, <2>3
<1>2. ASSUME NEW q \in Paths(t), q \notin Edge(p, x) PROVE q \in Paths(u)
  <2>1. q \in Name /\ q # Root /\ \E y \in DOMAIN t : Pre(q, y)
    BY DEF Paths
  <2>2. PICK y \in DOMAIN t : Pre(q, y)
    BY <2>1
  <2>3. CASE y # x
    BY <2>1, <2>2, <2>3 DEF Paths
  <2>4. CASE y = x
    <3>1. Pages(q) \in Nat /\ Pages(q) <= Pages(x) /\ q = Cut(x, Pages(q))
      BY <1>0, <2>1, <2>2, <2>4, NameLen, CutEnd DEF Pre
    <3>2. Pages(q) <= Pages(p)
      <4> SUFFICES ASSUME Pages(q) > Pages(p) PROVE FALSE
        BY <1>0, <3>1
      <4>1. Pages(q) \in Pages(p) + 1 .. Pages(x)
        BY <1>0, <3>1
      <4> HIDE DEF p
      <4> QED
        BY Zenon, <1>2, <3>1, <4>1 DEF Edge
    <3>3. Pre(q, p)
      BY <1>0, <2>1, <2>2, <2>4, <3>2, PreFacts
    <3> QED
      BY <1>0, <2>1, <3>3 DEF Paths
  <2> QED
    BY <2>3, <2>4
<1> QED
  BY <1>1, <1>2

\* _delete_leaf of an unlocked leaf keeps the invariant.
LEMMA DeleteFacts ==
  ASSUME NEW s, NEW l, Object(s, l), NEW x \in Frontier(s.node)
  PROVE  LET z == DeleteLeaf(s, x)
         IN  /\ Object(z, l) /\ DOMAIN z.node = DOMAIN s.node \ {x}
             /\ \A y \in DOMAIN z.node : z.node[y] = s.node[y]
             /\ x \in Inner(s.node) /\ KeyLen(s.node, x) \in Nat \ {0}
             /\ s.node[x].parent \notin s.leaves /\ s.node[x].parent \in DOMAIN z.node
             /\ z.leaves = (s.leaves \ {x}) \cup PushParent(z.node, s.node[x].parent)
<1> DEFINE t == s.node
           p == t[x].parent
           h == t[x].hash
           u == [n \in DOMAIN t \ {x} |-> t[n]]
           e == s.evictable - KeyLen(t, x)
           g == LeafStatus(u, s.leaves \ {x}, {p})
           b == {c \in s.blocks : \A i \in DOMAIN h : c.hash # h[i]}
           z == DeleteLeaf(s, x)
<1>0. /\ Tree(t) /\ Fields(t) /\ IsObject(s) /\ l \in [Req -> DOMAIN t] /\ Locks(t, l)
      /\ s.evictable = TokensOf(t, Unlocked(t)) /\ s.protected = TokensOf(t, Locked(t))
      /\ s.leaves = Frontier(t) /\ s.blocks = {Announced(q) : q \in Paths(t)}
  BY DEF Object, Sums
<1>1. z = [node |-> u, leaves |-> g, evictable |-> e, protected |-> s.protected, blocks |-> b]
  <2>1. z = [s EXCEPT !.node = u, !.evictable = e, !.leaves = g, !.blocks = b]
    BY Zenon DEF DeleteLeaf
  <2> HIDE DEF u, g, e, b, z, t
  <2> QED
    BY <1>0, <2>1 DEF IsObject
<1>2. /\ IsObject(z) /\ z.node = u /\ z.leaves = g /\ z.blocks = b
      /\ z.evictable = e /\ z.protected = s.protected
  <2> HIDE DEF u, g, e, b, z
  <2> QED
    BY <1>1 DEF IsObject
<1>3. DOMAIN u = DOMAIN t \ {x} /\ \A y \in DOMAIN u : u[y] = t[y]
  OBVIOUS
<1>4. x \in Inner(t) /\ x \in Unlocked(t) /\ t[x].lock = 0 /\ Children(t, x) = {}
  BY DEF Frontier, Unlocked
<1> HIDE DEF u, z, b
<1>5. Tree(u) /\ \A y \in DOMAIN t : Pre(x, y) => y = x
  BY <1>0, <1>3, <1>4, DropTree
<1>6. /\ Inner(u) = Inner(t) \ {x} /\ p \in DOMAIN t /\ p # x /\ p \in DOMAIN u
      /\ \A y \in Inner(u) : u[y] = t[y] /\ y \in Inner(t)
  <2>1. p \in DOMAIN t /\ Pages(p) < Pages(x) /\ x \in Name
    BY <1>0, <1>4 DEF Tree, Inner
  <2>2. p # x
    BY <2>1, NameLen
  <2> HIDE DEF p, t
  <2> QED
    BY <1>3, <2>1, <2>2 DEF Inner
<1> HIDE DEF t, p
<1>7. Fields(u)
  <2>1. u[Root] = t[Root]
    BY <1>3, <1>5 DEF Tree
  <2> QED
    BY <1>0, <1>6, <2>1 DEF Fields
<1>8. \A r \in Req : l[r] # x
  <2> SUFFICES ASSUME NEW r \in Req, l[r] = x PROVE FALSE
    OBVIOUS
  <2>1. Pre(x, x)
    BY <1>0, <1>4, PreFacts DEF Tree, Inner
  <2>2. r \in Below(l, x) /\ Cardinality(Below(l, x)) = 0
    BY <1>0, <1>4, <2>1 DEF Below, Locks
  <2>3. Below(l, x) = {}
    BY <2>2, BelowFinite, FS_EmptySet
  <2> QED
    BY <2>2, <2>3
<1>9. l \in [Req -> DOMAIN u]
  BY <1>0, <1>3, <1>8
<1>10. Locks(u, l)
  BY <1>0, <1>6 DEF Locks
<1>11. Unlocked(u) = Unlocked(t) \ {x} /\ Locked(u) = Locked(t)
  BY <1>4, <1>6 DEF Unlocked, Locked
<1>12. \A S \in SUBSET Inner(u) : TokensOf(u, S) = TokensOf(t, S)
  <2> TAKE S \in SUBSET Inner(u)
  <2>1. IsFiniteSet(S)
    BY <1>5, TokensFacts
  <2>2. S \subseteq DOMAIN t /\ S \subseteq DOMAIN u /\ \A y \in S : u[y].parent = t[y].parent
    BY <1>3, <1>6 DEF Inner
  <2> QED
    BY <2>1, <2>2, TokensAgree
<1>13. KeyLen(t, x) \in Nat \ {0}
  BY <1>0, <1>4, KeyLenFacts
<1>14. Sums(z)
  <2>0. Unlocked(t) \in SUBSET Inner(t) /\ Unlocked(u) \in SUBSET Inner(u) /\ Locked(u) \in SUBSET Inner(u)
    BY DEF Unlocked, Locked
  <2>1. TokensOf(t, Unlocked(t)) = KeyLen(t, x) + TokensOf(t, Unlocked(t) \ {x})
    <3> DEFINE S == Unlocked(t)
    <3>1. S \in SUBSET Inner(t) /\ x \in S
      BY <1>4, <2>0
    <3> HIDE DEF S
    <3>2. TokensOf(t, S) = KeyLen(t, x) + TokensOf(t, S \ {x})
      BY <1>0, <3>1, TokensFacts
    <3> QED
      BY <3>2 DEF S
  <2>2. TokensOf(u, Unlocked(u)) = TokensOf(t, Unlocked(t) \ {x})
    BY Zenon, <1>11, <1>12, <2>0
  <2>3. TokensOf(u, Unlocked(u)) \in Nat
    BY <1>5, <2>0, TokensFacts
  <2>4. TokensOf(u, Locked(u)) = TokensOf(t, Locked(t))
    BY Zenon, <1>11, <1>12, <2>0
  <2> QED
    BY <1>0, <1>2, <1>13, <2>1, <2>2, <2>3, <2>4 DEF Sums
<1>15. p \notin Frontier(t) /\ Frontier(t) \subseteq Inner(t)
  <2>1. x \in Children(t, p)
    BY <1>4 DEF Children, Inner, p
  <2> QED
    BY <2>1 DEF Frontier, Unlocked
<1>16. \A y \in DOMAIN u : y # p => Children(u, y) = Children(t, y)
  <2> TAKE y \in DOMAIN u
  <2>1. t[x].parent = p
    BY DEF p
  <2> QED
    BY <1>3, <2>1 DEF Children
<1>17. PushParent(u, p) = {n \in {p} : u[n].lock <= 0 /\ Children(u, n) = {}}
  <2>1. u[p].lock <= 0 <=> u[p].lock = 0
    <3>1. CASE p = Root
      BY <1>7, <3>1 DEF Fields
    <3>2. CASE p # Root
      <4>1. u[p].lock \in Nat
        BY <1>6, <1>10, <3>2, LocksNat DEF Inner
      <4> QED
        BY <4>1
    <3> QED
      BY <3>1, <3>2
  <2> QED
    BY <2>1 DEF PushParent
<1>18. g = (s.leaves \ {x}) \cup PushParent(u, p)
  BY <1>0, <1>15, <1>17 DEF LeafStatus
<1>19. g = Frontier(u)
  <2>1. \A y \in Inner(u) : y # p => (y \in Frontier(u) <=> y \in Frontier(t))
    BY <1>6, <1>11, <1>16 DEF Frontier, Inner
  <2>2. p \in Frontier(u) <=> p \in PushParent(u, p)
    <3>1. p = Root => u[p].lock = 1
      BY <1>7 DEF Fields
    <3> QED
      BY <1>6, <3>1 DEF Frontier, Unlocked, PushParent, Inner
  <2>3. PushParent(u, p) \subseteq {p}
    BY DEF PushParent
  <2>4. Frontier(u) \subseteq Inner(u)
    BY DEF Frontier, Unlocked
  <2>5. g = (Frontier(t) \ {x}) \cup PushParent(u, p)
    BY <1>0, <1>18
  <2> HIDE DEF g
  <2> QED
    BY <1>6, <1>15, <2>1, <2>2, <2>3, <2>4, <2>5
<1>20. Paths(u) = Paths(t) \ Edge(p, x)
  BY <1>0, <1>3, <1>4, DropPaths DEF p
<1>21. {h[i] : i \in DOMAIN h} = Edge(p, x)
  BY <1>0, <1>4, HashRange DEF p
<1> HIDE DEF h
<1>22. b = {Announced(q) : q \in Paths(u)}
  <2>1. \A q : Announced(q).hash = q
    BY DEF Announced
  <2>2. \A c : c \in b <=> c \in s.blocks /\ c.hash \notin Edge(p, x)
    BY <1>21 DEF b
  <2> QED
    BY <1>0, <1>20, <2>1, <2>2
<1> HIDE DEF g, e
<1>23. Object(z, l)
  BY <1>2, <1>5, <1>7, <1>9, <1>10, <1>14, <1>19, <1>22 DEF Object
<1> QED
  BY Zenon, <1>0, <1>2, <1>3, <1>4, <1>6, <1>13, <1>15, <1>18, <1>23 DEF z, p, t

-----------------------------------------------------------------------------
(* Reading the KV indices of a path.                                       *)

\* An element of a sequence.
LEMMA SeqAt ==
  ASSUME NEW A, NEW s \in Seq(A), NEW i \in 1 .. Len(s)
  PROVE  s[i] \in A
OBVIOUS

\* The indices on the way to a node: one page of the pool per page of the path.
LEMMA ValueFacts ==
  ASSUME NEW t, Tree(t), Fields(t), NEW n \in DOMAIN t
  PROVE  ValueOf(t, n) \in Seq(1 .. NumPages) /\ Len(ValueOf(t, n)) = Pages(n)
<1> DEFINE own(j) == CHOOSE x \in Chain(t, n) : Len(t[x].parent) < j * PageSize /\ j * PageSize <= Len(x)
           v(j) == t[own(j)].value[j - Pages(t[own(j)].parent)]
<1>0. n \in Name /\ Pages(n) \in Nat /\ DOMAIN t \subseteq Name
  BY NameLen DEF Tree
<1>1. ASSUME NEW j \in 1 .. Pages(n) PROVE v(j) \in 1 .. NumPages
  <2>1. j \in 0 .. Pages(n) /\ j # 0 /\ j \in Nat
    BY <1>0
  <2>2. Cut(n, j) \in Name /\ Pages(Cut(n, j)) = j /\ Pre(Cut(n, j), n)
        /\ \A i \in 1 .. j : Block(Cut(n, j), i) = Block(n, i)
    BY <1>0, <2>1, CutFacts
  <2>3. Cut(n, j) \in Paths(t)
    <3>1. Cut(n, j) # Root
      BY <2>1, <2>2, RootName
    <3> QED
      BY <2>2, <3>1 DEF Paths
  <2>4. PICK x \in Inner(t) : Pre(Cut(n, j), x) /\ Pages(t[x].parent) < j
    BY <2>2, <2>3, PathOwner
  <2>5. /\ x \in Name /\ t[x].parent \in Name /\ Pages(x) \in Nat /\ Pages(t[x].parent) \in Nat
        /\ j <= Pages(x) /\ \A i \in 1 .. j : Block(x, i) = Block(n, i)
    BY <1>0, <2>2, <2>4, NameLen DEF Tree, Inner, Pre
  <2>6. Pre(x, n)
    <3>1. Pages(t[x].parent) < Pages(n) /\ \A i \in 1 .. Pages(t[x].parent) + 1 : i \in 1 .. j
      BY <1>0, <2>4, <2>5
    <3>2. Shares(t, x, n)
      BY <2>5, <3>1 DEF Shares
    <3> QED
      BY <3>2 DEF Tree
  <2>7. \A y \in Inner(t) : Len(t[y].parent) < j * PageSize /\ j * PageSize <= Len(y)
                            <=> Pages(t[y].parent) < j /\ j <= Pages(y)
    <3> TAKE y \in Inner(t)
    <3>1. /\ Len(y) = Pages(y) * PageSize /\ Pages(y) \in Nat
          /\ Len(t[y].parent) = Pages(t[y].parent) * PageSize /\ Pages(t[y].parent) \in Nat
      BY <1>0, NameLen DEF Tree, Inner
    <3> QED
      BY <2>1, <3>1, TreeAssumption, Scale
  <2>8. Chain(t, n) = {m \in Inner(t) : Pre(m, n)}
    BY ChainIs
  <2>9. x \in Chain(t, n) /\ Len(t[x].parent) < j * PageSize /\ j * PageSize <= Len(x)
    BY <2>4, <2>5, <2>6, <2>7, <2>8
  <2>10. own(j) \in Chain(t, n) /\ Len(t[own(j)].parent) < j * PageSize /\ j * PageSize <= Len(own(j))
    <3> HIDE DEF own
    <3> QED
      BY Zenon, <2>9 DEF own
  <2> DEFINE c == own(j)
  <2> HIDE DEF own
  <2>11. c \in Inner(t) /\ Pages(t[c].parent) < j /\ j <= Pages(c)
    BY <2>7, <2>8, <2>10
  <2>12. Pages(c) \in Nat /\ Pages(t[c].parent) \in Nat
         /\ t[c].value \in Seq(1 .. NumPages) /\ Len(t[c].value) = Pages(c) - Pages(t[c].parent)
    BY <1>0, <2>11, NameLen DEF Tree, Inner, Fields
  <2>13. j - Pages(t[c].parent) \in 1 .. Len(t[c].value)
    BY <2>1, <2>11, <2>12
  <2> HIDE DEF c
  <2>15. t[c].value[j - Pages(t[c].parent)] \in 1 .. NumPages
    BY <2>12, <2>13, SeqAt
  <2> QED
    BY <2>15 DEF c
<1>2. ValueOf(t, n) = [j \in 1 .. Pages(n) |-> v(j)]
  BY Zenon DEF ValueOf
<1> HIDE DEF v
<1>3. ValueOf(t, n) \in [1 .. Pages(n) -> 1 .. NumPages]
  BY <1>1, <1>2
<1> QED
  BY <1>0, <1>3, SeqOfMap

-----------------------------------------------------------------------------
(* The inductive invariant.  The tree is the object above, with the last    *)
(* nodes of the requests as locks; rows and prefixes are pages; an eviction *)
(* that is under way has all evictable leaves in its heap.                 *)

Rows ==
  /\ table \in [Req -> Seq(1 .. NumPages)] /\ prefix \in [Req -> Seq(1 .. NumPages)]
  /\ prot \in [Req -> Nat] /\ \A r \in Req : prot[r] = Pages(last[r])
  /\ free \subseteq 1 .. NumPages

Calls ==
  /\ evict = [want |-> evict.want, heap |-> evict.heap] /\ evict.want \in Nat
  /\ Idle \/ evict.heap = rc.leaves

RadixInv == Object(rc, last) /\ Rows /\ Calls

\* Appending pages to a row.
LEMMA SeqAppend ==
  ASSUME NEW A, NEW s \in Seq(A), NEW B \in SUBSET A, NEW a \in Seq(B)
  PROVE  s \o a \in Seq(A)
<1>1. a \in Seq(A)
  OBVIOUS
<1> QED
  BY <1>1

\* The tree of a fresh cache.
LEMMA FreshObject ==
  ASSUME NEW l \in [Req -> {Root}]
  PROVE  Object(Fresh, l)
<1> DEFINE t == Fresh.node
<1>1. /\ Fresh.leaves = {} /\ Fresh.evictable = 0 /\ Fresh.protected = 0 /\ Fresh.blocks = {}
      /\ IsObject(Fresh)
  BY DEF Fresh, IsObject
<1>2. /\ DOMAIN t = {Root}
      /\ t[Root] = [parent |-> Root, value |-> <<>>, lock |-> 1, hash |-> <<>>] /\ t[Root].parent = Root
  BY DEF Fresh
<1> HIDE DEF t
<1>3. Inner(t) = {} /\ Unlocked(t) = {} /\ Locked(t) = {} /\ Frontier(t) = {}
  BY <1>2 DEF Inner, Unlocked, Locked, Frontier
<1>4. Tree(t)
  <2>1. IsFiniteSet({Root})
    BY FS_Singleton
  <2> QED
    BY <1>2, <1>3, <2>1, RootName DEF Tree
<1>5. Fields(t) /\ Locks(t, l) /\ l \in [Req -> DOMAIN t]
  BY <1>2, <1>3 DEF Fields, Locks
<1>6. Sums(Fresh)
  <2>1. {} \in SUBSET Inner(t)
    OBVIOUS
  <2>2. TokensOf(t, {}) = 0
    BY <1>4, <2>1, TokensFacts
  <2> QED
    BY <1>1, <1>3, <2>2 DEF Sums, t
<1>7. Paths(t) = {}
  <2> SUFFICES ASSUME NEW p \in Name, p # Root, Pre(p, Root) PROVE FALSE
    BY <1>2 DEF Paths
  <2>1. Pre(Root, p) /\ Pages(p) = Pages(Root)
    BY PreFacts, NameLen, RootName DEF Pre
  <2> QED
    BY <2>1, PreFacts, RootName
<1> QED
  BY <1>1, <1>3, <1>4, <1>5, <1>6, <1>7 DEF Object, t

\* Idle is kept by whatever leaves evict alone.
LEMMA CallsIdle ==
  ASSUME Calls, Idle, UNCHANGED evict
  PROVE  Calls'
BY DEF Calls, Idle

LEMMA InitInv ==
  ASSUME Init
  PROVE  RadixInv
<1>1. Object(rc, last)
  BY FreshObject DEF Init
<1>2. Rows
  BY RootName DEF Init, Rows
<1>3. Calls
  BY DEF Init, Calls, Idle, NoCall
<1> QED
  BY <1>1, <1>2, <1>3 DEF RadixInv

LEMMA MatchStep ==
  ASSUME RadixInv, NEW r \in Req, NEW n \in 1 .. NumPages, MatchPrefix(r, n)
  PROVE  RadixInv'
<1>1. Path(r, n) \in Name
  BY PathName
<1>2. Object(Matched(rc, Path(r, n)), last)
  BY <1>1, MatchedFacts DEF RadixInv
<1>3. Object(rc', last')
  BY <1>2 DEF MatchPrefix
<1>4. Rows' /\ Calls'
  BY CallsIdle DEF MatchPrefix, RadixInv, Rows
<1> QED
  BY <1>3, <1>4 DEF RadixInv

LEMMA AdmitStep ==
  ASSUME RadixInv, NEW r \in Req, NEW n \in 1 .. NumPages, Admit(r, n)
  PROVE  RadixInv'
<1> DEFINE key == Path(r, n)
           m == Matched(rc, key)
           node == Descend(m.node, key)
<1>1. key \in Name
  BY PathName
<1>2. Object(m, last) /\ node \in DOMAIN m.node /\ node \in Name
  BY <1>1, MatchedFacts DEF RadixInv
<1>3. /\ Idle /\ last[r] = Root
      /\ rc' = IncLockRef(m, node) /\ last' = [last EXCEPT ![r] = node]
      /\ prefix' = [prefix EXCEPT ![r] = ValueOf(m.node, node)]
      /\ prot' = [prot EXCEPT ![r] = Pages(node)]
      /\ UNCHANGED <<free, table, evict>>
  BY Zenon DEF Admit, Waiting
<1> HIDE DEF key, m, node
<1>4. Object(rc', last')
  <2>1. Object(IncLockRef(m, node), [last EXCEPT ![r] = node])
    BY <1>2, <1>3, IncFacts
  <2> QED
    BY Zenon, <1>3, <2>1
<1>5. ValueOf(m.node, node) \in Seq(1 .. NumPages)
  BY <1>2, ValueFacts DEF Object
<1>6. Pages(node) \in Nat
  BY <1>2, NameLen
<1>7. Rows'
  <2>1. Rows /\ last \in [Req -> DOMAIN rc.node]
    BY DEF RadixInv, Object
  <2> QED
    BY <1>3, <1>5, <1>6, <2>1 DEF Rows
<1>8. Calls'
  BY <1>3, CallsIdle DEF RadixInv
<1> QED
  BY <1>4, <1>7, <1>8 DEF RadixInv

LEMMA ExtendStep ==
  ASSUME RadixInv, NEW r \in Req, NEW n \in 1 .. NumPages, Extend(r, n)
  PROVE  RadixInv'
<1>1. PICK a \in Allocs(free, n) :
        /\ table' = [table EXCEPT ![r] = (IF table[r] = <<>> THEN prefix[r] ELSE table[r]) \o a]
        /\ free' = free \ {a[i] : i \in 1 .. n}
  BY DEF Extend
<1>2. Idle /\ prefix' = [prefix EXCEPT ![r] = <<>>] /\ UNCHANGED <<rc, prot, last, evict>> /\ Rows
  BY DEF Extend, RadixInv
<1>3. free \in SUBSET (1 .. NumPages) /\ a \in Seq(free)
  BY <1>2, TreeAssumption DEF Rows
<1> DEFINE old == IF table[r] = <<>> THEN prefix[r] ELSE table[r]
<1>4. old \in Seq(1 .. NumPages)
  BY <1>2 DEF Rows
<1> HIDE DEF old
<1>5. old \o a \in Seq(1 .. NumPages)
  BY <1>3, <1>4, SeqAppend
<1>6. table' = [table EXCEPT ![r] = old \o a] /\ table' \in [Req -> Seq(1 .. NumPages)]
  <2>1. table' = [table EXCEPT ![r] = old \o a]
    BY <1>1 DEF old
  <2> QED
    BY <1>2, <1>5, <2>1 DEF Rows
<1>7. prefix' \in [Req -> Seq(1 .. NumPages)]
  BY <1>2 DEF Rows
<1>8. Rows'
  <2>1. free' \subseteq 1 .. NumPages
    BY <1>1, <1>3
  <2> QED
    BY <1>2, <1>6, <1>7, <2>1 DEF Rows
<1>9. Object(rc', last') /\ Calls'
  BY <1>2, CallsIdle DEF RadixInv
<1> QED
  BY <1>8, <1>9 DEF RadixInv

\* Pages of a row.
LEMMA RowPagesIn ==
  ASSUME Rows, NEW r \in Req, NEW from \in Nat, NEW to \in Int, to <= Len(table[r])
  PROVE  RowPages(r, from + 1, to) \subseteq 1 .. NumPages
<1> SUFFICES ASSUME NEW j \in from + 1 .. to PROVE table[r][j] \in 1 .. NumPages
  BY DEF RowPages
<1>1. table[r] \in Seq(1 .. NumPages)
  BY DEF Rows
<1>2. j \in 1 .. Len(table[r])
  BY <1>1
<1> QED
  BY <1>1, <1>2, SeqAt

\* What a request files: a key of as many pages as it may have.
LEMMA FiledFacts ==
  ASSUME RadixInv, NEW r \in Req, NEW K \in prot[r] .. Len(table[r])
  PROVE  LET key == Path(r, K)
             z == Insert(rc, key, table[r])
         IN  /\ K \in Nat /\ prot[r] \in Nat /\ key \in Name /\ Pages(key) = K
             /\ table[r] \in Seq(1 .. NumPages) /\ Len(table[r]) \in Nat /\ K <= Len(table[r])
             /\ Object(z, last) /\ key \in DOMAIN z.node
             /\ Matched(z, key) = z /\ Descend(z.node, key) = key
             /\ PrefixLen(rc, key) \in 0 .. K
             /\ ValueOf(z.node, key) \in Seq(1 .. NumPages) /\ Len(ValueOf(z.node, key)) = K
<1> DEFINE key == Path(r, K)
           z == Insert(rc, key, table[r])
<1>1. prot[r] \in Nat /\ table[r] \in Seq(1 .. NumPages)
  BY DEF RadixInv, Rows
<1>2. K \in Nat /\ Len(table[r]) \in Nat /\ K <= Len(table[r])
  BY <1>1
<1>3. key \in Name /\ Pages(key) = K
  BY <1>2, PathName
<1>4. Object(rc, last)
  BY DEF RadixInv
<1> HIDE DEF key
<1>5. /\ Object(z, last) /\ key \in DOMAIN z.node
      /\ Matched(z, key) = z /\ Descend(z.node, key) = key
      /\ PrefixLen(rc, key) \in 0 .. Pages(key)
  BY <1>1, <1>2, <1>3, <1>4, InsertFacts
<1> HIDE DEF z
<1>6. ValueOf(z.node, key) \in Seq(1 .. NumPages) /\ Len(ValueOf(z.node, key)) = Pages(key)
  BY <1>5, ValueFacts DEF Object
<1> QED
  BY Zenon, <1>1, <1>2, <1>3, <1>5, <1>6 DEF z, key

LEMMA UnfinishedStep ==
  ASSUME RadixInv, NEW r \in Req, NEW K \in prot[r] .. Len(table[r]), CacheUnfinishedReq(r, K)
  PROVE  RadixInv'
<1> DEFINE key == Path(r, K)
           z == Insert(rc, key, table[r])
           new == ValueOf(z.node, key)
           mid == DecLockRef(z, last[r])
           m == [last EXCEPT ![r] = Root]
<1>1. /\ K \in Nat /\ prot[r] \in Nat /\ key \in Name /\ Pages(key) = K
      /\ table[r] \in Seq(1 .. NumPages) /\ Len(table[r]) \in Nat /\ K <= Len(table[r])
      /\ Object(z, last) /\ key \in DOMAIN z.node
      /\ Matched(z, key) = z /\ Descend(z.node, key) = key
      /\ PrefixLen(rc, key) \in 0 .. K
      /\ new \in Seq(1 .. NumPages) /\ Len(new) = K
  BY Zenon, FiledFacts
<1>2. /\ Idle
      /\ free' = free \cup RowPages(r, prot[r] + 1, PrefixLen(rc, key))
      /\ table' = [table EXCEPT ![r] = ReadBack(r, K, new)]
      /\ prot' = [prot EXCEPT ![r] = Pages(key)]
      /\ rc' = IncLockRef(mid, key)
      /\ last' = [last EXCEPT ![r] = key]
      /\ UNCHANGED <<prefix, evict>>
  <2>1. /\ Idle
        /\ free' = free \cup RowPages(r, prot[r] + 1, PrefixLen(rc, key))
        /\ table' = [table EXCEPT ![r] = ReadBack(r, K, ValueOf(Matched(z, key).node, Descend(Matched(z, key).node, key)))]
        /\ prot' = [prot EXCEPT ![r] = Pages(Descend(Matched(z, key).node, key))]
        /\ rc' = IncLockRef(DecLockRef(Matched(z, key), last[r]), Descend(Matched(z, key).node, key))
        /\ last' = [last EXCEPT ![r] = Descend(Matched(z, key).node, key)]
        /\ UNCHANGED <<prefix, evict>>
    BY Zenon DEF CacheUnfinishedReq
  <2> HIDE DEF key, z
  <2> QED
    BY Zenon, <1>1, <2>1
<1>3. Rows /\ last \in [Req -> DOMAIN rc.node]
  BY DEF RadixInv, Object
<1> HIDE DEF key, z, new
<1>4. Object(mid, m) /\ DOMAIN mid.node = DOMAIN z.node
  <2>1. Object(mid, m) /\ Relocked(z.node, mid.node)
    BY <1>1, DecFacts
  <2> HIDE DEF mid
  <2> QED
    BY <2>1 DEF Relocked
<1> HIDE DEF mid
<1>5. Object(rc', last')
  <2>1. m[r] = Root /\ [m EXCEPT ![r] = key] = last'
    BY <1>2, <1>3
  <2> HIDE DEF m
  <2>2. Object(IncLockRef(mid, key), [m EXCEPT ![r] = key])
    BY <1>1, <1>4, <2>1, IncFacts
  <2> QED
    BY Zenon, <1>2, <2>1, <2>2
<1>6. free' \subseteq 1 .. NumPages
  <2>1. RowPages(r, prot[r] + 1, PrefixLen(rc, key)) \subseteq 1 .. NumPages
    <3>1. PrefixLen(rc, key) \in Int /\ PrefixLen(rc, key) <= Len(table[r])
      BY <1>1
    <3> QED
      BY <1>1, <1>3, <3>1, RowPagesIn
  <2> QED
    BY <1>2, <1>3, <2>1 DEF Rows
<1>7. ReadBack(r, K, new) \in Seq(1 .. NumPages)
  <2>1. DOMAIN table[r] = 1 .. Len(table[r])
    BY <1>1
  <2>2. ASSUME NEW j \in 1 .. Len(table[r])
        PROVE  (IF j \in prot[r] + 1 .. K THEN new[j] ELSE table[r][j]) \in 1 .. NumPages
    <3>1. table[r][j] \in 1 .. NumPages
      BY <1>1, SeqAt
    <3>2. ASSUME j \in prot[r] + 1 .. K PROVE new[j] \in 1 .. NumPages
      <4>1. j \in 1 .. Len(new)
        BY <1>1, <3>2
      <4> QED
        BY <1>1, <4>1, SeqAt
    <3> QED
      BY Zenon, <3>1, <3>2
  <2>3. ReadBack(r, K, new) = [j \in 1 .. Len(table[r]) |-> IF j \in prot[r] + 1 .. K THEN new[j] ELSE table[r][j]]
    BY Zenon, <2>1 DEF ReadBack
  <2>4. ReadBack(r, K, new) \in [1 .. Len(table[r]) -> 1 .. NumPages]
    BY Zenon, <2>2, <2>3
  <2> QED
    BY <1>1, <2>4, SeqOfMap
<1>8. Rows'
  <2> DEFINE row == ReadBack(r, K, new)
  <2>1. row \in Seq(1 .. NumPages) /\ table' = [table EXCEPT ![r] = row]
    BY <1>2, <1>7
  <2> HIDE DEF row
  <2> QED
    BY <1>1, <1>2, <1>3, <1>6, <2>1 DEF Rows
<1>9. Calls'
  BY <1>2, CallsIdle DEF RadixInv
<1> QED
  BY <1>5, <1>8, <1>9 DEF RadixInv

LEMMA FinishedStep ==
  ASSUME RadixInv, NEW r \in Req, NEW K \in prot[r] .. Len(table[r]), NEW isInsert \in BOOLEAN,
         CacheFinishedReq(r, K, isInsert)
  PROVE  RadixInv'
<1> DEFINE key == Path(r, K)
           dup == IF isInsert THEN PrefixLen(rc, key) ELSE K
           s == IF isInsert THEN Insert(rc, key, table[r]) ELSE rc
<1>1. /\ K \in Nat /\ prot[r] \in Nat /\ Len(table[r]) \in Nat /\ K <= Len(table[r])
      /\ Object(Insert(rc, key, table[r]), last) /\ PrefixLen(rc, key) \in 0 .. K
  BY Zenon, FiledFacts
<1>2. /\ Idle
      /\ free' = free \cup RowPages(r, prot[r] + 1, dup) \cup RowPages(r, K + 1, Len(table[r]))
      /\ rc' = DecLockRef(s, last[r])
      /\ table' = [table EXCEPT ![r] = <<>>] /\ prot' = [prot EXCEPT ![r] = 0]
      /\ last' = [last EXCEPT ![r] = Root]
      /\ UNCHANGED <<prefix, evict>>
  BY Zenon DEF CacheFinishedReq
<1>3. Rows /\ last \in [Req -> DOMAIN rc.node] /\ Object(rc, last)
  BY DEF RadixInv, Object
<1>4. Object(s, last) /\ dup \in Int /\ dup <= Len(table[r])
  <2> HIDE DEF key
  <2> QED
    BY <1>1, <1>3
<1> HIDE DEF s, dup
<1>5. Object(rc', last')
  <2>1. Object(DecLockRef(s, last[r]), [last EXCEPT ![r] = Root])
    BY <1>4, DecFacts
  <2> QED
    BY Zenon, <1>2, <2>1
<1>6. free' \subseteq 1 .. NumPages
  <2>1. RowPages(r, prot[r] + 1, dup) \subseteq 1 .. NumPages
    BY <1>1, <1>3, <1>4, RowPagesIn
  <2>2. RowPages(r, K + 1, Len(table[r])) \subseteq 1 .. NumPages
    BY <1>1, <1>3, RowPagesIn
  <2> QED
    BY <1>2, <1>3, <2>1, <2>2 DEF Rows
<1>7. Rows'
  BY <1>2, <1>3, <1>6, RootName DEF Rows
<1>8. Calls'
  BY <1>2, CallsIdle DEF RadixInv
<1> QED
  BY <1>5, <1>7, <1>8 DEF RadixInv

LEMMA BeginStep ==
  ASSUME RadixInv, NEW n \in 1 .. NumPages, EvictBegin(n * PageSize)
  PROVE  RadixInv'
<1>1. n * PageSize \in Nat
  BY TreeAssumption
<1>2. Object(rc', last') /\ Rows'
  BY DEF EvictBegin, RadixInv, Rows
<1>3. Calls'
  <2> DEFINE w == n * PageSize
  <2>1. evict' = [want |-> w, heap |-> rc.leaves] /\ rc' = rc /\ w \in Nat
    BY <1>1 DEF EvictBegin
  <2> HIDE DEF w
  <2> QED
    BY <2>1 DEF Calls
<1> QED
  BY <1>2, <1>3 DEF RadixInv

LEMMA PopStep ==
  ASSUME RadixInv, EvictPop
  PROVE  RadixInv'
<1>1. PICK x \in evict.heap :
        /\ free' = free \cup {rc.node[x].value[i] : i \in DOMAIN rc.node[x].value}
        /\ rc' = DeleteLeaf(rc, x)
        /\ evict' = [want |-> Max({0, evict.want - KeyLen(rc.node, x)}),
                     heap |-> (evict.heap \ {x}) \cup PushParent(DeleteLeaf(rc, x).node, rc.node[x].parent)]
  BY DEF EvictPop
<1>2. evict.want > 0 /\ UNCHANGED <<table, prefix, prot, last>> /\ Rows /\ Calls /\ Object(rc, last)
  BY DEF EvictPop, RadixInv
<1>3. evict.heap = rc.leaves
  BY <1>2 DEF Calls, Idle, NoCall
<1>4. x \in Frontier(rc.node) /\ Fields(rc.node) /\ x \in rc.leaves
  BY <1>1, <1>2, <1>3 DEF Object
<1> DEFINE z == DeleteLeaf(rc, x)
<1>5. /\ Object(z, last) /\ x \in Inner(rc.node) /\ KeyLen(rc.node, x) \in Nat \ {0}
      /\ z.leaves = (rc.leaves \ {x}) \cup PushParent(z.node, rc.node[x].parent)
  BY <1>2, <1>4, DeleteFacts
<1> HIDE DEF z
<1>6. free' \subseteq 1 .. NumPages
  <2> DEFINE v == rc.node[x].value
  <2>1. v \in Seq(1 .. NumPages)
    BY <1>4, <1>5 DEF Fields
  <2> HIDE DEF v
  <2>2. \A i \in DOMAIN v : v[i] \in 1 .. NumPages
    <3>1. DOMAIN v = 1 .. Len(v)
      BY <2>1
    <3> QED
      BY <2>1, <3>1, SeqAt
  <2> USE DEF v
  <2> QED
    BY <1>1, <1>2, <2>2 DEF Rows
<1>7. Rows'
  BY <1>2, <1>6 DEF Rows
<1>8. Calls'
  <2> DEFINE w == Max({0, evict.want - KeyLen(rc.node, x)})
             hp == (evict.heap \ {x}) \cup PushParent(z.node, rc.node[x].parent)
  <2>1. w \in Nat
    <3>1. evict.want - KeyLen(rc.node, x) \in Int
      BY <1>2, <1>5 DEF Calls
    <3> QED
      BY <3>1, MinMaxPair
  <2>2. hp = z.leaves /\ rc' = z
    BY <1>1, <1>3, <1>5 DEF z
  <2>3. evict' = [want |-> w, heap |-> hp]
    BY Zenon, <1>1 DEF z
  <2> HIDE DEF w, hp
  <2> QED
    BY <2>1, <2>2, <2>3 DEF Calls
<1> QED
  BY <1>1, <1>2, <1>5, <1>7, <1>8 DEF RadixInv, z

LEMMA EndStep ==
  ASSUME RadixInv, EvictEnd
  PROVE  RadixInv'
<1>1. Object(rc', last') /\ Rows'
  BY DEF EvictEnd, RadixInv, Rows
<1>2. Calls'
  BY DEF EvictEnd, Calls, Idle, NoCall
<1> QED
  BY <1>1, <1>2 DEF RadixInv

LEMMA ResetStep ==
  ASSUME RadixInv, Reset
  PROVE  RadixInv'
<1>1. last \in [Req -> {Root}]
  BY DEF Reset, Waiting, RadixInv, Object
<1>2. Object(rc', last')
  BY <1>1, FreshObject DEF Reset
<1>3. Rows' /\ Calls'
  BY CallsIdle DEF Reset, RadixInv, Rows
<1> QED
  BY <1>2, <1>3 DEF RadixInv

LEMMA NextInv ==
  ASSUME RadixInv, [Next]_vars
  PROVE  RadixInv'
<1>1. CASE Next
  <2>1. CASE \E r \in Req, n \in 1 .. NumPages : MatchPrefix(r, n) \/ Admit(r, n) \/ Extend(r, n)
    BY <2>1, MatchStep, AdmitStep, ExtendStep
  <2>2. CASE \E r \in Req : \E K \in prot[r] .. Len(table[r]) :
               \/ CacheUnfinishedReq(r, K)
               \/ \E isInsert \in BOOLEAN : CacheFinishedReq(r, K, isInsert)
    BY <2>2, UnfinishedStep, FinishedStep
  <2>3. CASE \E n \in 1 .. NumPages : EvictBegin(n * PageSize)
    BY <2>3, BeginStep
  <2>4. CASE EvictPop
    BY <2>4, PopStep
  <2>5. CASE EvictEnd
    BY <2>5, EndStep
  <2>6. CASE Reset
    BY <2>6, ResetStep
  <2> QED
    BY <1>1, <2>1, <2>2, <2>3, <2>4, <2>5, <2>6 DEF Next
<1>2. CASE UNCHANGED vars
  BY <1>2 DEF vars, RadixInv, Rows, Calls, Idle
<1> QED
  BY <1>1, <1>2

\* The inductive invariant holds in every reachable state.
THEOREM RadixInvariant == Spec => []RadixInv
<1>1. Init => RadixInv
  BY InitInv
<1>2. RadixInv /\ [Next]_vars => RadixInv'
  BY NextInv
<1> QED
  BY <1>1, <1>2, PTL DEF Spec

-----------------------------------------------------------------------------
(* What the invariant says of the properties.                              *)

\* The nodes of the cache in the words of the invariant.
LEMMA NodesAre ==
  /\ Nodes = Inner(rc.node)
  /\ {n \in Nodes : rc.node[n].lock = 0} = Unlocked(rc.node)
  /\ {n \in Nodes : rc.node[n].lock > 0} = Locked(rc.node)
BY DEF Nodes, Inner, Unlocked, Locked

LEMMA TypeHolds ==
  ASSUME RadixInv
  PROVE  TypeOK
<1> DEFINE t == rc.node
<1>1. /\ Tree(t) /\ Fields(t) /\ Locks(t, last) /\ Sums(rc) /\ rc.leaves = Frontier(t)
      /\ last \in [Req -> DOMAIN t] /\ Rows /\ Calls
  BY DEF RadixInv, Object
<1>2. Nodes = Inner(t)
  BY NodesAre
<1>3. \A n \in Inner(t) : /\ Len(n) % PageSize = 0 /\ t[n].parent \in DOMAIN t
                          /\ t[n].value \in Seq(1 .. NumPages) /\ t[n].lock \in Nat
  BY <1>1, LocksNat DEF Tree, Fields, Inner, Name
<1>4. rc.leaves \subseteq Nodes
  BY <1>1, <1>2 DEF Frontier, Unlocked
<1>5. rc.evictable \in Int /\ rc.protected \in Int
  <2>1. Unlocked(t) \in SUBSET Inner(t) /\ Locked(t) \in SUBSET Inner(t)
    BY DEF Unlocked, Locked
  <2>2. TokensOf(t, Unlocked(t)) \in Nat
    BY <1>1, <2>1, TokensFacts
  <2>3. TokensOf(t, Locked(t)) \in Nat
    BY <1>1, <2>1, TokensFacts
  <2> QED
    BY <1>1, <2>2, <2>3 DEF Sums
<1>6. evict.heap \subseteq Nodes
  <2>1. CASE Idle
    BY <2>1 DEF Idle, NoCall
  <2>2. CASE evict.heap = rc.leaves
    BY <1>4, <2>2
  <2> QED
    BY <1>1, <2>1, <2>2 DEF Calls
<1>7. Root \in DOMAIN t /\ free \subseteq 1 .. NumPages /\ \A r \in Req : last[r] \in DOMAIN t
  BY <1>1 DEF Tree, Rows
<1> QED
  BY <1>2, <1>3, <1>4, <1>5, <1>6, <1>7 DEF TypeOK

LEMMA ShapeHolds ==
  ASSUME RadixInv
  PROVE  TreeShape
<1> DEFINE t == rc.node
<1>1. Tree(t) /\ Fields(t) /\ Nodes = Inner(t)
  BY NodesAre DEF RadixInv, Object
<1>2. ASSUME NEW n \in Inner(t)
      PROVE  LET p == t[n].parent
             IN  /\ Len(p) < Len(n) /\ SubSeq(n, 1, Len(p)) = p
                 /\ Len(t[n].value) = Pages(n) - Pages(p)
  <2>1. Len(t[n].value) = Pages(n) - Pages(t[n].parent)
    BY <1>1 DEF Fields
  <2>2. n \in Name /\ t[n].parent \in Name /\ Pre(t[n].parent, n)
    BY <1>1 DEF Tree, Inner
  <2>3. KeyLen(t, n) \in Nat \ {0} /\ KeyLen(t, n) = Len(n) - Len(t[n].parent)
        /\ Len(n) \in Nat /\ Len(t[n].parent) \in Nat
    BY <1>1, KeyLenFacts
  <2>4. SubSeq(n, 1, Len(t[n].parent)) = t[n].parent
    BY <2>2, PreIsPrefix
  <2> QED
    BY <2>1, <2>3, <2>4
<1>3. ASSUME NEW n \in Inner(t), NEW c \in Inner(t), n # c, t[n].parent = t[c].parent
      PROVE  Block(n, Pages(t[n].parent) + 1) # Block(c, Pages(t[n].parent) + 1)
  BY <1>1, <1>3, ChildrenDiffer
<1> QED
  BY <1>1, <1>2, <1>3 DEF TreeShape

LEMMA LocksHold ==
  ASSUME RadixInv
  PROVE  LockRefExact
<1> DEFINE t == rc.node
<1>1. Tree(t) /\ Locks(t, last) /\ last \in [Req -> DOMAIN t] /\ Nodes = Inner(t)
  BY NodesAre DEF RadixInv, Object
<1>2. ASSUME NEW n \in Inner(t)
      PROVE  t[n].lock = Cardinality({r \in Req : /\ Len(n) <= Len(last[r])
                                                   /\ SubSeq(last[r], 1, Len(n)) = n})
  <2>1. ASSUME NEW r \in Req
        PROVE  Pre(n, last[r]) <=> Len(n) <= Len(last[r]) /\ SubSeq(last[r], 1, Len(n)) = n
    <3>1. n \in Name /\ last[r] \in Name
      BY <1>1 DEF Tree, Inner
    <3> QED
      BY <3>1, PreIsPrefix
  <2>2. Below(last, n) = {r \in Req : Len(n) <= Len(last[r]) /\ SubSeq(last[r], 1, Len(n)) = n}
    BY <2>1 DEF Below
  <2> QED
    BY <1>1, <2>2 DEF Locks
<1> QED
  BY <1>1, <1>2, TypeHolds, ShapeHolds DEF LockRefExact

LEMMA SizesHold ==
  ASSUME RadixInv
  PROVE  SizesExact
<1>1. Sums(rc) /\ rc.leaves = Frontier(rc.node)
  BY DEF RadixInv, Object
<1>2. LeavesExact
  BY <1>1, NodesAre DEF LeavesExact, Frontier, Unlocked
<1> QED
  BY <1>1, <1>2, NodesAre DEF SizesExact, Sums

\* Below an unlocked node nothing is locked; so without an unlocked leaf there is no
\* unlocked node.
LEMMA NoneUnlocked ==
  ASSUME NEW t, NEW l, Tree(t), Locks(t, l), l \in [Req -> DOMAIN t], Frontier(t) = {}
  PROVE  Unlocked(t) = {}
<1> SUFFICES ASSUME Unlocked(t) # {} PROVE FALSE
  OBVIOUS
<1> DEFINE L == {Pages(n) : n \in Unlocked(t)}
<1>1. Unlocked(t) \subseteq Inner(t) /\ Inner(t) \subseteq DOMAIN t /\ \A n \in DOMAIN t : n \in Name /\ Pages(n) \in Nat
  BY NameLen DEF Tree, Unlocked, Inner
<1>2. IsFiniteSet(Unlocked(t))
  BY <1>1, FS_Subset DEF Tree
<1>3. IsFiniteSet(L) /\ L \subseteq Int /\ L # {}
  <2>1. IsFiniteSet(L)
    <3> DEFINE f == [n \in Unlocked(t) |-> Pages(n)]
    <3>1. f \in Surjection(Unlocked(t), L)
      BY DEF Surjection
    <3> HIDE DEF f, L
    <3> QED
      BY <1>2, <3>1, FS_Surjection
  <2> QED
    BY <1>1, <2>1
<1>4. Max(L) \in L /\ \A y \in L : Max(L) >= y
  <2> HIDE DEF L
  <2> QED
    BY <1>3, FiniteMax
<1>5. PICK x \in Unlocked(t) : Max(L) = Pages(x)
  BY <1>4
<1>6. PICK c \in Children(t, x) : TRUE
  BY DEF Frontier
<1>7. c \in Inner(t) /\ t[c].parent = x /\ x \in Inner(t)
  BY <1>1, <1>6 DEF Children, Inner
<1>8. Pre(x, c) /\ Pages(x) < Pages(c)
  BY <1>7 DEF Tree
<1>9. Below(l, c) \subseteq Below(l, x)
  <2> SUFFICES ASSUME NEW r \in Req, Pre(c, l[r]) PROVE Pre(x, l[r])
    BY DEF Below
  <2>1. x \in Name /\ c \in Name /\ l[r] \in Name
    BY <1>1, <1>7
  <2> QED
    BY <1>8, <2>1, PreFacts
<1>10. Cardinality(Below(l, x)) = 0
  BY <1>5, <1>7 DEF Unlocked, Locks
<1>11. Below(l, c) = {}
  <2>1. Below(l, x) = {}
    BY <1>10, BelowFinite, FS_EmptySet
  <2> QED
    BY <1>9, <2>1
<1>12. c \in Unlocked(t)
  <2>1. t[c].lock = 0
    BY <1>7, <1>11, FS_EmptySet DEF Locks
  <2> QED
    BY <1>7, <2>1 DEF Unlocked
<1>13. Max(L) >= Pages(c)
  BY <1>4, <1>12
<1> HIDE DEF L
<1> QED
  BY <1>1, <1>5, <1>7, <1>8, <1>13

LEMMA EvictHolds ==
  ASSUME RadixInv
  PROVE  EvictComplete
<1> SUFFICES ASSUME evict.want > 0, evict.heap = {} PROVE rc.evictable = 0
  BY DEF EvictComplete
<1>1. /\ Tree(rc.node) /\ Locks(rc.node, last) /\ last \in [Req -> DOMAIN rc.node] /\ Sums(rc)
      /\ rc.leaves = Frontier(rc.node) /\ Calls
  BY DEF RadixInv, Object
<1>2. evict.heap = rc.leaves
  BY <1>1 DEF Calls, Idle, NoCall
<1>3. Unlocked(rc.node) = {}
  BY <1>1, <1>2, NoneUnlocked
<1>4. TokensOf(rc.node, {}) = 0
  <2>1. {} \in SUBSET Inner(rc.node)
    OBVIOUS
  <2> QED
    BY <1>1, <2>1, TokensFacts
<1> QED
  BY <1>1, <1>3, <1>4 DEF Sums

\* CacheView has the cached paths.
LEMMA ViewDomain ==
  ASSUME RadixInv
  PROVE  DOMAIN CacheView = Paths(rc.node)
<1> DEFINE t == rc.node
           cuts(n) == {SubSeq(n, 1, j * PageSize) : j \in Pages(t[n].parent) + 1 .. Pages(n)}
<1>1. Tree(t) /\ Nodes = Inner(t)
  BY NodesAre DEF RadixInv, Object
<1>2. DOMAIN CacheView = UNION {cuts(n) : n \in Nodes}
  BY DEF CacheView
<1>3. \A n : cuts(n) = Edge(t[n].parent, n)
  BY DEF Edge, Cut
<1> HIDE DEF cuts
<1>4. ASSUME NEW n \in Inner(t), NEW p \in Edge(t[n].parent, n) PROVE p \in Paths(t)
  <2>1. n \in Name /\ n \in DOMAIN t /\ Pages(n) \in Nat /\ Pages(t[n].parent) \in Nat
    BY <1>1, NameLen DEF Tree, Inner
  <2>2. PICK j \in Pages(t[n].parent) + 1 .. Pages(n) : p = Cut(n, j)
    BY DEF Edge
  <2>3. j \in 0 .. Pages(n) /\ j # 0
    BY <2>1
  <2>4. p \in Name /\ Pages(p) = j /\ Pre(p, n)
    BY <2>1, <2>2, <2>3, CutFacts
  <2>5. p # Root
    BY <2>3, <2>4, RootName
  <2> QED
    BY <2>1, <2>4, <2>5 DEF Paths
<1>5. ASSUME NEW p \in Paths(t) PROVE \E n \in Inner(t) : p \in Edge(t[n].parent, n)
  <2>1. p \in Name /\ Pages(p) \in Nat \ {0}
    BY <1>1, PathOwner
  <2>2. PICK n \in Inner(t) : Pre(p, n) /\ Pages(t[n].parent) < Pages(p)
    BY <1>1, PathOwner
  <2>3. n \in Name /\ Pages(n) \in Nat /\ Pages(t[n].parent) \in Nat
    BY <1>1, NameLen DEF Tree, Inner
  <2>4. Pages(p) \in Pages(t[n].parent) + 1 .. Pages(n)
    BY <2>1, <2>2, <2>3 DEF Pre
  <2>5. p = Cut(n, Pages(p))
    BY <2>1, <2>2, <2>3, CutEnd
  <2> QED
    BY Zenon, <2>4, <2>5 DEF Edge
<1> QED
  BY <1>1, <1>2, <1>3, <1>4, <1>5

LEMMA EventsHold ==
  ASSUME RadixInv
  PROVE  EventsMirrorCache
<1>1. Tree(rc.node) /\ rc.blocks = {Announced(p) : p \in Paths(rc.node)}
  BY DEF RadixInv, Object
<1>2. ASSUME NEW p \in Paths(rc.node)
      PROVE  Announced(p) = [hash |-> p, parent |-> SubSeq(p, 1, Len(p) - PageSize)]
  <2>1. Len(p) = Pages(p) * PageSize /\ Pages(p) \in Nat \ {0} /\ PageSize \in Nat
    BY <1>1, PathOwner, NameLen, TreeAssumption
  <2>2. (Pages(p) - 1) * PageSize = Len(p) - PageSize
    BY <2>1
  <2> QED
    BY Zenon, <2>2 DEF Announced, Cut
<1>3. {Announced(p) : p \in Paths(rc.node)}
      = {[hash |-> p, parent |-> SubSeq(p, 1, Len(p) - PageSize)] : p \in Paths(rc.node)}
  BY Zenon, <1>2
<1> QED
  BY Zenon, <1>1, <1>3, ViewDomain DEF EventsMirrorCache

-----------------------------------------------------------------------------
(* The theorems.                                                           *)

\* lock_ref of every node is the number of requests that read at or below it, in a
\* tree that stays a radix tree, whatever is split, inserted, locked, released and
\* evicted in whatever order (inc_lock_ref, dec_lock_ref, _split_node).
THEOREM LocksAreExact == Spec => []LockRefExact
<1>1. RadixInv => LockRefExact
  BY LocksHold
<1> QED
  BY <1>1, RadixInvariant, PTL

\* evictable_size_, protected_size_ and evictable_leaves, kept incrementally, are what
\* the tree holds (_update_leaf_status, _insert_helper, _delete_leaf).
THEOREM SizesAreExact == Spec => []SizesExact
<1>1. RadixInv => SizesExact
  BY SizesHold
<1> QED
  BY <1>1, RadixInvariant, PTL

\* evict() never runs out of leaves while something is evictable.
THEOREM EvictionIsComplete == Spec => []EvictComplete
<1>1. RadixInv => EvictComplete
  BY EvictHolds
<1> QED
  BY <1>1, RadixInvariant, PTL

\* The KV events announce and remove exactly the blocks of the cached paths
\* (_record_store_event, _record_remove_event, split_node_hash_value).
THEOREM EventsAreExact == Spec => []EventsMirrorCache
<1>1. RadixInv => EventsMirrorCache
  BY EventsHold
<1> QED
  BY <1>1, RadixInvariant, PTL
=============================================================================
