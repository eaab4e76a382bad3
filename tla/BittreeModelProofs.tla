------------------------- MODULE BittreeModelProofs -------------------------
(***************************************************************************)
(* Theorems on the bittree of the E-ACSL runtime, for any variables, any   *)
(* heap, any sizes and any sequence of calls: the trie holds the blocks of *)
(* the program and nothing else, its walks give the answers of the         *)
(* contracts, the bt_block structures are the blocks of BlockMap at every  *)
(* step, and what is said to be initialized was written.                   *)
(***************************************************************************)
EXTENDS BittreeModel, PatriciaTrieProofs

-----------------------------------------------------------------------------
(* The trie of a set of addresses: each is its own leaf *)

TrieOf(t, S) ==
  /\ TrieInv(t) /\ Counted(t)
  /\ Entries(t) = {<<b, b>> : b \in S}

BtBlock == [size : Nat, init_ptr : BOOLEAN, bits : SUBSET Nat, init_bytes : Nat,
            is_readonly : BOOLEAN, is_freeable : BOOLEAN]

\* A block is one that the allocator has put on the heap, or a variable.
OnHeap(p, n) == p \in HeapBases /\ n \in Sizes /\ p + n <= HeapEnd
IsObject(p, n) == \E o \in Objects : o.base = p /\ o.size = n

BlockOK(p, r) ==
  /\ r \in BtBlock /\ IsFiniteSet(r.bits)
  /\ IF r.is_freeable THEN OnHeap(p, r.size) ELSE IsObject(p, r.size)

BlocksOK(bk) ==
  /\ bk = [b \in DOMAIN bk |-> bk[b]] /\ IsFiniteSet(DOMAIN bk)
  /\ \A b \in DOMAIN bk : BlockOK(b, bk[b])
  /\ \A b, c \in DOMAIN bk :
       b # c => Footprint(b, bk[b].size) \cap Footprint(c, bk[c].size) = {}

\* The three views of what is initialized, and the bytes that were written.
InitOK(b, r, wr) ==
  /\ r.init_bytes <= r.size
  /\ r.init_bytes = r.size => Span(b, r.size) \subseteq wr
  /\ r.init_bytes # 0 /\ r.init_bytes # r.size =>
       /\ r.bits \subseteq 0 .. r.size - 1
       /\ Cardinality(r.bits) = r.init_bytes
       /\ \A i \in r.bits : b + i \in wr

Statuses == {"running", "aborted", "crashed", "undefined"}

\* The inductive invariant, but for initialization, which needs that blocks
\* do not shrink when they are partly written, and for what is read-only.
BittreeInv ==
  /\ BlocksOK(blk)
  /\ TrieOf(bittree, DOMAIN blk)
  /\ status \in Statuses

\* A block of the heap is not read-only, as long as no variable is moved there.
HeapWritable(bk) == \A b \in DOMAIN bk : bk[b].is_freeable => ~bk[b].is_readonly

WritableInv == status # "undefined" => HeapWritable(blk)

InitInv == \A b \in DOMAIN blk : InitOK(b, blk[b], written)

\* The trie of no block.
LEMMA TrieOfEmpty == TrieOf(EmptyTrie, {})
  BY EmptyTrieIsTrie DEF TrieOf

\* An entry for each address.
LEMMA TrieOfEntries ==
  ASSUME NEW t, NEW S, TrieOf(t, S)
  PROVE  /\ \A b \in S : <<b, b>> \in Entries(t) /\ b \in Word /\ b \in Nat \ {0}
         /\ \A e \in Entries(t) : e[1] \in S /\ e[2] = e[1]
         /\ t.root = NULL <=> S = {}
<1>1. TrieInv(t) /\ Entries(t) = {<<b, b>> : b \in S}
  BY DEF TrieOf
<1>2. ASSUME NEW b \in S PROVE <<b, b>> \in Entries(t) /\ b \in Word /\ b \in Nat \ {0} /\ t.root # NULL
  <2>1. <<b, b>> \in Entries(t) /\ <<b, b>>[1] = b /\ <<b, b>>[2] = b
    BY <1>1
  <2>2. \A e \in Entries(t) : e[1] \in Word /\ e[2] \in Nat \ {0} /\ t.root # NULL
    BY <1>1, EntryNode
  <2> QED BY <2>1, <2>2
<1>3. ASSUME NEW e \in Entries(t) PROVE e[1] \in S /\ e[2] = e[1]
  BY <1>1
<1>4. ASSUME S = {} PROVE t.root = NULL
  <2>1. Entries(t) = {}
    BY <1>1, <1>4
  <2>2. ASSUME t.root # NULL PROVE FALSE
    <3>1. t.root \in DOMAIN t.node
      BY <1>1, <2>2 DEF TrieInv, Rooted
    <3>2. PICK n \in LeafNodes(t) : TRUE
      BY <1>1, <3>1, LeafBelow
    <3>3. <<t.node[n].addr, t.node[n].leaf>> \in Entries(t)
      BY DEF Entries
    <3> QED BY <2>1, <3>3
  <2> QED BY <2>2
<1> QED BY <1>2, <1>3, <1>4

\* bt_insert of a new base.
LEMMA TrieOfInsert ==
  ASSUME NEW t, NEW S, TrieOf(t, S), NEW b \in Word \ {NULL}, b \notin S
  PROVE  TrieOf(pt_insert(t, b, b), S \cup {b})
<1>1. TrieInv(t) /\ Counted(t) /\ Entries(t) = {<<c, c>> : c \in S}
  BY DEF TrieOf
<1>2. \A e \in Entries(t) : e[1] # b
  BY TrieOfEntries
<1>3. NoLeafAt(t, b)
  BY <1>2, NoEntryNoLeaf
<1>4. b \in Word /\ b \in Nat \ {0}
  BY DEF Word, NULL
<1>. DEFINE u == pt_insert(t, b, b)
<1>5. TrieInv(u) /\ Counted(u) /\ Entries(u) = Entries(t) \cup {<<b, b>>}
  BY <1>1, <1>3, <1>4, InsertKeepsTrie
<1>6. {<<c, c>> : c \in S} \cup {<<b, b>>} = {<<c, c>> : c \in S \cup {b}}
  OBVIOUS
<1>. HIDE DEF u
<1>7. TrieOf(u, S \cup {b})
  BY <1>1, <1>5, <1>6 DEF TrieOf
<1> QED BY <1>7 DEF u

\* bt_remove of a base.
LEMMA TrieOfRemove ==
  ASSUME NEW t, NEW S, TrieOf(t, S), NEW b \in S
  PROVE  TrieOf(pt_remove(t, b), S \ {b})
<1>1. TrieInv(t) /\ Counted(t) /\ Entries(t) = {<<c, c>> : c \in S}
  BY DEF TrieOf
<1>. DEFINE e == <<b, b>>
            u == pt_remove(t, b)
<1>2. e \in Entries(t) /\ e[1] = b
  BY <1>1
<1>. HIDE DEF e
<1>3. TrieInv(u) /\ Counted(u) /\ Entries(u) = Entries(t) \ {e}
  <2>. DEFINE v == pt_remove(t, e[1])
  <2>1. TrieInv(v) /\ Counted(v) /\ Entries(v) = Entries(t) \ {e}
    BY <1>1, <1>2, RemoveTakesEntry
  <2> QED BY <1>2, <2>1
<1>4. {<<c, c>> : c \in S} \ {<<b, b>>} = {<<c, c>> : c \in S \ {b}}
  OBVIOUS
<1>. HIDE DEF u
<1>5. TrieOf(u, S \ {b})
  BY <1>1, <1>3, <1>4 DEF TrieOf, e
<1> QED BY <1>5 DEF u

\* bt_lookup finds the bases and nothing else.
LEMMA TrieOfLookup ==
  ASSUME NEW t, NEW S, TrieOf(t, S), t.root # NULL, NEW p
  PROVE  pt_lookup(t, p) = IF p \in S THEN p ELSE NULL
<1>1. TrieInv(t)
  BY DEF TrieOf
<1>2. ASSUME p \in S PROVE pt_lookup(t, p) = p
  <2>. DEFINE e == <<p, p>>
  <2>1. e \in Entries(t) /\ e[1] = p /\ e[2] = p
    BY <1>2, TrieOfEntries
  <2>. HIDE DEF e
  <2> QED BY <1>1, <2>1, LookupIsExact
<1>3. ASSUME p \notin S PROVE pt_lookup(t, p) = NULL
  <2>1. \A e \in Entries(t) : e[1] # p
    BY <1>3, TrieOfEntries
  <2> QED BY <1>1, <2>1, LookupIsExact
<1> QED BY <1>2, <1>3

\* Of the addresses up to p the last one counts.
LEMMA TrieOfFind ==
  ASSUME NEW t, NEW S, TrieOf(t, S), NEW p \in Word \ {NULL}, NEW holders
  PROVE  /\ \A b \in S : b <= p /\ (\A c \in S : c <= p => c <= b)
                         => pt_find(t, holders, p) = IF b \in holders THEN b ELSE NULL
         /\ (\A b \in S : b \notin holders) => pt_find(t, holders, p) = NULL
<1>1. TrieInv(t)
  BY DEF TrieOf
<1>2. /\ \A b \in S : <<b, b>> \in Entries(t) /\ b \in Nat
      /\ \A e \in Entries(t) : e[1] \in S /\ e[2] = e[1]
  BY TrieOfEntries
<1>3. ASSUME NEW b \in S, b <= p, \A c \in S : c <= p => c <= b
      PROVE  pt_find(t, holders, p) = IF b \in holders THEN b ELSE NULL
  <2>. DEFINE e == <<b, b>>
  <2>1. e \in Entries(t) /\ e[1] = b /\ e[2] = b
    BY <1>2
  <2>. HIDE DEF e
  <2>2. e[1] <= p /\ \A f \in Entries(t) : f[1] <= p => f[1] <= e[1]
    BY <1>2, <1>3, <2>1
  <2> QED BY <1>1, <2>1, <2>2, FindIsExact
<1>4. ASSUME \A b \in S : b \notin holders PROVE pt_find(t, holders, p) = NULL
  <2>. DEFINE Before == {c \in S : c <= p}
              Far == {p - c : c \in Before}
  <2>0. p \in Nat /\ S \subseteq Nat
    <3>1. p \in Word
      OBVIOUS
    <3>2. p \in Nat
      BY <3>1 DEF Word
    <3>3. S \subseteq Nat
      BY <1>2
    <3> QED BY <3>2, <3>3
  <2>1. CASE Before = {}
    <3>1. \A e \in Entries(t) : ~(e[1] <= p)
      BY <1>2, <2>1
    <3> QED BY <1>1, <3>1, FindIsExact
  <2>2. CASE Before # {}
    <3>1. Far \subseteq Nat /\ Far # {}
      BY <2>0, <2>2
    <3>2. PICK d \in Far : \A y \in Far : d <= y
      BY <3>1, NatMinimum
    <3>3. PICK b \in Before : d = p - b
      BY <3>2
    <3>4. \A c \in Before : d <= p - c
      BY <3>2
    <3>5. b \in S /\ b <= p /\ \A c \in S : c <= p => c <= b
      BY <2>0, <3>3, <3>4
    <3> QED BY <1>3, <1>4, <3>5
  <2> QED BY <2>1, <2>2
<1> QED BY <1>3, <1>4

\* The size of the trie, which TrieHoldsBlocks gives.
LEMMA TrieOfSize ==
  ASSUME NEW t, NEW S, TrieOf(t, S)
  PROVE  /\ Leaves(t) = S /\ IsFiniteSet(S)
         /\ Cardinality(DOMAIN t.node) = Max({0, 2 * Cardinality(S) - 1})
<1>1. TrieInv(t) /\ Counted(t) /\ Entries(t) = {<<c, c>> : c \in S}
  BY DEF TrieOf
<1>2. Leaves(t) = S
  <2>1. Leaves(t) = {e[2] : e \in Entries(t)}
    BY LeavesOfEntries
  <2>2. ASSUME NEW b \in S PROVE b \in {e[2] : e \in Entries(t)}
    <3>1. <<b, b>> \in Entries(t) /\ <<b, b>>[2] = b
      BY <1>1
    <3> QED BY <3>1
  <2>3. \A e \in Entries(t) : e[2] \in S
    BY TrieOfEntries
  <2> QED BY <2>1, <2>2, <2>3
<1>3. IsFiniteSet(S) /\ Cardinality(S) = Cardinality(Entries(t))
  <2>. DEFINE f == [e \in Entries(t) |-> e[1]]
  <2>1. \A e \in Entries(t) : e[1] \in S
    BY <1>1
  <2>2. f \in [Entries(t) -> S]
    BY <2>1
  <2>3. \A e, g \in Entries(t) : f[e] = f[g] => e = g
    BY <1>1
  <2>4. \A b \in S : \E e \in Entries(t) : f[e] = b
    <3>1. ASSUME NEW b \in S PROVE \E e \in Entries(t) : f[e] = b
      <4>1. <<b, b>> \in Entries(t) /\ <<b, b>>[1] = b
        BY <1>1
      <4>2. f[<<b, b>>] = b
        BY <4>1
      <4> QED BY <4>1, <4>2
    <3> QED BY <3>1
  <2>. HIDE DEF f
  <2>5. f \in Bijection(Entries(t), S)
    BY <2>2, <2>3, <2>4 DEF Bijection, Injection, Surjection, IsInjective
  <2>6. IsFiniteSet(Entries(t))
    BY <1>1 DEF Counted
  <2> QED BY <2>5, <2>6, FS_Bijection, FS_SameCardinalityBij DEF ExistsBijection
<1>4. Cardinality(S) \in Nat /\ (Cardinality(S) = 0 <=> S = {})
  BY <1>3, FS_CardinalityType, FS_EmptySet
<1>5. Cardinality(DOMAIN t.node) = IF S = {} THEN 0 ELSE 2 * Cardinality(S) - 1
  BY <1>1, <1>3, TrieOfEntries DEF Counted
<1>6. \A n \in Nat : n # 0 => Max({0, 2 * n - 1}) = 2 * n - 1
  BY DEF Max
<1>7. 2 * 0 - 1 = -1 /\ Max({0, -1}) = 0
  BY DEF Max
<1> QED BY <1>2, <1>3, <1>4, <1>5, <1>6, <1>7

-----------------------------------------------------------------------------
(* Blocks *)

\* What the abstract memory knows of a block.
Abs(p, r) == [base |-> p, size |-> r.size, heap |-> r.is_freeable, readonly |-> r.is_readonly]
BlocksOf(bk) == {Abs(b, bk[b]) : b \in DOMAIN bk}

\* Bytes of a region, and its footprint, which is not empty.
LEMMA Spans ==
  ASSUME NEW p \in Nat, NEW n \in Nat
  PROVE  /\ \A x : x \in Span(p, n) <=> x \in Nat /\ p <= x /\ x < p + n
         /\ n > 0 => Footprint(p, n) = Span(p, n) /\ p \in Span(p, n)
         /\ p \in Footprint(p, n) /\ Span(p, n) \subseteq Footprint(p, n)
         /\ Footprint(p, n) \subseteq Nat
  BY DEF Span, Footprint

\* Objects and heap blocks have addresses of the program.
LEMMA ObjectPlace ==
  ASSUME BittreeAssumption, NEW o \in Objects
  PROVE  /\ o.base \in Nat \ {0} /\ o.size \in Nat
         /\ Footprint(o.base, o.size) \subseteq Addr /\ o.base \in Addr
<1>1. o \in [base : Nat \ {0}, size : Nat]
  BY DEF BittreeAssumption
<1>2. Footprint(o.base, o.size) \subseteq Addr
  BY DEF Addr
<1>3. o.base \in Footprint(o.base, o.size)
  BY DEF Footprint
<1> QED BY <1>1, <1>2, <1>3

\* A place that the allocator gives is in the heap.
LEMMA HeapPlace ==
  ASSUME BittreeAssumption, NEW p, NEW n, OnHeap(p, n)
  PROVE  /\ p \in Nat \ {0} /\ n \in Nat \ {0} /\ HeapEnd \in Nat /\ p \in HeapBases
         /\ Footprint(p, n) = Span(p, n) /\ p \in Addr
         /\ Footprint(p, n) \subseteq Span(p, HeapEnd - p) /\ Footprint(p, n) \subseteq Addr
<1>1. p \in HeapBases /\ n \in Sizes /\ p + n <= HeapEnd
  BY DEF OnHeap
<1>2. p \in Nat \ {0} /\ n \in Nat \ {0} /\ HeapEnd \in Nat
  BY <1>1 DEF BittreeAssumption
<1>3. Footprint(p, n) = Span(p, n) /\ p \in Span(p, n)
  BY <1>2, Spans
<1>4. Span(p, n) \subseteq Span(p, HeapEnd - p)
  BY <1>1, <1>2 DEF Span
<1>5. Span(p, HeapEnd - p) \subseteq Addr
  <2>. DEFINE All == {Span(q, HeapEnd - q) : q \in HeapBases}
  <2>1. Span(p, HeapEnd - p) \in All
    BY <1>1
  <2>2. UNION All \subseteq Addr
    BY DEF Addr
  <2>. HIDE DEF All
  <2> QED BY <2>1, <2>2
<1> QED BY <1>1, <1>2, <1>3, <1>4, <1>5

\* The addresses of a program are not null and fit in a word.
LEMMA AddrsAreWords ==
  ASSUME BittreeAssumption, NEW p \in Addr
  PROVE  p \in Word \ {NULL} /\ p \in Nat \ {0}
<1>1. p \in Word /\ p \in Nat
  <2>1. p \in Word
    BY DEF BittreeAssumption
  <2> QED BY <2>1 DEF Word
<1>2. p # 0
  <2>1. CASE \E o \in Objects : p \in Footprint(o.base, o.size)
    <3>1. PICK o \in Objects : p \in Footprint(o.base, o.size)
      BY <2>1
    <3>2. o.base \in Nat \ {0} /\ o.size \in Nat
      BY ObjectPlace
    <3> QED BY <3>1, <3>2 DEF Footprint, Span
  <2>2. CASE \E q \in HeapBases : p \in Span(q, HeapEnd - q)
    <3>1. PICK q \in HeapBases : p \in Span(q, HeapEnd - q)
      BY <2>2
    <3>2. q \in Nat \ {0} /\ HeapEnd \in Nat
      BY DEF BittreeAssumption
    <3> QED BY <3>1, <3>2 DEF Span
  <2>3. \/ \E o \in Objects : p \in Footprint(o.base, o.size)
        \/ \E q \in HeapBases : p \in Span(q, HeapEnd - q)
    BY Zenon DEF Addr
  <2> QED BY <2>1, <2>2, <2>3
<1> QED BY <1>1, <1>2 DEF NULL

\* Where a block of the table lies.
LEMMA BlockPlace ==
  ASSUME BittreeAssumption, NEW p, NEW r, BlockOK(p, r)
  PROVE  /\ r \in BtBlock /\ r.size \in Nat /\ r.init_bytes \in Nat /\ r.bits \subseteq Nat
         /\ IsFiniteSet(r.bits) /\ r.is_freeable \in BOOLEAN /\ r.is_readonly \in BOOLEAN
         /\ p \in Addr /\ p \in Nat \ {0} /\ p \in Word \ {NULL} /\ p \in Footprint(p, r.size)
         /\ Footprint(p, r.size) \subseteq Addr /\ Span(p, r.size) \subseteq Footprint(p, r.size)
         /\ r.is_freeable => OnHeap(p, r.size)
         /\ ~r.is_freeable => \E o \in Objects : p = o.base /\ r.size = o.size
<1>1. /\ r \in BtBlock /\ r.size \in Nat /\ r.init_bytes \in Nat /\ r.bits \subseteq Nat
      /\ IsFiniteSet(r.bits) /\ r.is_freeable \in BOOLEAN /\ r.is_readonly \in BOOLEAN
  BY DEF BlockOK, BtBlock
<1>2. CASE r.is_freeable
  <2>1. OnHeap(p, r.size)
    BY <1>2 DEF BlockOK
  <2>2. p \in Addr /\ Footprint(p, r.size) \subseteq Addr
    BY <2>1, HeapPlace
  <2> QED BY <1>1, <1>2, <2>1, <2>2, AddrsAreWords DEF Footprint
<1>3. CASE ~r.is_freeable
  <2>1. PICK o \in Objects : p = o.base /\ r.size = o.size
    BY <1>3 DEF BlockOK, IsObject
  <2>2. p \in Addr /\ Footprint(p, r.size) \subseteq Addr
    BY <2>1, ObjectPlace
  <2> QED BY <1>1, <1>3, <2>1, <2>2, AddrsAreWords DEF Footprint
<1> QED BY <1>1, <1>2, <1>3

\* Where the allocator can put a block it is apart from the others, variables
\* of no byte included.
LEMMA HeapApart ==
  ASSUME BittreeAssumption, NEW p, NEW n, OnHeap(p, n), NEW b, NEW r, BlockOK(b, r),
         Span(b, r.size) \cap Span(p, n) = {}
  PROVE  Footprint(b, r.size) \cap Footprint(p, n) = {}
<1>1. Footprint(p, n) = Span(p, n) /\ Footprint(p, n) \subseteq Span(p, HeapEnd - p) /\ p \in HeapBases
  BY HeapPlace
<1>2. CASE r.is_freeable
  <2>1. Footprint(b, r.size) = Span(b, r.size)
    BY <1>2, BlockPlace, HeapPlace
  <2> QED BY <1>1, <2>1
<1>3. CASE ~r.is_freeable
  <2>1. PICK o \in Objects : b = o.base /\ r.size = o.size
    BY <1>3, BlockPlace
  <2>2. Footprint(o.base, o.size) \cap Span(p, HeapEnd - p) = {}
    BY <1>1 DEF BittreeAssumption
  <2> QED BY <1>1, <2>1, <2>2
<1> QED BY <1>2, <1>3

\* The block of BlockMap that a bt_block stands for.
LEMMA AbsShape ==
  ASSUME BittreeAssumption, NEW p, NEW r, BlockOK(p, r)
  PROVE  /\ Abs(p, r) \in Memory!Block
         /\ Memory!Bytes(Abs(p, r)) = Span(p, r.size)
         /\ Memory!Footprint(Abs(p, r)) = Footprint(p, r.size)
         /\ Abs(p, r).base = p /\ Abs(p, r).size = r.size
         /\ Abs(p, r).heap = r.is_freeable /\ Abs(p, r).readonly = r.is_readonly
<1>1. /\ p \in Addr /\ r.size \in Nat /\ r.is_freeable \in BOOLEAN /\ r.is_readonly \in BOOLEAN
      /\ r.is_freeable => OnHeap(p, r.size)
      /\ ~r.is_freeable => \E o \in Objects : p = o.base /\ r.size = o.size
  BY BlockPlace
<1>2. r.size \in Sizes \cup {o.size : o \in Objects}
  BY <1>1 DEF OnHeap
<1>3. /\ Abs(p, r).base = p /\ Abs(p, r).size = r.size
      /\ Abs(p, r).heap = r.is_freeable /\ Abs(p, r).readonly = r.is_readonly
  BY DEF Abs
<1>4. Abs(p, r) \in Memory!Block
  BY <1>1, <1>2 DEF Abs, Memory!Block
<1>5. Memory!Bytes(Abs(p, r)) = Span(p, r.size)
  BY <1>3 DEF Memory!Bytes, Memory!Span, Span
<1>6. Memory!Footprint(Abs(p, r)) = Footprint(p, r.size)
  BY <1>3, <1>5 DEF Memory!Footprint, Footprint
<1> QED BY <1>3, <1>4, <1>5, <1>6

\* It is determined by its base.
LEMMA AbsBase ==
  ASSUME NEW bk, NEW c \in BlocksOf(bk)
  PROVE  c.base \in DOMAIN bk /\ c = Abs(c.base, bk[c.base])
  BY DEF BlocksOf, Abs

\* A block that becomes read-only, or not, keeps the rest.
LEMMA ReadonlyIs ==
  ASSUME NEW p, NEW r, NEW v
  PROVE  [Abs(p, r) EXCEPT !.readonly = v]
         = [base |-> p, size |-> r.size, heap |-> r.is_freeable, readonly |-> v]
<1>. DEFINE n == r.size
            h == r.is_freeable
            w == r.is_readonly
<1>1. Abs(p, r) = [base |-> p, size |-> n, heap |-> h, readonly |-> w]
  BY DEF Abs
<1>. HIDE DEF n, h, w
<1>2. [[base |-> p, size |-> n, heap |-> h, readonly |-> w] EXCEPT !.readonly = v]
      = [base |-> p, size |-> n, heap |-> h, readonly |-> v]
  BY Z3
<1> QED BY <1>1, <1>2, Zenon DEF n, h

\* No block of bk has an address of n bytes at p.
ClearOf(bk, p, n) ==
  \A b \in DOMAIN bk : Footprint(b, bk[b].size) \cap Footprint(p, n) = {}

\* new is bk and one more block, apart from those of bk.
AddsBlock(bk, new, p, r) ==
  /\ BlocksOK(new)
  /\ p \notin DOMAIN bk /\ DOMAIN new = DOMAIN bk \cup {p}
  /\ new[p] = r /\ \A b \in DOMAIN bk : new[b] = bk[b]
  /\ BlocksOf(new) = BlocksOf(bk) \cup {Abs(p, r)} /\ Abs(p, r) \notin BlocksOf(bk)
  /\ \A c \in BlocksOf(bk) : Memory!Footprint(c) \cap Memory!Footprint(Abs(p, r)) = {}

\* new is bk without the block at p.
DropsBlock(bk, new, p) ==
  /\ BlocksOK(new)
  /\ DOMAIN new = DOMAIN bk \ {p} /\ \A b \in DOMAIN new : new[b] = bk[b]
  /\ BlocksOf(new) = BlocksOf(bk) \ {Abs(p, bk[p])} /\ Abs(p, bk[p]) \in BlocksOf(bk)

\* new is bk with the block at p changed into r.
ChangesBlock(bk, new, p, r) ==
  /\ BlocksOK(new)
  /\ DOMAIN new = DOMAIN bk /\ new[p] = r
  /\ \A b \in DOMAIN bk \ {p} : new[b] = bk[b]
  /\ BlocksOf(new) = (BlocksOf(bk) \ {Abs(p, bk[p])}) \cup {Abs(p, r)}
  /\ Abs(p, bk[p]) \in BlocksOf(bk)

\* A bt_block more, clear of the others.
LEMMA AddBlock ==
  ASSUME BittreeAssumption, NEW bk, BlocksOK(bk), NEW p, NEW r, BlockOK(p, r),
         ClearOf(bk, p, r.size)
  PROVE  AddsBlock(bk, With(bk, p, r), p, r)
<1>. DEFINE new == With(bk, p, r)
<1>1. /\ IsFiniteSet(DOMAIN bk) /\ \A b \in DOMAIN bk : BlockOK(b, bk[b])
      /\ \A b, c \in DOMAIN bk :
           b # c => Footprint(b, bk[b].size) \cap Footprint(c, bk[c].size) = {}
      /\ \A b \in DOMAIN bk : Footprint(b, bk[b].size) \cap Footprint(p, r.size) = {}
  BY DEF BlocksOK, ClearOf
<1>2. p \in Footprint(p, r.size) /\ \A b \in DOMAIN bk : b \in Footprint(b, bk[b].size)
  BY <1>1, BlockPlace
<1>3. p \notin DOMAIN bk
  BY <1>1, <1>2
<1>4. /\ DOMAIN new = DOMAIN bk \cup {p} /\ new[p] = r
      /\ \A b \in DOMAIN bk : new[b] = bk[b]
      /\ new = [b \in DOMAIN new |-> new[b]]
  BY <1>3 DEF With
<1>. HIDE DEF new
<1>5. IsFiniteSet(DOMAIN new)
  BY <1>1, <1>4, FS_AddElement
<1>6. \A b \in DOMAIN new : BlockOK(b, new[b])
  BY <1>1, <1>4
<1>7. ASSUME NEW b \in DOMAIN new, NEW c \in DOMAIN new, b # c
      PROVE  Footprint(b, new[b].size) \cap Footprint(c, new[c].size) = {}
  BY <1>1, <1>4, <1>7
<1>8. BlocksOK(new)
  BY <1>4, <1>5, <1>6, <1>7 DEF BlocksOK
<1>9. BlocksOf(new) = BlocksOf(bk) \cup {Abs(p, r)}
  BY <1>4 DEF BlocksOf
<1>10. Abs(p, r) \notin BlocksOf(bk)
  <2>1. Abs(p, r).base = p
    BY DEF Abs
  <2> QED BY <1>3, <2>1, AbsBase
<1>11. ASSUME NEW c \in BlocksOf(bk)
       PROVE  Memory!Footprint(c) \cap Memory!Footprint(Abs(p, r)) = {}
  <2>1. PICK b \in DOMAIN bk : c = Abs(b, bk[b])
    BY DEF BlocksOf
  <2>2. Memory!Footprint(c) = Footprint(b, bk[b].size)
    BY <1>1, <2>1, AbsShape
  <2>3. Memory!Footprint(Abs(p, r)) = Footprint(p, r.size)
    BY AbsShape
  <2> QED BY <1>1, <2>2, <2>3
<1>12. AddsBlock(bk, new, p, r)
  BY <1>3, <1>4, <1>8, <1>9, <1>10, <1>11 DEF AddsBlock
<1> QED BY <1>12 DEF new

\* A bt_block less.
LEMMA DropBlock ==
  ASSUME BittreeAssumption, NEW bk, BlocksOK(bk), NEW p \in DOMAIN bk
  PROVE  DropsBlock(bk, Without(bk, {p}), p)
<1>. DEFINE new == Without(bk, {p})
<1>1. /\ IsFiniteSet(DOMAIN bk) /\ \A b \in DOMAIN bk : BlockOK(b, bk[b])
      /\ \A b, c \in DOMAIN bk :
           b # c => Footprint(b, bk[b].size) \cap Footprint(c, bk[c].size) = {}
  BY DEF BlocksOK
<1>2. /\ DOMAIN new = DOMAIN bk \ {p} /\ \A b \in DOMAIN new : new[b] = bk[b]
      /\ new = [b \in DOMAIN new |-> new[b]]
  BY DEF Without
<1>. HIDE DEF new
<1>3. IsFiniteSet(DOMAIN new)
  BY <1>1, <1>2, FS_Subset
<1>4. BlocksOK(new)
  BY <1>1, <1>2, <1>3 DEF BlocksOK
<1>5. Abs(p, bk[p]) \in BlocksOf(bk)
  BY DEF BlocksOf
<1>6. \A b \in DOMAIN bk : Abs(b, bk[b]).base = b
  BY DEF Abs
<1>7. ASSUME NEW c \in BlocksOf(new) PROVE c \in BlocksOf(bk) \ {Abs(p, bk[p])}
  <2>1. c.base \in DOMAIN new /\ c = Abs(c.base, new[c.base])
    BY AbsBase
  <2> QED BY <1>2, <1>6, <2>1 DEF BlocksOf
<1>8. ASSUME NEW c \in BlocksOf(bk), c # Abs(p, bk[p]) PROVE c \in BlocksOf(new)
  <2>1. c.base \in DOMAIN bk /\ c = Abs(c.base, bk[c.base])
    BY AbsBase
  <2>2. c.base \in DOMAIN new /\ new[c.base] = bk[c.base]
    BY <1>2, <1>8, <2>1
  <2> QED BY <2>1, <2>2 DEF BlocksOf
<1>9. BlocksOf(new) = BlocksOf(bk) \ {Abs(p, bk[p])}
  BY <1>7, <1>8
<1>10. DropsBlock(bk, new, p)
  BY <1>2, <1>4, <1>5, <1>9 DEF DropsBlock
<1> QED BY <1>10 DEF new

\* A bt_block that changes and keeps its size.
LEMMA ChangeBlock ==
  ASSUME BittreeAssumption, NEW bk, BlocksOK(bk), NEW p \in DOMAIN bk, NEW r, BlockOK(p, r),
         r.size = bk[p].size
  PROVE  ChangesBlock(bk, [bk EXCEPT ![p] = r], p, r)
<1>. DEFINE new == [bk EXCEPT ![p] = r]
<1>1. /\ IsFiniteSet(DOMAIN bk) /\ \A b \in DOMAIN bk : BlockOK(b, bk[b])
      /\ \A b, c \in DOMAIN bk :
           b # c => Footprint(b, bk[b].size) \cap Footprint(c, bk[c].size) = {}
      /\ bk = [b \in DOMAIN bk |-> bk[b]]
  BY DEF BlocksOK
<1>2. /\ DOMAIN new = DOMAIN bk /\ new[p] = r
      /\ \A b \in DOMAIN bk \ {p} : new[b] = bk[b]
      /\ new = [b \in DOMAIN new |-> new[b]]
  BY <1>1
<1>. HIDE DEF new
<1>3. \A b \in DOMAIN new : BlockOK(b, new[b]) /\ new[b].size = bk[b].size
  BY <1>1, <1>2
<1>4. BlocksOK(new)
  BY <1>1, <1>2, <1>3 DEF BlocksOK
<1>5. Abs(p, bk[p]) \in BlocksOf(bk)
  BY DEF BlocksOf
<1>6. /\ \A b \in DOMAIN bk : Abs(b, bk[b]).base = b
      /\ \A b \in DOMAIN bk : Abs(b, new[b]).base = b
  BY DEF Abs
<1>7. ASSUME NEW c \in BlocksOf(new)
      PROVE  c \in (BlocksOf(bk) \ {Abs(p, bk[p])}) \cup {Abs(p, r)}
  <2>1. c.base \in DOMAIN bk /\ c = Abs(c.base, new[c.base])
    BY <1>2, AbsBase
  <2>2. CASE c.base = p
    BY <1>2, <2>1, <2>2
  <2>3. CASE c.base # p
    <3>1. c = Abs(c.base, bk[c.base])
      BY <1>2, <2>1, <2>3
    <3> QED BY <1>6, <2>1, <2>3, <3>1 DEF BlocksOf
  <2> QED BY <2>2, <2>3
<1>8. ASSUME NEW c \in BlocksOf(bk), c # Abs(p, bk[p]) PROVE c \in BlocksOf(new)
  <2>1. c.base \in DOMAIN bk /\ c = Abs(c.base, bk[c.base])
    BY AbsBase
  <2>2. c.base \in DOMAIN new /\ new[c.base] = bk[c.base]
    BY <1>2, <1>8, <2>1
  <2> QED BY <2>1, <2>2 DEF BlocksOf
<1>9. Abs(p, r) \in BlocksOf(new)
  BY <1>2 DEF BlocksOf
<1>10. BlocksOf(new) = (BlocksOf(bk) \ {Abs(p, bk[p])}) \cup {Abs(p, r)}
  BY <1>7, <1>8, <1>9
<1>11. ChangesBlock(bk, new, p, r)
  BY <1>2, <1>4, <1>5, <1>10 DEF ChangesBlock
<1> QED BY <1>11 DEF new

-----------------------------------------------------------------------------
(* What the runtime finds of an address *)

\* pt_lookup finds the blocks, when the result of a leaf is its block.
LEMMA LookupIs ==
  ASSUME BittreeAssumption, LookupReturns = "leaf", BittreeInv, NEW p
  PROVE  bt_lookup(p) = IF p \in DOMAIN blk THEN p ELSE NULL
<1>1. TrieOf(bittree, DOMAIN blk)
  BY DEF BittreeInv
<1>2. \A b \in DOMAIN blk : b \in Nat \ {0} /\ bittree.root # NULL
  <2>1. \A b \in DOMAIN blk : b \in Nat \ {0}
    BY <1>1, TrieOfEntries
  <2>2. bittree.root = NULL <=> DOMAIN blk = {}
    BY <1>1, TrieOfEntries
  <2> QED BY <2>1, <2>2
<1>3. CASE p = NULL
  BY <1>2, <1>3 DEF bt_lookup, NULL
<1>4. CASE bittree.root = NULL
  BY <1>2, <1>4 DEF bt_lookup
<1>5. CASE p # NULL /\ bittree.root # NULL
  <2>1. pt_lookup(bittree, p) = IF p \in DOMAIN blk THEN p ELSE NULL
    BY <1>1, <1>5, TrieOfLookup
  <2> QED BY <1>5, <2>1 DEF bt_lookup
<1> QED BY <1>3, <1>4, <1>5

\* A block contains the addresses of its footprint.
LEMMA ContainsIs ==
  ASSUME BittreeAssumption, BlocksOK(blk), NEW b \in DOMAIN blk, NEW p \in Addr
  PROVE  bt_contains_ptr(b, p) <=> p \in Footprint(b, blk[b].size)
<1>1. BlockOK(b, blk[b])
  BY DEF BlocksOK
<1>2. b \in Nat /\ blk[b].size \in Nat
  BY <1>1, BlockPlace
<1>3. p \in Nat
  BY AddrsAreWords
<1> QED BY <1>2, <1>3 DEF bt_contains_ptr, Footprint, Span

\* The block before an address is the only one that can have it: pt_find
\* finds the block of an address, and NULL if it has none.
LEMMA FindIs ==
  ASSUME BittreeAssumption, BittreeInv, NEW p \in Addr
  PROVE  /\ \A b \in DOMAIN blk : p \in Footprint(b, blk[b].size) => bt_find(p) = b
         /\ (\A b \in DOMAIN blk : p \notin Footprint(b, blk[b].size)) => bt_find(p) = NULL
<1>. DEFINE holders == {b \in DOMAIN blk : bt_contains_ptr(b, p)}
<1>1. BlocksOK(blk) /\ TrieOf(bittree, DOMAIN blk)
  BY DEF BittreeInv
<1>2. p \in Word \ {NULL} /\ p \in Nat
  BY AddrsAreWords
<1>3. \A b \in DOMAIN blk : b \in holders <=> p \in Footprint(b, blk[b].size)
  BY <1>1, ContainsIs
<1>4. bt_find(p) = pt_find(bittree, holders, p)
  BY DEF bt_find
<1>. HIDE DEF holders
<1>5. /\ \A b \in DOMAIN blk : b <= p /\ (\A c \in DOMAIN blk : c <= p => c <= b)
                      => bt_find(p) = IF b \in holders THEN b ELSE NULL
      /\ (\A b \in DOMAIN blk : b \notin holders) => bt_find(p) = NULL
  BY <1>1, <1>2, <1>4, TrieOfFind
<1>6. \A b \in DOMAIN blk : b \in Nat /\ blk[b].size \in Nat /\ b \in Footprint(b, blk[b].size)
  <2>1. \A b \in DOMAIN blk : BlockOK(b, blk[b])
    BY <1>1 DEF BlocksOK
  <2> QED BY <2>1, BlockPlace
<1>7. ASSUME NEW b \in DOMAIN blk, p \in Footprint(b, blk[b].size) PROVE bt_find(p) = b
  <2>1. b <= p
    BY <1>2, <1>6, <1>7 DEF Footprint, Span
  <2>2. ASSUME NEW c \in DOMAIN blk, c <= p, ~(c <= b) PROVE FALSE
    <3>1. Footprint(b, blk[b].size) \cap Footprint(c, blk[c].size) = {}
      <4>1. b # c
        BY <1>6, <2>2
      <4> QED BY <1>1, <4>1 DEF BlocksOK
    <3>2. c \in Footprint(b, blk[b].size)
      BY <1>2, <1>6, <1>7, <2>2 DEF Footprint, Span
    <3> QED BY <1>6, <3>1, <3>2
  <2>3. bt_find(p) = IF b \in holders THEN b ELSE NULL
    BY <1>5, <2>1, <2>2
  <2> QED BY <1>3, <1>7, <2>3
<1> QED BY <1>3, <1>5, <1>7

-----------------------------------------------------------------------------
(* The structure of a block *)

\* What a block keeps: its size, who owns it and whether it can be written.
SameBlock(r, s) ==
  s.size = r.size /\ s.is_freeable = r.is_freeable /\ s.is_readonly = r.is_readonly



\* The initialization map is no part of the block of BlockMap.
LEMMA SameIsOK ==
  ASSUME NEW p, NEW r, BlockOK(p, r), NEW s \in BtBlock, IsFiniteSet(s.bits), SameBlock(r, s)
  PROVE  BlockOK(p, s) /\ Abs(p, s) = Abs(p, r)
  BY DEF BlockOK, SameBlock, Abs

\* What bt_alloc_block returns.
LEMMA NewBlock ==
  ASSUME NEW n \in Nat
  PROVE  LET r == bt_alloc_block(n) IN
         /\ r \in BtBlock /\ r.bits = {} /\ r.size = n /\ r.init_bytes = 0
         /\ ~r.is_freeable /\ ~r.is_readonly
  BY DEF bt_alloc_block, BtBlock

\* The bt_block of a variable.
LEMMA ObjectBlock ==
  ASSUME BittreeAssumption, NEW o \in Objects
  PROVE  /\ BlockOK(o.base, bt_alloc_block(o.size))
         /\ bt_alloc_block(o.size).size = o.size
<1>1. o.size \in Nat
  BY ObjectPlace
<1>. DEFINE r == bt_alloc_block(o.size)
<1>2. r \in BtBlock /\ r.bits = {} /\ r.size = o.size /\ ~r.is_freeable
  BY <1>1, NewBlock
<1>. HIDE DEF r
<1>3. BlockOK(o.base, r) /\ r.size = o.size
  BY <1>2, FS_EmptySet DEF BlockOK, IsObject
<1> QED BY <1>3 DEF r

\* The bt_block of malloc and calloc.
LEMMA HeapBlockOK ==
  ASSUME BittreeAssumption, NEW p, NEW n, OnHeap(p, n), NEW zeroed \in BOOLEAN
  PROVE  LET r == [bt_alloc_block(n) EXCEPT !.is_freeable = TRUE,
                                             !.init_bytes = IF zeroed THEN n ELSE 0] IN
         /\ BlockOK(p, r) /\ r.size = n /\ r.is_freeable /\ ~r.is_readonly
         /\ r.init_bytes = IF zeroed THEN n ELSE 0
<1>. DEFINE r == [bt_alloc_block(n) EXCEPT !.is_freeable = TRUE,
                                          !.init_bytes = IF zeroed THEN n ELSE 0]
<1>1. n \in Nat
  BY HeapPlace
<1>2. /\ r \in BtBlock /\ r.bits = {} /\ r.size = n /\ r.is_freeable /\ ~r.is_readonly
      /\ r.init_bytes = IF zeroed THEN n ELSE 0
  BY <1>1 DEF bt_alloc_block, BtBlock
<1>. HIDE DEF r
<1>3. BlockOK(p, r)
  BY <1>2, FS_EmptySet DEF BlockOK
<1>4. BlockOK(p, r) /\ r.size = n /\ r.is_freeable /\ ~r.is_readonly
      /\ r.init_bytes = IF zeroed THEN n ELSE 0
  BY <1>2, <1>3
<1> QED BY <1>4 DEF r

\* Marking bytes changes nothing else.
LEMMA InitializedBlock ==
  ASSUME NEW p, NEW r, BlockOK(p, r), NEW from \in Nat, NEW n \in Nat
  PROVE  BlockOK(p, Initialized(r, from, n)) /\ SameBlock(r, Initialized(r, from, n))
<1>. DEFINE start == IF r.init_bytes = 0 THEN {} ELSE r.bits
            marked == from .. (from + n - 1)
            count == r.init_bytes + Cardinality(marked \ start)
            s == Initialized(r, from, n)
<1>1. r \in BtBlock /\ IsFiniteSet(r.bits) /\ r.bits \in SUBSET Nat /\ r.init_bytes \in Nat /\ r.size \in Nat
  BY DEF BlockOK, BtBlock
<1>2. start \in SUBSET Nat /\ IsFiniteSet(start)
  BY <1>1, FS_EmptySet
<1>3. marked \in SUBSET Nat /\ IsFiniteSet(marked)
  <2>1. IsFiniteSet(marked)
    BY FS_Interval
  <2> QED BY <2>1
<1>4. /\ count \in Nat
      /\ s = IF r.init_bytes = r.size THEN r
             ELSE IF count = r.size
             THEN [r EXCEPT !.init_ptr = FALSE, !.bits = {}, !.init_bytes = count]
             ELSE [r EXCEPT !.init_ptr = TRUE, !.bits = start \cup marked, !.init_bytes = count]
  <2>1. IsFiniteSet(marked \ start)
    BY <1>3, FS_Difference
  <2>2. Cardinality(marked \ start) \in Nat
    BY <2>1, FS_CardinalityType
  <2> QED BY <1>1, <2>2 DEF Initialized
<1>5. start \cup marked \in SUBSET Nat /\ IsFiniteSet(start \cup marked)
  <2>1. IsFiniteSet(start \cup marked)
    BY <1>2, <1>3, FS_Union
  <2> QED BY <1>2, <1>3, <2>1
<1>. HIDE DEF start, marked, count, s
<1>6. s \in BtBlock /\ SameBlock(r, s) /\ IsFiniteSet(s.bits)
  <2>1. CASE s = r
    BY <1>1, <2>1 DEF SameBlock
  <2>2. CASE s = [r EXCEPT !.init_ptr = FALSE, !.bits = {}, !.init_bytes = count]
    BY <1>1, <1>4, <2>2, FS_EmptySet DEF BtBlock, SameBlock
  <2>3. CASE s = [r EXCEPT !.init_ptr = TRUE, !.bits = start \cup marked, !.init_bytes = count]
    <3>. DEFINE all == start \cup marked
    <3>1. all \in SUBSET Nat /\ IsFiniteSet(all) /\ TRUE \in BOOLEAN
      BY <1>5
    <3>2. s = [r EXCEPT !.init_ptr = TRUE, !.bits = all, !.init_bytes = count]
      BY <2>3
    <3>. HIDE DEF all
    <3> QED BY <1>1, <1>4, <3>1, <3>2 DEF BtBlock, SameBlock
  <2> QED BY <1>4, <2>1, <2>2, <2>3
<1>7. BlockOK(p, s)
  BY <1>6, SameIsOK
<1> QED BY <1>6, <1>7 DEF s

\* The block that realloc makes of another one has its new size and place.
LEMMA ResizedBlock ==
  ASSUME BittreeAssumption, NEW q, NEW n, OnHeap(q, n),
         NEW r \in BtBlock, IsFiniteSet(r.bits)
  PROVE  /\ BlockOK(q, Resized(r, n)) /\ Resized(r, n).size = n
         /\ Resized(r, n).is_freeable /\ Resized(r, n).is_readonly = r.is_readonly
<1>. DEFINE full == r.init_bytes = r.size
            partly == r.init_bytes # 0 /\ ~full
            kept == {i \in r.bits : i < needed_bytes(n) * CHAR_BIT}
            count == Cardinality(kept)
            grown == CASE r.init_bytes = 0 -> r
                 [] r.init_bytes # 0 /\ full /\ n <= r.size -> [r EXCEPT !.init_bytes = n]
                 [] r.init_bytes # 0 /\ full /\ n > r.size ->
                      [r EXCEPT !.init_ptr = TRUE, !.bits = 0 .. (r.size - 1)]
                 [] partly /\ count \in {0, n} ->
                      [r EXCEPT !.init_ptr = FALSE, !.bits = {}, !.init_bytes = count]
                 [] OTHER -> [r EXCEPT !.bits = kept, !.init_bytes = count]
            s == Resized(r, n)
<1>1. n \in Nat /\ r.bits \in SUBSET Nat /\ r.init_bytes \in Nat /\ r.size \in Nat
  BY HeapPlace DEF BtBlock
<1>2. kept \in SUBSET Nat /\ IsFiniteSet(kept)
  <2>1. kept \subseteq r.bits
    OBVIOUS
  <2> QED BY <1>1, <2>1, FS_Subset
<1>. HIDE DEF kept
<1>3. count \in Nat
  BY <1>2, FS_CardinalityType
<1>. HIDE DEF count
<1>4. grown \in BtBlock /\ IsFiniteSet(grown.bits) /\ grown.is_readonly = r.is_readonly
  <2>1. CASE r.init_bytes = 0
    <3>1. grown = r
      BY <2>1
    <3> QED BY <3>1
  <2>2. CASE r.init_bytes # 0 /\ full /\ n <= r.size
    <3>1. grown = [r EXCEPT !.init_bytes = n]
      BY <1>1, <2>2
    <3> QED BY <1>1, <3>1 DEF BtBlock
  <2>3. CASE r.init_bytes # 0 /\ full /\ n > r.size
    <3>1. grown = [r EXCEPT !.init_ptr = TRUE, !.bits = 0 .. (r.size - 1)]
      BY <1>1, <2>3
    <3>2. IsFiniteSet(0 .. (r.size - 1)) /\ 0 .. (r.size - 1) \in SUBSET Nat
      <4>1. IsFiniteSet(0 .. (r.size - 1))
        BY <1>1, FS_Interval
      <4> QED BY <4>1
    <3> QED BY <1>1, <3>1, <3>2 DEF BtBlock
  <2>4. CASE partly /\ count \in {0, n}
    <3>1. grown = [r EXCEPT !.init_ptr = FALSE, !.bits = {}, !.init_bytes = count]
      <4>1. r.init_bytes # 0 /\ ~full
        BY <2>4
      <4> HIDE DEF full
      <4> QED BY <2>4, <4>1
    <3>. HIDE DEF partly, full, grown
    <3>2. IsFiniteSet({})
      BY FS_EmptySet
    <3>3. grown \in BtBlock
      BY <1>3, <3>1 DEF BtBlock
    <3>4. grown.bits = {} /\ grown.is_readonly = r.is_readonly
      BY <3>1 DEF BtBlock
    <3> QED BY <3>2, <3>3, <3>4
  <2>5. CASE partly /\ count \notin {0, n}
    <3>1. grown = [r EXCEPT !.bits = kept, !.init_bytes = count]
      BY <1>1, <2>5
    <3>. HIDE DEF partly, full, grown
    <3> QED BY <1>2, <1>3, <3>1 DEF BtBlock
  <2> QED BY <1>1, <2>1, <2>2, <2>3, <2>4, <2>5
<1>5. s = [grown EXCEPT !.size = n, !.is_freeable = TRUE]
  BY DEF Resized, kept, count
<1>. HIDE DEF grown, s
<1>6. /\ s \in BtBlock /\ s.size = n /\ s.bits = grown.bits
      /\ s.is_freeable /\ s.is_readonly = r.is_readonly
  BY <1>1, <1>4, <1>5 DEF BtBlock
<1>7. BlockOK(q, s)
  BY <1>4, <1>6 DEF BlockOK
<1> QED BY <1>6, <1>7 DEF s

-----------------------------------------------------------------------------
(* The calls: what each does to the blocks is a step of BlockMap *)

\* The blocks of BlockMap are those of the bt_block structures.
LEMMA BlocksAre == Blocks = BlocksOf(blk) /\ Blocks' = BlocksOf(blk')
  BY DEF Blocks, BlocksOf, AbstractBlock, Abs

\* Each call keeps the invariant and does what BlockMap says: the store of a variable.
LEMMA StoreStep ==
  ASSUME BittreeAssumption, BittreeInv, NEW o \in Objects, eacsl_store_block(o)
  PROVE  BittreeInv' /\ \E b \in Memory!Added : Memory!Store(b)
<1>. DEFINE p == o.base
            r == bt_alloc_block(o.size)
            c == Abs(p, r)
<1>1. /\ \A b \in DOMAIN blk : Footprint(b, blk[b].size) \cap Footprint(p, o.size) = {}
      /\ blk' = With(blk, p, r) /\ bittree' = pt_insert(bittree, p, p)
      /\ UNCHANGED <<heap, status, written>>
  BY DEF eacsl_store_block
<1>2. BlocksOK(blk) /\ TrieOf(bittree, DOMAIN blk) /\ status \in Statuses
  BY DEF BittreeInv
<1>3. BlockOK(p, r) /\ r.size = o.size /\ ~r.is_freeable /\ ~r.is_readonly
  BY ObjectBlock, ObjectPlace, NewBlock
<1>4. p \in Word \ {NULL} /\ Footprint(p, r.size) \subseteq Addr
  BY <1>3, BlockPlace
<1>5. /\ c \in Memory!Block /\ ~c.heap /\ ~c.readonly
      /\ Memory!Footprint(c) = Footprint(p, r.size)
  BY <1>3, AbsShape
<1>. HIDE DEF r
<1>6. /\ BlocksOK(blk') /\ p \notin DOMAIN blk /\ DOMAIN blk' = DOMAIN blk \cup {p}
      /\ BlocksOf(blk') = BlocksOf(blk) \cup {c} /\ c \notin BlocksOf(blk)
      /\ \A d \in BlocksOf(blk) : Memory!Footprint(d) \cap Memory!Footprint(c) = {}
  <2>1. ClearOf(blk, p, r.size)
    BY <1>1, <1>3 DEF ClearOf
  <2>. HIDE DEF p
  <2>2. AddsBlock(blk, blk', p, r)
    BY <1>1, <1>2, <1>3, <2>1, AddBlock
  <2> QED BY <2>2, Zenon DEF AddsBlock
<1>. HIDE DEF c, p
<1>7. BittreeInv'
  <2>1. TrieOf(bittree', DOMAIN blk')
    BY <1>1, <1>2, <1>4, <1>6, TrieOfInsert
  <2> QED BY <1>1, <1>2, <1>6, <2>1 DEF BittreeInv
<1>8. Memory!Clear(c, Blocks)
  BY <1>4, <1>5, <1>6, BlocksAre DEF Memory!Clear
<1>9. c \in Memory!Added /\ Memory!Store(c)
  BY <1>1, <1>5, <1>6, <1>8, BlocksAre DEF Memory!Added, Memory!Store
<1> QED BY <1>7, <1>9

\* A variable that is stored is a block of its size that is not freed.
LEMMA StoredBlock ==
  ASSUME BittreeAssumption, BittreeInv, NEW o \in Objects, Stored(o)
  PROVE  /\ o.base \in DOMAIN blk /\ BlockOK(o.base, blk[o.base]) /\ blk[o.base].size = o.size
         /\ ~blk[o.base].is_freeable
<1>1. o.base \in DOMAIN blk /\ BlockOK(o.base, blk[o.base]) /\ blk[o.base].size = o.size
  BY DEF Stored, BittreeInv, BlocksOK
<1>2. ASSUME blk[o.base].is_freeable PROVE FALSE
  <2>1. OnHeap(o.base, o.size)
    BY <1>1, <1>2 DEF BlockOK
  <2>2. o.base \in HeapBases /\ o.base \in Span(o.base, HeapEnd - o.base)
    <3>1. /\ o.base \in HeapBases /\ Footprint(o.base, o.size) \subseteq Span(o.base, HeapEnd - o.base)
      BY <2>1, HeapPlace
    <3> QED BY <3>1 DEF Footprint
  <2>3. Footprint(o.base, o.size) \cap Span(o.base, HeapEnd - o.base) = {}
    BY <2>2 DEF BittreeAssumption
  <2> QED BY <2>2, <2>3 DEF Footprint
<1> QED BY <1>1, <1>2

\* The end of a variable.
LEMMA DeleteStep ==
  ASSUME BittreeAssumption, LookupReturns = "leaf", BittreeInv, NEW o \in Objects,
         eacsl_delete_block(o)
  PROVE  BittreeInv' /\ \E b \in Blocks : Memory!Delete(b)
<1>. DEFINE p == o.base
            c == Abs(p, blk[p])
<1>1. /\ p \in DOMAIN blk /\ BlockOK(p, blk[p]) /\ blk[p].size = o.size /\ ~blk[p].is_freeable
  BY StoredBlock DEF eacsl_delete_block
<1>2. bt_lookup(p) = p /\ p # NULL
  BY <1>1, LookupIs, BlockPlace
<1>3. /\ bittree' = pt_remove(bittree, p) /\ blk' = Without(blk, {p})
      /\ written' = written \ Span(p, o.size) /\ UNCHANGED <<heap, status>>
  BY <1>2 DEF eacsl_delete_block
<1>4. BlocksOK(blk) /\ TrieOf(bittree, DOMAIN blk) /\ status \in Statuses
  BY DEF BittreeInv
<1>5. ~c.heap /\ Memory!Bytes(c) = Span(p, o.size)
  BY <1>1, AbsShape
<1>6. /\ BlocksOK(blk') /\ DOMAIN blk' = DOMAIN blk \ {p}
      /\ BlocksOf(blk') = BlocksOf(blk) \ {c} /\ c \in BlocksOf(blk)
  BY <1>1, <1>3, <1>4, DropBlock DEF DropsBlock
<1>. HIDE DEF c, p
<1>7. BittreeInv'
  <2>1. TrieOf(bittree', DOMAIN blk')
    BY <1>1, <1>3, <1>4, <1>6, TrieOfRemove
  <2> QED BY <1>3, <1>4, <1>6, <2>1 DEF BittreeInv
<1>8. c \in Blocks /\ Memory!Delete(c)
  BY <1>3, <1>5, <1>6, BlocksAre DEF Memory!Delete
<1> QED BY <1>7, <1>8

\* A variable that is stored again.
LEMMA DuplicateStep ==
  ASSUME BittreeAssumption, LookupReturns = "leaf", BittreeInv, NEW o \in Objects,
         eacsl_store_block_duplicate(o)
  PROVE  BittreeInv' /\ \E b \in Blocks : Memory!StoreAgain(b)
<1>. DEFINE p == o.base
            r == bt_alloc_block(o.size)
            c == Abs(p, blk[p])
<1>1. /\ p \in DOMAIN blk /\ BlockOK(p, blk[p]) /\ blk[p].size = o.size /\ ~blk[p].is_freeable
  BY StoredBlock DEF eacsl_store_block_duplicate
<1>2. bt_lookup(p) = p /\ p # NULL /\ p \in Word \ {NULL}
  BY <1>1, LookupIs, BlockPlace
<1>3. /\ bittree' = pt_insert(pt_remove(bittree, p), p, p)
      /\ blk' = [blk EXCEPT ![p] = r]
      /\ written' = written \ Span(p, o.size) /\ UNCHANGED <<heap, status>>
  BY <1>2 DEF eacsl_store_block_duplicate
<1>4. BlocksOK(blk) /\ TrieOf(bittree, DOMAIN blk) /\ status \in Statuses
  BY DEF BittreeInv
<1>5. BlockOK(p, r) /\ r.size = blk[p].size /\ ~r.is_freeable /\ ~r.is_readonly
  BY <1>1, ObjectBlock, ObjectPlace, NewBlock
<1>6. ~c.heap /\ Memory!Bytes(c) = Span(p, o.size) /\ Abs(p, r) = [c EXCEPT !.readonly = FALSE]
  <2>1. ~c.heap /\ Memory!Bytes(c) = Span(p, o.size)
    BY <1>1, AbsShape
  <2>2. r.is_readonly = FALSE /\ r.is_freeable = blk[p].is_freeable
    BY <1>1, <1>5 DEF BlockOK, BtBlock
  <2>. HIDE DEF r, p
  <2>. DEFINE d == [base |-> p, size |-> blk[p].size, heap |-> blk[p].is_freeable,
                    readonly |-> FALSE]
  <2>3. Abs(p, r) = d
    BY <1>5, <2>2, Zenon DEF Abs
  <2>4. [c EXCEPT !.readonly = FALSE] = d
    BY ReadonlyIs
  <2>5. Abs(p, r) = [c EXCEPT !.readonly = FALSE]
    BY <2>3, <2>4, Zenon
  <2>. HIDE DEF c
  <2> QED BY <2>1, <2>5
<1>. HIDE DEF r
<1>7. /\ BlocksOK(blk') /\ DOMAIN blk' = DOMAIN blk
      /\ BlocksOf(blk') = (BlocksOf(blk) \ {c}) \cup {Abs(p, r)} /\ c \in BlocksOf(blk)
  BY <1>1, <1>3, <1>4, <1>5, ChangeBlock DEF ChangesBlock
<1>. HIDE DEF c, p
<1>8. BittreeInv'
  <2>1. TrieOf(pt_remove(bittree, p), DOMAIN blk \ {p})
    BY <1>1, <1>4, TrieOfRemove
  <2>. DEFINE S == DOMAIN blk \ {p}
              t == pt_remove(bittree, p)
  <2>2. TrieOf(t, S) /\ p \notin S
    BY <2>1
  <2>. HIDE DEF S, t
  <2>3. TrieOf(pt_insert(t, p, p), S \cup {p})
    BY <1>2, <2>2, TrieOfInsert
  <2>4. S \cup {p} = DOMAIN blk'
    BY <1>1, <1>7 DEF S
  <2>5. TrieOf(bittree', DOMAIN blk')
    BY <1>3, <2>3, <2>4 DEF t
  <2> QED BY <1>3, <1>4, <1>7, <2>5 DEF BittreeInv
<1>9. c \in Blocks /\ Memory!StoreAgain(c)
  BY <1>3, <1>6, <1>7, BlocksAre DEF Memory!StoreAgain
<1> QED BY <1>8, <1>9

\* An assignment to a part of a block.
LEMMA InitializeStep ==
  ASSUME BittreeAssumption, BittreeInv, NEW start, NEW part \in Parts, eacsl_initialize(start, part)
  PROVE  /\ BittreeInv'
         /\ \E b \in Blocks : \E p \in Memory!Bytes(b), n \in 1 .. b.size : Memory!Initialize(b, p, n)
         /\ start \in DOMAIN blk /\ part[1] \in Nat /\ part[2] \in Nat \ {0}
         /\ part[1] + part[2] <= blk[start].size
         /\ blk' = [blk EXCEPT ![start] = Initialized(blk[start], part[1], part[2])]
         /\ DOMAIN blk' = DOMAIN blk
         /\ written' = written \cup Span(start + part[1], part[2])
<1>. DEFINE from == part[1]
            n == part[2]
            p == start + from
            c == Abs(start, blk[start])
            s == Initialized(blk[start], from, n)
<1>1. from \in Nat /\ n \in Nat \ {0}
  BY DEF BittreeAssumption
<1>2. BlocksOK(blk) /\ TrieOf(bittree, DOMAIN blk) /\ status \in Statuses
  BY DEF BittreeInv
<1>3. /\ start \in DOMAIN blk /\ from + n <= blk[start].size
      /\ blk' = [blk EXCEPT ![bt_find(p)] = Initialized(@, p - bt_find(p), n)]
      /\ written' = written \cup Span(p, n) /\ UNCHANGED <<bittree, heap, status>>
  BY DEF eacsl_initialize
<1>4. BlockOK(start, blk[start])
  BY <1>2, <1>3 DEF BlocksOK
<1>5. start \in Nat \ {0} /\ blk[start].size \in Nat /\ Footprint(start, blk[start].size) \subseteq Addr
  BY <1>4, BlockPlace
<1>6. p \in Span(start, blk[start].size) /\ p \in Footprint(start, blk[start].size)
  BY <1>1, <1>3, <1>5 DEF Footprint, Span
<1>7. bt_find(p) = start
  BY <1>3, <1>5, <1>6, FindIs
<1>8. blk' = [blk EXCEPT ![start] = s]
  <2>1. p - start = from
    BY <1>1, <1>5
  <2> QED BY <1>3, <1>7, <2>1
<1>9. BlockOK(start, s) /\ SameBlock(blk[start], s)
  BY <1>1, <1>4, InitializedBlock
<1>10. Abs(start, s) = c /\ s.size = blk[start].size
  BY <1>9 DEF SameBlock, Abs
<1>11. Memory!Bytes(c) = Span(start, blk[start].size) /\ c.size = blk[start].size
  BY <1>4, AbsShape
<1>. HIDE DEF c, s
<1>12. ChangesBlock(blk, blk', start, s)
  <2>1. start \in DOMAIN blk /\ BlocksOK(blk)
    BY <1>2, <1>3
  <2>2. ChangesBlock(blk, [blk EXCEPT ![start] = s], start, s)
    BY <1>9, <1>10, <2>1, ChangeBlock
  <2> QED BY <1>8, <2>2, Zenon
<1>13. /\ BlocksOK(blk') /\ DOMAIN blk' = DOMAIN blk /\ BlocksOf(blk') = BlocksOf(blk)
       /\ c \in BlocksOf(blk)
  BY <1>10, <1>12 DEF ChangesBlock, c
<1>14. BittreeInv'
  BY <1>2, <1>3, <1>13 DEF BittreeInv
<1>15. Memory!Initialize(c, p, n) /\ p \in Memory!Bytes(c) /\ n \in 1 .. c.size /\ c \in Blocks
  <2>1. p \in Memory!Bytes(c) /\ n \in 1 .. c.size /\ c \in Blocks
    BY <1>1, <1>3, <1>5, <1>6, <1>11, <1>13, BlocksAre
  <2>2. Span(p, n) \subseteq Memory!Bytes(c)
    BY <1>1, <1>3, <1>5, <1>11 DEF Span
  <2>3. Memory!Span(p, n) = Span(p, n) /\ Blocks' = Blocks
    BY <1>13, BlocksAre DEF Memory!Span, Span
  <2> QED BY <1>3, <2>1, <2>2, <2>3 DEF Memory!Initialize
<1>16. /\ \E b \in Blocks : \E x \in Memory!Bytes(b), k \in 1 .. b.size : Memory!Initialize(b, x, k)
  <2>. HIDE DEF p, n
  <2> QED BY <1>15, Zenon
<1> QED BY <1>1, <1>3, <1>8, <1>13, <1>14, <1>16 DEF s

\* An assignment to a whole block, of which one of no byte is nothing.
LEMMA FullInitStep ==
  ASSUME BittreeAssumption, LookupReturns = "leaf", BittreeInv, NEW p, eacsl_full_init(p)
  PROVE  /\ BittreeInv'
         /\ \/ \E b \in Blocks : \E x \in Memory!Bytes(b), k \in 1 .. b.size : Memory!Initialize(b, x, k)
            \/ UNCHANGED Memory!vars
         /\ p \in DOMAIN blk /\ DOMAIN blk' = DOMAIN blk
         /\ blk'[p].size = blk[p].size /\ blk'[p].init_bytes = blk[p].size
         /\ \A b \in DOMAIN blk \ {p} : blk'[b] = blk[b]
         /\ written' = written \cup Span(p, blk[p].size)
<1>. DEFINE r == blk[p]
            s == [r EXCEPT !.init_ptr = FALSE, !.bits = {}, !.init_bytes = r.size]
            c == Abs(p, r)
<1>1. /\ p \in DOMAIN blk /\ written' = written \cup Span(p, blk[p].size)
      /\ UNCHANGED <<bittree, heap, status>>
  BY DEF eacsl_full_init
<1>2. BlocksOK(blk) /\ TrieOf(bittree, DOMAIN blk) /\ status \in Statuses
  BY DEF BittreeInv
<1>3. BlockOK(p, r)
  BY <1>1, <1>2 DEF BlocksOK
<1>4. /\ p \in Nat \ {0} /\ p # NULL /\ r.size \in Nat /\ r \in BtBlock
      /\ Footprint(p, r.size) \subseteq Addr
  BY <1>3, BlockPlace
<1>5. bt_lookup(p) = p
  BY <1>1, LookupIs
<1>6. blk' = [blk EXCEPT ![p] = s]
  <2>1. blk' = [blk EXCEPT ![p].init_ptr = FALSE, ![p].bits = {}, ![p].init_bytes = blk[p].size]
    BY <1>4, <1>5 DEF eacsl_full_init
  <2>2. blk = [b \in DOMAIN blk |-> blk[b]]
    BY <1>2 DEF BlocksOK
  <2> QED BY <1>1, <2>1, <2>2
<1>7. s \in BtBlock /\ SameBlock(r, s) /\ IsFiniteSet(s.bits) /\ s.init_bytes = r.size
  BY <1>4, FS_EmptySet DEF BtBlock, SameBlock
<1>. HIDE DEF s
<1>8. BlockOK(p, s) /\ Abs(p, s) = c /\ s.size = r.size
  BY <1>3, <1>7, SameIsOK DEF SameBlock
<1>9. Memory!Bytes(c) = Span(p, r.size) /\ c.size = r.size
  BY <1>3, AbsShape
<1>. HIDE DEF c
<1>12. ChangesBlock(blk, blk', p, s)
  BY <1>1, <1>2, <1>6, <1>8, ChangeBlock
<1>13. /\ BlocksOK(blk') /\ DOMAIN blk' = DOMAIN blk /\ BlocksOf(blk') = BlocksOf(blk)
       /\ c \in BlocksOf(blk) /\ blk'[p] = s /\ \A b \in DOMAIN blk \ {p} : blk'[b] = blk[b]
  BY <1>8, <1>12 DEF ChangesBlock, c
<1>14. BittreeInv'
  BY <1>1, <1>2, <1>13 DEF BittreeInv
<1>15. CASE r.size = 0
  <2>1. written' = written
    BY <1>1, <1>4, <1>15 DEF Span
  <2>2. UNCHANGED Memory!vars
    BY <1>1, <1>13, <2>1, BlocksAre DEF Memory!vars
  <2> QED BY <1>1, <1>7, <1>8, <1>13, <1>14, <2>2
<1>16. CASE r.size # 0
  <2>1. p \in Memory!Bytes(c) /\ r.size \in 1 .. c.size /\ c \in Blocks
    BY <1>4, <1>9, <1>13, <1>16, BlocksAre DEF Span
  <2>2. Memory!Span(p, r.size) = Span(p, r.size) /\ Blocks' = Blocks
    BY <1>13, BlocksAre DEF Memory!Span, Span
  <2>3. Memory!Initialize(c, p, r.size)
    BY <1>1, <1>9, <2>1, <2>2 DEF Memory!Initialize
  <2>4. \E b \in Blocks : \E x \in Memory!Bytes(b), k \in 1 .. b.size : Memory!Initialize(b, x, k)
    BY <2>1, <2>3, Zenon
  <2> QED BY <1>1, <1>7, <1>8, <1>13, <1>14, <2>4
<1> QED BY <1>15, <1>16

\* A literal string.
LEMMA ReadonlyStep ==
  ASSUME BittreeAssumption, LookupReturns = "leaf", BittreeInv, NEW p, eacsl_mark_readonly(p)
  PROVE  /\ BittreeInv' /\ \E b \in Blocks : Memory!MarkReadonly(b)
         /\ p \in DOMAIN blk /\ blk' = [blk EXCEPT ![p].is_readonly = TRUE] /\ DOMAIN blk' = DOMAIN blk
         /\ UNCHANGED written
<1>. DEFINE r == blk[p]
            s == [r EXCEPT !.is_readonly = TRUE]
            c == Abs(p, r)
<1>1. p \in DOMAIN blk /\ ~blk[p].is_freeable /\ UNCHANGED <<bittree, heap, status, written>>
  BY DEF eacsl_mark_readonly
<1>2. BlocksOK(blk) /\ TrieOf(bittree, DOMAIN blk) /\ status \in Statuses
  BY DEF BittreeInv
<1>3. BlockOK(p, r)
  BY <1>1, <1>2 DEF BlocksOK
<1>4. p \in Nat \ {0} /\ p # NULL /\ r \in BtBlock /\ IsFiniteSet(r.bits)
  BY <1>3, BlockPlace
<1>5. bt_lookup(p) = p
  BY <1>1, LookupIs
<1>6. blk' = [blk EXCEPT ![p].is_readonly = TRUE] /\ blk' = [blk EXCEPT ![p] = s]
  BY <1>4, <1>5 DEF eacsl_mark_readonly
<1>7. /\ s \in BtBlock /\ s.bits = r.bits /\ s.size = r.size /\ s.is_freeable = r.is_freeable
      /\ s.is_readonly = TRUE
  BY <1>4 DEF BtBlock
<1>. HIDE DEF s
<1>8. BlockOK(p, s)
  BY <1>1, <1>3, <1>4, <1>7 DEF BlockOK
<1>9. Abs(p, s) = [c EXCEPT !.readonly = TRUE]
  <2>. DEFINE d == [base |-> p, size |-> r.size, heap |-> r.is_freeable, readonly |-> TRUE]
  <2>1. Abs(p, s) = d
    BY <1>7, Zenon DEF Abs
  <2>2. [c EXCEPT !.readonly = TRUE] = d
    BY ReadonlyIs
  <2> QED BY <2>1, <2>2, Zenon
<1>10. ~c.heap
  BY <1>1 DEF Abs
<1>. HIDE DEF c
<1>12. ChangesBlock(blk, blk', p, s)
  <2>1. p \in DOMAIN blk /\ BlocksOK(blk) /\ s.size = blk[p].size
    BY <1>1, <1>2, <1>7
  <2>2. ChangesBlock(blk, [blk EXCEPT ![p] = s], p, s)
    BY <1>8, <2>1, ChangeBlock
  <2>3. blk' = [blk EXCEPT ![p] = s]
    BY <1>6, Zenon
  <2> QED BY <2>2, <2>3, Zenon
<1>13. /\ BlocksOK(blk') /\ DOMAIN blk' = DOMAIN blk
       /\ BlocksOf(blk') = (BlocksOf(blk) \ {c}) \cup {Abs(p, s)}
       /\ c \in BlocksOf(blk)
  BY <1>12 DEF ChangesBlock, c
<1>14. BittreeInv'
  BY <1>1, <1>2, <1>13 DEF BittreeInv
<1>15. c \in Blocks /\ Memory!MarkReadonly(c)
  BY <1>1, <1>9, <1>10, <1>13, BlocksAre DEF Memory!MarkReadonly
<1> QED BY <1>1, <1>6, <1>13, <1>14, <1>15

\* Where the allocator puts a block it is on the heap and apart from the others.
LEMMA AvailableIsClear ==
  ASSUME BittreeAssumption, BlocksOK(blk), NEW p, NEW n \in Sizes, NEW old, Available(p, n, old)
  PROVE  /\ OnHeap(p, n)
         /\ \A b \in DOMAIN blk \ {old} : Footprint(b, blk[b].size) \cap Footprint(p, n) = {}
<1>1. /\ OnHeap(p, n)
      /\ \A b \in DOMAIN blk \ {old} : Span(b, blk[b].size) \cap Span(p, n) = {}
  BY DEF Available, OnHeap
<1>2. ASSUME NEW b \in DOMAIN blk \ {old}
      PROVE  Footprint(b, blk[b].size) \cap Footprint(p, n) = {}
  <2>1. BlockOK(b, blk[b])
    BY DEF BlocksOK
  <2> QED BY <1>1, <2>1, HeapApart
<1> QED BY <1>1, <1>2

\* What malloc adds.
MallocDoes(p, n, zeroed) ==
  /\ n \in Nat \ {0} /\ DOMAIN blk' = DOMAIN blk \cup {p}
  /\ blk'[p].size = n /\ blk'[p].init_bytes = IF zeroed THEN n ELSE 0
  /\ \A b \in DOMAIN blk : b # p /\ blk'[b] = blk[b]
  /\ written' = IF zeroed THEN written \cup Span(p, n) ELSE written

\* malloc and calloc.
LEMMA MallocStep ==
  ASSUME BittreeAssumption, BittreeInv, NEW p \in HeapBases, NEW n \in Sizes,
         NEW zeroed \in BOOLEAN, malloc(p, n, zeroed)
  PROVE  /\ BittreeInv' /\ MallocDoes(p, n, zeroed)
         /\ \E b \in Memory!Added : Memory!Malloc(b, zeroed)
<1>. DEFINE r == [bt_alloc_block(n) EXCEPT !.is_freeable = TRUE,
                                          !.init_bytes = IF zeroed THEN n ELSE 0]
            c == Abs(p, r)
<1>1. /\ Available(p, n, NULL) /\ blk' = With(blk, p, r) /\ bittree' = pt_insert(bittree, p, p)
      /\ written' = IF zeroed THEN written \cup Span(p, n) ELSE written
      /\ UNCHANGED status
  BY DEF malloc
<1>2. BlocksOK(blk) /\ TrieOf(bittree, DOMAIN blk) /\ status \in Statuses
  BY DEF BittreeInv
<1>3. OnHeap(p, n)
  BY <1>1, <1>2, AvailableIsClear
<1>4. /\ BlockOK(p, r) /\ r.size = n /\ r.is_freeable /\ ~r.is_readonly
      /\ r.init_bytes = IF zeroed THEN n ELSE 0
  BY <1>3, HeapBlockOK
<1>. HIDE DEF r
<1>5. p \in Word \ {NULL} /\ Footprint(p, r.size) \subseteq Addr /\ n \in Nat \ {0}
  BY <1>3, <1>4, BlockPlace, HeapPlace
<1>6. /\ c \in Memory!Block /\ c.heap /\ ~c.readonly /\ c.size = n
      /\ Memory!Footprint(c) = Footprint(p, r.size) /\ Memory!Bytes(c) = Span(p, n)
  BY <1>4, AbsShape
<1>7. ClearOf(blk, p, r.size)
  <2>1. NULL \notin DOMAIN blk
    BY <1>2, TrieOfEntries DEF NULL
  <2> QED BY <1>1, <1>2, <1>4, <2>1, AvailableIsClear DEF ClearOf
<1>8. AddsBlock(blk, blk', p, r)
  BY <1>1, <1>2, <1>4, <1>7, AddBlock
<1>9. /\ BlocksOK(blk') /\ p \notin DOMAIN blk /\ DOMAIN blk' = DOMAIN blk \cup {p}
      /\ BlocksOf(blk') = BlocksOf(blk) \cup {c} /\ c \notin BlocksOf(blk)
      /\ \A d \in BlocksOf(blk) : Memory!Footprint(d) \cap Memory!Footprint(c) = {}
      /\ blk'[p] = r /\ \A b \in DOMAIN blk : blk'[b] = blk[b]
  BY <1>8, Zenon DEF AddsBlock
<1>. HIDE DEF c
<1>10. BittreeInv'
  <2>1. TrieOf(bittree', DOMAIN blk')
    BY <1>1, <1>2, <1>5, <1>9, TrieOfInsert
  <2> QED BY <1>1, <1>2, <1>9, <2>1 DEF BittreeInv
<1>11. Memory!Clear(c, Blocks)
  BY <1>5, <1>6, <1>9, BlocksAre DEF Memory!Clear
<1>12. c \in Memory!Added /\ Memory!Malloc(c, zeroed)
  BY <1>1, <1>5, <1>6, <1>9, <1>11, BlocksAre DEF Memory!Added, Memory!Malloc
<1>13. MallocDoes(p, n, zeroed)
  BY <1>1, <1>4, <1>5, <1>9 DEF MallocDoes
<1> QED BY <1>10, <1>12, <1>13

\* free, of a block or of a variable.
LEMMA FreeStep ==
  ASSUME BittreeAssumption, LookupReturns = "leaf", BittreeInv, NEW p \in Pointers, free(p)
  PROVE  /\ BittreeInv'
         /\ \/ UNCHANGED status /\ \E b \in Blocks : Memory!Free(b)
            \/ Crashes \/ TakesVariable
         /\ p \in DOMAIN blk /\ heap' = update_heap_allocation(heap, -blk[p].size)
         /\ \/ UNCHANGED <<blk, written>> /\ ~blk[p].is_freeable /\ status' = "crashed"
            \/ /\ DOMAIN blk' = DOMAIN blk \ {p} /\ Blocks' = Blocks \ {Abs(p, blk[p])}
               /\ Abs(p, blk[p]) \in Blocks /\ status' = AfterLibrary(p)
               /\ \A b \in DOMAIN blk' : blk'[b] = blk[b]
               /\ written' = written \ Span(p, blk[p].size)
<1>1. BlocksOK(blk) /\ TrieOf(bittree, DOMAIN blk) /\ status \in Statuses
  BY DEF BittreeInv
<1>2. p \in DOMAIN blk /\ bt_lookup(p) = p
  <2>1. p \in Addr /\ bt_lookup(p) # NULL
    BY DEF BittreeAssumption, free
  <2> QED BY <2>1, LookupIs
<1>3. heap' = update_heap_allocation(heap, -blk[p].size)
  BY <1>2 DEF free
<1>4. CASE LibraryStops(p)
  <2>1. ~blk[p].is_freeable /\ status' = "crashed" /\ UNCHANGED <<bittree, blk, written>>
    BY <1>4 DEF LibraryStops
  <2>2. BittreeInv' /\ Blocks' = Blocks
    BY <1>1, <2>1, BlocksAre DEF BittreeInv, Statuses
  <2> QED BY <1>2, <1>3, <2>1, <2>2 DEF Crashes
<1>5. CASE /\ bittree' = pt_remove(bittree, p) /\ blk' = Without(blk, {p})
           /\ written' = written \ Span(p, blk[p].size) /\ status' = AfterLibrary(p)
  <2>. DEFINE c == Abs(p, blk[p])
  <2>1. BlockOK(p, blk[p])
    BY <1>1, <1>2 DEF BlocksOK
  <2>2. c.heap = blk[p].is_freeable /\ Memory!Bytes(c) = Span(p, blk[p].size)
    BY <2>1, AbsShape
  <2>3. DropsBlock(blk, blk', p)
    BY <1>1, <1>2, <1>5, DropBlock
  <2>4. /\ BlocksOK(blk') /\ DOMAIN blk' = DOMAIN blk \ {p}
        /\ \A b \in DOMAIN blk' : blk'[b] = blk[b]
        /\ BlocksOf(blk') = BlocksOf(blk) \ {c} /\ c \in BlocksOf(blk)
    BY <2>3 DEF DropsBlock
  <2>. HIDE DEF c
  <2>5. BittreeInv'
    <3>1. TrieOf(bittree', DOMAIN blk')
      BY <1>1, <1>2, <1>5, <2>4, TrieOfRemove
    <3>2. status' \in Statuses
      BY <1>1, <1>5 DEF AfterLibrary, Statuses
    <3> QED BY <2>4, <3>1, <3>2 DEF BittreeInv
  <2>6. Blocks' = Blocks \ {c} /\ c \in Blocks
    BY <2>4, BlocksAre
  <2>7. CASE blk[p].is_freeable
    <3>1. UNCHANGED status
      BY <1>5, <2>7 DEF AfterLibrary
    <3>2. Memory!Free(c)
      BY <1>5, <2>2, <2>6, <2>7, <3>1 DEF Memory!Free
    <3> QED BY <1>2, <1>3, <1>5, <2>4, <2>5, <2>6, <3>1, <3>2 DEF c
  <2>8. CASE ~blk[p].is_freeable
    <3>1. status' = "undefined"
      BY <1>5, <2>8 DEF AfterLibrary
    <3>2. TakesVariable
      BY <2>2, <2>6, <2>8, <3>1 DEF TakesVariable
    <3> QED BY <1>2, <1>3, <1>5, <2>4, <2>5, <2>6, <3>2 DEF c
  <2> QED BY <2>7, <2>8
<1> QED BY <1>2, <1>4, <1>5 DEF free

\* The block that realloc takes away and the one it puts back.
ReallocMoves(p, q, n) ==
  /\ Blocks' = (Blocks \ {Abs(p, blk[p])}) \cup {Abs(q, blk'[q])}
  /\ Abs(p, blk[p]) \in Blocks /\ Abs(q, blk'[q]) \notin Blocks \ {Abs(p, blk[p])}
  /\ blk'[q].is_freeable /\ blk'[q].size = n /\ blk'[q].is_readonly = blk[p].is_readonly

\* realloc, in place or not.
LEMMA ReallocStep ==
  ASSUME BittreeAssumption, LookupReturns = "leaf", BittreeInv, HeapWritable(blk),
         NEW p \in Pointers, NEW q \in HeapBases, NEW n \in Sizes, realloc(p, q, n)
  PROVE  LET r == IF q = p THEN blk[p] ELSE bt_clean_block_init(blk[p])
             moved == {a \in Span(q, n) : a - q + p \in written \cap Span(p, blk[p].size)} IN
         /\ BittreeInv' /\ status' = AfterLibrary(p)
         /\ \/ UNCHANGED status /\ \E b \in Blocks : \E c \in Memory!Added \cup {b} : Memory!Realloc(b, c)
            \/ TakesVariable
         /\ p \in DOMAIN blk /\ n \in Nat \ {0} /\ q \in Nat /\ ReallocMoves(p, q, n)
         /\ n >= blk[p].size \/ blk[p].init_bytes \in {0, blk[p].size} \/ ShrinksPartly
         /\ DOMAIN blk' = (DOMAIN blk \ {p}) \cup {q} /\ blk'[q] = Resized(r, n)
         /\ \A b \in DOMAIN blk \ {p} : b # q /\ blk'[b] = blk[b]
         /\ \A b \in DOMAIN blk \ {p} : Footprint(b, blk[b].size) \cap Footprint(q, n) = {}
         /\ written' = (written \ Span(p, blk[p].size)) \cup moved
<1>. DEFINE r == IF q = p THEN blk[p] ELSE bt_clean_block_init(blk[p])
            moved == {a \in Span(q, n) : a - q + p \in written \cap Span(p, blk[p].size)}
            s == Resized(r, n)
            b == Abs(p, blk[p])
            c == Abs(q, s)
            kept == Without(blk, {p})
<1>1. BlocksOK(blk) /\ TrieOf(bittree, DOMAIN blk) /\ status \in Statuses
  BY DEF BittreeInv
<1>2. p \in DOMAIN blk /\ bt_lookup(p) = p
  <2>1. p \in Addr /\ bt_lookup(p) # NULL
    BY DEF BittreeAssumption, realloc
  <2> QED BY <2>1, LookupIs
<1>3. /\ Available(q, n, p)
      /\ n >= blk[p].size \/ blk[p].init_bytes \in {0, blk[p].size} \/ ShrinksPartly
      /\ blk' = With(kept, q, s)
      /\ bittree' = IF q = p THEN bittree ELSE pt_insert(pt_remove(bittree, p), q, q)
      /\ written' = (written \ Span(p, blk[p].size)) \cup moved
      /\ status' = AfterLibrary(p)
  BY <1>2 DEF realloc
<1>4. BlockOK(p, blk[p]) /\ blk[p] \in BtBlock /\ IsFiniteSet(blk[p].bits)
  BY <1>1, <1>2, <1>3, BlockPlace DEF BlocksOK
<1>5. r \in BtBlock /\ IsFiniteSet(r.bits) /\ r.is_readonly = blk[p].is_readonly
  <2>1. CASE q = p
    BY <1>4, <2>1
  <2>2. CASE q # p
    <3>. DEFINE cleaned == bt_clean_block_init(blk[p])
    <3>1. cleaned \in BtBlock /\ cleaned.bits = {} /\ cleaned.is_readonly = blk[p].is_readonly
      BY <1>4 DEF bt_clean_block_init, BtBlock
    <3> QED BY <2>2, <3>1, FS_EmptySet
  <2> QED BY <2>1, <2>2
<1>6. OnHeap(q, n) /\ \A x \in DOMAIN blk \ {p} : Footprint(x, blk[x].size) \cap Footprint(q, n) = {}
  BY <1>1, <1>3, AvailableIsClear
<1>. HIDE DEF r
<1>7. /\ BlockOK(q, s) /\ s.size = n /\ s.is_freeable
      /\ s.is_readonly = blk[p].is_readonly
  BY <1>5, <1>6, ResizedBlock
<1>8. q \in Word \ {NULL} /\ q \in Nat /\ Footprint(q, s.size) \subseteq Addr /\ n \in Nat \ {0}
  BY <1>6, <1>7, BlockPlace, HeapPlace
<1>. HIDE DEF s
<1>9. DropsBlock(blk, kept, p)
  BY <1>1, <1>2, DropBlock
<1>. HIDE DEF kept
<1>10. /\ BlocksOK(kept) /\ DOMAIN kept = DOMAIN blk \ {p} /\ \A x \in DOMAIN kept : kept[x] = blk[x]
       /\ BlocksOf(kept) = BlocksOf(blk) \ {b} /\ b \in BlocksOf(blk)
  BY <1>9 DEF DropsBlock
<1>11. ClearOf(kept, q, s.size)
  BY <1>6, <1>7, <1>10 DEF ClearOf
<1>12. AddsBlock(kept, blk', q, s)
  BY <1>3, <1>7, <1>10, <1>11, AddBlock
<1>13. /\ BlocksOK(blk') /\ q \notin DOMAIN kept /\ DOMAIN blk' = DOMAIN kept \cup {q}
       /\ BlocksOf(blk') = BlocksOf(kept) \cup {c} /\ c \notin BlocksOf(kept)
       /\ \A d \in BlocksOf(kept) : Memory!Footprint(d) \cap Memory!Footprint(c) = {}
       /\ blk'[q] = s /\ \A x \in DOMAIN kept : blk'[x] = kept[x]
  BY <1>12, Zenon DEF AddsBlock
<1>14. BittreeInv'
  <2>1. TrieOf(bittree', DOMAIN blk')
    <3>1. CASE q = p
      <4>1. bittree' = bittree
        BY <1>3, <3>1
      <4>2. DOMAIN blk' = (DOMAIN blk \ {p}) \cup {p}
        <5>1. DOMAIN blk' = DOMAIN kept \cup {q} /\ DOMAIN kept = DOMAIN blk \ {p}
          BY <1>10, <1>13
        <5> QED BY <3>1, <5>1
      <4>3. DOMAIN blk' = DOMAIN blk
        <5>1. p \in DOMAIN blk
          BY <1>2
        <5> QED BY <4>2, <5>1
      <4>4. TrieOf(bittree, DOMAIN blk)
        BY <1>1
      <4> QED BY <4>1, <4>3, <4>4
    <3>2. CASE q # p
      <4>. DEFINE t == pt_remove(bittree, p)
                  S == DOMAIN blk \ {p}
      <4>1. TrieOf(t, S) /\ q \notin S
        BY <1>1, <1>2, <1>10, <1>13, TrieOfRemove
      <4>. HIDE DEF t, S
      <4>2. TrieOf(pt_insert(t, q, q), S \cup {q})
        BY <1>8, <4>1, TrieOfInsert
      <4>3. bittree' = pt_insert(t, q, q) /\ DOMAIN blk' = S \cup {q}
        BY <1>3, <1>10, <1>13, <3>2 DEF t, S
      <4> QED BY <4>2, <4>3
    <3> QED BY <3>1, <3>2
  <2>2. status' \in Statuses
    BY <1>1, <1>3 DEF AfterLibrary, Statuses
  <2> QED BY <1>13, <2>1, <2>2 DEF BittreeInv
<1>23. ReallocMoves(p, q, n)
  BY <1>3, <1>7, <1>10, <1>13, BlocksAre, Zenon DEF ReallocMoves
<1>15. /\ b.heap = blk[p].is_freeable /\ Memory!Bytes(b) = Span(p, blk[p].size) /\ b.base = p
  BY <1>4, AbsShape
<1>16. /\ c \in Memory!Block /\ c.heap /\ c.readonly = blk[p].is_readonly /\ c.size = n /\ c.base = q
       /\ Memory!Footprint(c) = Footprint(q, s.size) /\ Memory!Bytes(c) = Span(q, n)
  BY <1>7, AbsShape
<1>. HIDE DEF b, c
<1>17. Blocks' = (Blocks \ {b}) \cup {c} /\ b \in Blocks /\ c \in Memory!Added \cup {b}
  BY <1>10, <1>13, BlocksAre DEF Memory!Added
<1>18. Memory!Clear(c, Blocks \ {b})
  BY <1>8, <1>10, <1>13, <1>16, BlocksAre DEF Memory!Clear
<1>19. Memory!Kept(b, c) = moved
  BY <1>15, <1>16 DEF Memory!Kept
<1>. HIDE DEF moved
<1>20. ASSUME blk[p].is_freeable
       PROVE  UNCHANGED status /\ \E d \in Blocks : \E e \in Memory!Added \cup {d} : Memory!Realloc(d, e)
  <2>1. UNCHANGED status /\ ~blk[p].is_readonly
    BY <1>2, <1>3, <1>20 DEF AfterLibrary, HeapWritable
  <2>2. Memory!Realloc(b, c)
    BY <1>3, <1>8, <1>15, <1>16, <1>17, <1>18, <1>19, <1>20, <2>1 DEF Memory!Realloc
  <2> QED BY <1>17, <2>1, <2>2, Zenon
<1>21. ASSUME ~blk[p].is_freeable PROVE TakesVariable
  <2>1. status' = "undefined" /\ c \in Blocks'
    BY <1>3, <1>17, <1>21 DEF AfterLibrary
  <2> QED BY <1>15, <1>16, <1>17, <1>21, <2>1 DEF TakesVariable
<1>22. /\ DOMAIN blk' = (DOMAIN blk \ {p}) \cup {q} /\ blk'[q] = s
       /\ \A x \in DOMAIN blk \ {p} : x # q /\ blk'[x] = blk[x]
  BY <1>10, <1>13
<1>24. \/ UNCHANGED status /\ \E d \in Blocks : \E e \in Memory!Added \cup {d} : Memory!Realloc(d, e)
       \/ TakesVariable
  BY <1>20, <1>21
<1> QED BY <1>2, <1>3, <1>6, <1>8, <1>14, <1>22, <1>23, <1>24 DEF r, s, moved

\* free of what is not a block.
LEMMA FreeInvalidStep ==
  ASSUME BittreeAssumption, LookupReturns = "leaf", BittreeInv, NEW p \in Pointers,
         free_invalid(p)
  PROVE  /\ BittreeInv' /\ UNCHANGED <<blk, heap, written>>
         /\ Crashes \/ (status' = "aborted" /\ \E x \in Addr : Memory!Abort(x))
<1>1. p \in Addr /\ p \notin DOMAIN blk
  <2>1. p \in Addr /\ p # NULL /\ bt_lookup(p) = NULL
    BY DEF BittreeAssumption, free_invalid
  <2> QED BY <2>1, LookupIs
<1>2. /\ status' = "crashed" \/ status' = "aborted"
      /\ UNCHANGED <<bittree, blk, heap, written>>
  BY DEF free_invalid
<1>3. BittreeInv' /\ Blocks' = Blocks
  BY <1>2, BlocksAre DEF BittreeInv, Statuses
<1>4. ASSUME status' = "aborted" PROVE Memory!Abort(p)
  <2>1. \A b \in Blocks : b.base # p
    BY <1>1, AbsBase, BlocksAre
  <2> QED BY <1>2, <1>3, <1>4, <2>1 DEF Memory!Abort
<1> QED BY <1>1, <1>2, <1>3, <1>4 DEF Crashes

\* realloc of what is not a block, or of a variable that stops the process.
LEMMA InvalidStep ==
  ASSUME BittreeAssumption, LookupReturns = "leaf", BittreeInv, NEW p \in Pointers,
         realloc_invalid(p)
  PROVE  BittreeInv' /\ UNCHANGED <<blk, heap, written>> /\ Crashes
<1>1. status' = "crashed" /\ UNCHANGED <<bittree, blk, heap, written>>
  BY DEF realloc_invalid, LibraryStops
<1>2. BittreeInv' /\ Blocks' = Blocks
  BY <1>1, BlocksAre DEF BittreeInv, Statuses
<1> QED BY <1>1, <1>2 DEF Crashes

\* What has the flag of a block of the heap is not read-only, since only
\* variables are marked, unless one of them is moved to the heap.
LEMMA WritableStep ==
  ASSUME BittreeAssumption, LookupReturns = "leaf", BittreeInv, HeapWritable(blk), Next
  PROVE  WritableInv'
<1>. DEFINE Good(r) == r.is_freeable => ~r.is_readonly
<1>0. \A b \in DOMAIN blk : Good(blk[b]) /\ blk[b] \in BtBlock /\ b # NULL
  <2>1. \A b \in DOMAIN blk : BlockOK(b, blk[b])
    BY DEF BittreeInv, BlocksOK
  <2> QED BY <2>1, BlockPlace DEF HeapWritable
<1>1. ASSUME NEW r, Good(r),
             \A x \in DOMAIN blk' : blk'[x] = r \/ (x \in DOMAIN blk /\ blk'[x] = blk[x])
      PROVE  WritableInv'
  BY <1>0, <1>1 DEF WritableInv, HeapWritable
<1>2. ASSUME \A x \in DOMAIN blk' : x \in DOMAIN blk /\ blk'[x] = blk[x] PROVE WritableInv'
  BY <1>0, <1>2 DEF WritableInv, HeapWritable
<1>3. ASSUME NEW o \in Objects, eacsl_store_block(o) \/ eacsl_store_block_duplicate(o)
      PROVE  WritableInv'
  <2>. DEFINE r == bt_alloc_block(o.size)
  <2>1. ~r.is_freeable
    BY DEF bt_alloc_block
  <2>2. blk' = With(blk, o.base, r) \/ blk' = [blk EXCEPT ![o.base] = r]
    BY <1>3 DEF eacsl_store_block, eacsl_store_block_duplicate
  <2>. HIDE DEF r
  <2>3. \A x \in DOMAIN blk' : blk'[x] = r \/ (x \in DOMAIN blk /\ blk'[x] = blk[x])
    BY <2>2 DEF With
  <2> QED BY <1>1, <2>1, <2>3
<1>4. ASSUME NEW o \in Objects, eacsl_delete_block(o) PROVE WritableInv'
  <2>1. blk' = blk \/ \E b : blk' = Without(blk, {b})
    BY <1>4 DEF eacsl_delete_block
  <2> QED BY <1>2, <2>1 DEF Without
<1>5. ASSUME NEW p \in Pointers, NEW part \in Parts, eacsl_initialize(p, part) PROVE WritableInv'
  <2>1. /\ p \in DOMAIN blk /\ part[1] \in Nat /\ part[2] \in Nat \ {0}
        /\ blk' = [blk EXCEPT ![p] = Initialized(blk[p], part[1], part[2])]
    BY <1>5, InitializeStep
  <2>. DEFINE s == Initialized(blk[p], part[1], part[2])
  <2>2. SameBlock(blk[p], s)
    <3>1. BlockOK(p, blk[p])
      BY <2>1 DEF BittreeInv, BlocksOK
    <3> QED BY <2>1, <3>1, InitializedBlock
  <2>. HIDE DEF s
  <2>3. Good(s)
    BY <1>0, <2>1, <2>2 DEF SameBlock
  <2>4. \A x \in DOMAIN blk' : blk'[x] = s \/ (x \in DOMAIN blk /\ blk'[x] = blk[x])
    BY <2>1 DEF s
  <2> QED BY <1>1, <2>3, <2>4
<1>6. ASSUME NEW p \in Pointers, eacsl_full_init(p) PROVE WritableInv'
  <2>1. p \in DOMAIN blk
    BY <1>6 DEF eacsl_full_init
  <2>2. bt_lookup(p) = p
    BY <2>1, LookupIs
  <2>3. blk' = [blk EXCEPT ![p].init_ptr = FALSE, ![p].bits = {}, ![p].init_bytes = blk[p].size]
    BY <1>0, <1>6, <2>1, <2>2 DEF eacsl_full_init
  <2>4. /\ DOMAIN blk' = DOMAIN blk /\ \A x \in DOMAIN blk \ {p} : blk'[x] = blk[x]
        /\ blk'[p].is_freeable = blk[p].is_freeable /\ blk'[p].is_readonly = blk[p].is_readonly
    BY <1>0, <2>1, <2>3 DEF BtBlock
  <2> QED BY <1>0, <1>1, <2>1, <2>4
<1>7. ASSUME NEW p \in Pointers, eacsl_mark_readonly(p) PROVE WritableInv'
  <2>1. p \in DOMAIN blk /\ blk' = [blk EXCEPT ![p].is_readonly = TRUE] /\ DOMAIN blk' = DOMAIN blk
    BY <1>7, ReadonlyStep
  <2>2. ~blk[p].is_freeable
    BY <1>7 DEF eacsl_mark_readonly
  <2>3. ~blk'[p].is_freeable /\ \A x \in DOMAIN blk \ {p} : blk'[x] = blk[x]
    BY <1>0, <2>1, <2>2 DEF BtBlock
  <2> QED BY <1>1, <2>1, <2>3
<1>8. ASSUME NEW p \in Pointers, free(p) \/ free_invalid(p) \/ realloc_invalid(p) PROVE WritableInv'
  <2>1. \A x \in DOMAIN blk' : x \in DOMAIN blk /\ blk'[x] = blk[x]
    <3>1. CASE free(p)
      BY <3>1, FreeStep
    <3>2. CASE free_invalid(p) \/ realloc_invalid(p)
      BY <3>2, FreeInvalidStep, InvalidStep
    <3> QED BY <1>8, <3>1, <3>2
  <2> QED BY <1>2, <2>1
<1>9. ASSUME NEW p \in HeapBases, NEW n \in Sizes, NEW z \in BOOLEAN, malloc(p, n, z)
      PROVE  WritableInv'
  <2>. DEFINE r == [bt_alloc_block(n) EXCEPT !.is_freeable = TRUE,
                                            !.init_bytes = IF z THEN n ELSE 0]
  <2>1. ~r.is_readonly
    BY DEF bt_alloc_block
  <2>2. blk' = With(blk, p, r)
    BY <1>9 DEF malloc
  <2>. HIDE DEF r
  <2>3. \A x \in DOMAIN blk' : blk'[x] = r \/ (x \in DOMAIN blk /\ blk'[x] = blk[x])
    BY <2>2 DEF With
  <2> QED BY <1>1, <2>1, <2>3
<1>10. ASSUME NEW p \in Pointers, NEW q \in HeapBases, NEW n \in Sizes, realloc(p, q, n)
       PROVE  WritableInv'
  <2>1. /\ status' = AfterLibrary(p) /\ p \in DOMAIN blk /\ DOMAIN blk' = (DOMAIN blk \ {p}) \cup {q}
        /\ \A b \in DOMAIN blk \ {p} : b # q /\ blk'[b] = blk[b]
        /\ blk'[q].is_freeable /\ blk'[q].is_readonly = blk[p].is_readonly
    BY <1>10, ReallocStep DEF ReallocMoves
  <2>2. CASE blk[p].is_freeable
    BY <1>0, <1>1, <2>1, <2>2
  <2>3. CASE ~blk[p].is_freeable
    BY <2>1, <2>3 DEF AfterLibrary, WritableInv
  <2> QED BY <2>2, <2>3
<1> QED BY <1>3, <1>4, <1>5, <1>6, <1>7, <1>8, <1>9, <1>10 DEF Next

-----------------------------------------------------------------------------
(* The invariant, and the refinement of BlockMap *)

\* Nothing is allocated at first.
LEMMA BittreeInit == Init => BittreeInv /\ WritableInv /\ InitInv /\ Memory!Init
<1>. SUFFICES ASSUME Init PROVE BittreeInv /\ WritableInv /\ InitInv /\ Memory!Init
  OBVIOUS
<1>1. bittree = EmptyTrie /\ blk = <<>> /\ status = "running" /\ written = {}
  BY DEF Init
<1>2. DOMAIN blk = {} /\ blk = [b \in DOMAIN blk |-> blk[b]]
  BY <1>1
<1>3. BlocksOK(blk)
  BY <1>2, FS_EmptySet DEF BlocksOK
<1>4. TrieOf(bittree, DOMAIN blk)
  BY <1>1, <1>2, TrieOfEmpty
<1>5. BittreeInv
  BY <1>1, <1>3, <1>4 DEF BittreeInv, Statuses
<1>6. Blocks = {}
  BY <1>2 DEF Blocks
<1> QED BY <1>1, <1>2, <1>5, <1>6 DEF WritableInv, HeapWritable, InitInv, Memory!Init

\* Each step keeps the invariant and is one that KeepsTheBlocks allows.
Allowed ==
  \/ status' \in {"running", "aborted"} /\ Memory!Next
  \/ Crashes \/ TakesVariable
  \/ UNCHANGED <<Memory!vars, status>>

LEMMA BittreeStep ==
  ASSUME BittreeAssumption, LookupReturns = "leaf", BittreeInv, WritableInv, [Next]_vars
  PROVE  BittreeInv' /\ WritableInv' /\ Allowed
<1>1. CASE UNCHANGED vars
  <2>1. UNCHANGED <<bittree, blk, status, written>>
    BY <1>1 DEF vars
  <2>2. UNCHANGED <<Memory!vars, status>>
    BY <2>1, BlocksAre DEF Memory!vars
  <2> QED BY <2>1, <2>2 DEF BittreeInv, WritableInv, Allowed
<1>2. ASSUME Next PROVE BittreeInv' /\ WritableInv' /\ Allowed
  <2>0. status = "running" /\ HeapWritable(blk)
    BY <1>2 DEF Next, WritableInv
  <2>1. /\ ~(status = "aborted") /\ WritableInv'
        /\ (UNCHANGED status => status' \in {"running", "aborted"})
    BY <1>2, <2>0, WritableStep
  <2>2. ASSUME BittreeInv', UNCHANGED status, Memory!Next \/ UNCHANGED Memory!vars
        PROVE  BittreeInv' /\ WritableInv' /\ Allowed
    BY <2>1, <2>2 DEF Allowed
  <2>3. ASSUME BittreeInv', Crashes \/ TakesVariable
        PROVE  BittreeInv' /\ WritableInv' /\ Allowed
    BY <2>1, <2>3 DEF Allowed
  <2>4. ASSUME NEW o \in Objects,
               eacsl_store_block(o) \/ eacsl_delete_block(o) \/ eacsl_store_block_duplicate(o)
        PROVE  BittreeInv' /\ WritableInv' /\ Allowed
    <3>1. UNCHANGED status
      BY <2>4 DEF eacsl_store_block, eacsl_delete_block, eacsl_store_block_duplicate
    <3>2. BittreeInv' /\ Memory!Next
      BY <2>1, <2>4, StoreStep, DeleteStep, DuplicateStep DEF Memory!Next
    <3> QED BY <2>2, <3>1, <3>2
  <2>5. ASSUME NEW p \in Pointers, NEW part \in Parts, eacsl_initialize(p, part)
        PROVE  BittreeInv' /\ WritableInv' /\ Allowed
    <3>1. UNCHANGED status
      BY <2>5 DEF eacsl_initialize
    <3>2. BittreeInv' /\ Memory!Next
      BY <2>1, <2>5, InitializeStep DEF Memory!Next
    <3> QED BY <2>2, <3>1, <3>2
  <2>6. ASSUME NEW p \in Pointers, eacsl_full_init(p) \/ eacsl_mark_readonly(p)
        PROVE  BittreeInv' /\ WritableInv' /\ Allowed
    <3>1. UNCHANGED status
      BY <2>6 DEF eacsl_full_init, eacsl_mark_readonly
    <3>2. BittreeInv' /\ (Memory!Next \/ UNCHANGED Memory!vars)
      BY <2>1, <2>6, FullInitStep, ReadonlyStep DEF Memory!Next
    <3> QED BY <2>2, <3>1, <3>2
  <2>7. ASSUME NEW p \in Pointers, free(p)
        PROVE  BittreeInv' /\ WritableInv' /\ Allowed
    <3>1. BittreeInv' /\ ((UNCHANGED status /\ Memory!Next) \/ Crashes \/ TakesVariable)
      BY <2>1, <2>7, FreeStep DEF Memory!Next
    <3> QED BY <2>2, <2>3, <3>1
  <2>8. ASSUME NEW p \in Pointers, free_invalid(p)
        PROVE  BittreeInv' /\ WritableInv' /\ Allowed
    <3>1. BittreeInv' /\ (Crashes \/ (status' = "aborted" /\ Memory!Next))
      BY <2>1, <2>8, FreeInvalidStep DEF Memory!Next
    <3> QED BY <2>1, <3>1 DEF Allowed
  <2>9. ASSUME NEW p \in Pointers, realloc_invalid(p)
        PROVE  BittreeInv' /\ WritableInv' /\ Allowed
    BY <2>3, <2>9, InvalidStep
  <2>10. ASSUME NEW p \in HeapBases, NEW n \in Sizes, NEW z \in BOOLEAN, malloc(p, n, z)
         PROVE  BittreeInv' /\ WritableInv' /\ Allowed
    <3>1. BittreeInv' /\ \E b \in Memory!Added : Memory!Malloc(b, z)
      BY <2>10, MallocStep, Zenon
    <3>2. PICK b \in Memory!Added : Memory!Malloc(b, z)
      BY <3>1
    <3>3. z = TRUE \/ z = FALSE
      OBVIOUS
    <3>4. Memory!Malloc(b, TRUE) \/ Memory!Malloc(b, FALSE)
      BY <3>2, <3>3, Zenon
    <3>5. UNCHANGED status
      BY <2>10 DEF malloc
    <3>6. Memory!Next
      BY <2>1, <3>4 DEF Memory!Next
    <3> QED BY <2>2, <3>1, <3>5, <3>6
  <2>11. ASSUME NEW p \in Pointers, NEW q \in HeapBases, NEW n \in Sizes, realloc(p, q, n)
         PROVE  BittreeInv' /\ WritableInv' /\ Allowed
    <3>1. /\ BittreeInv'
          /\ \/ UNCHANGED status /\ \E b \in Blocks : \E c \in Memory!Added \cup {b} : Memory!Realloc(b, c)
             \/ TakesVariable
      BY <2>0, <2>11, ReallocStep
    <3>2. (UNCHANGED status /\ Memory!Next) \/ TakesVariable
      BY <2>1, <3>1 DEF Memory!Next
    <3> QED BY <2>2, <2>3, <3>1, <3>2
  <2> QED BY <1>2, <2>4, <2>5, <2>6, <2>7, <2>8, <2>9, <2>10, <2>11 DEF Next
<1> QED BY <1>1, <1>2

\* The trie is one of the blocks of the program at every step.
THEOREM BittreeIsWellFormed ==
  ASSUME BittreeAssumption, LookupReturns = "leaf"
  PROVE  Spec => [](BittreeInv /\ WritableInv)
<1>1. Init => BittreeInv /\ WritableInv
  BY BittreeInit
<1>2. BittreeInv /\ WritableInv /\ [Next]_vars => BittreeInv' /\ WritableInv'
  BY BittreeStep
<1> QED BY <1>1, <1>2, PTL DEF Spec

\* Whatever the program stores, deletes, allocates, moves and frees, the trie
\* has a leaf for each of its blocks and nothing else, its prefixes, masks
\* and links are those of its leaves, and it has no node too many: eacsl_
\* store_block, eacsl_delete_block, malloc, free and realloc, to any depth.
THEOREM TrieHoldsTheBlocks ==
  ASSUME BittreeAssumption, LookupReturns = "leaf"
  PROVE  Spec => []TrieHoldsBlocks
<1>1. BittreeInv => TrieHoldsBlocks
  <2>1. ASSUME BittreeInv PROVE TrieHoldsBlocks
    <3>1. TrieOf(bittree, DOMAIN blk)
      BY <2>1 DEF BittreeInv
    <3>2. WellFormed(bittree)
      BY <3>1, TrieIsWellFormed DEF TrieOf
    <3>3. /\ Leaves(bittree) = DOMAIN blk
          /\ Cardinality(DOMAIN bittree.node) = Max({0, 2 * Cardinality(DOMAIN blk) - 1})
      BY <3>1, TrieOfSize
    <3> QED BY <3>2, <3>3 DEF TrieHoldsBlocks
  <2> QED BY <2>1
<1> QED BY <1>1, BittreeIsWellFormed, PTL

\* The bittree implements the specification of the observation models: each
\* call does to the bt_block structures what its contract says of the memory
\* of the program, and nothing to others, where the process is not lost and
\* the C library is not given a variable to free or to move.
THEOREM BittreeKeepsTheBlocks ==
  ASSUME BittreeAssumption, LookupReturns = "leaf"
  PROVE  Spec => KeepsTheBlocks
<1>1. Init => Memory!Init
  BY BittreeInit
<1>2. BittreeInv /\ WritableInv /\ [Next]_vars
        => [\/ status' \in {"running", "aborted"} /\ Memory!Next
            \/ Crashes \/ TakesVariable]_<<Memory!vars, status>>
  BY BittreeStep DEF Allowed
<1> QED BY <1>1, <1>2, BittreeIsWellFormed, PTL DEF Spec, KeepsTheBlocks

\* As long as the process lives and no variable is given to free or realloc,
\* the bittree implements BlockMap as it is: what is proved of any memory of a
\* C program holds of its blocks.
THEOREM BittreeImplementsBlockMap ==
  ASSUME BittreeAssumption, LookupReturns = "leaf"
  PROVE  Spec /\ [](status \in {"running", "aborted"}) => Memory!Spec
<1>1. /\ [\/ status' \in {"running", "aborted"} /\ Memory!Next
          \/ Crashes \/ TakesVariable]_<<Memory!vars, status>>
      /\ (status \in {"running", "aborted"})'
      => [Memory!Next]_(Memory!vars)
  BY DEF Crashes, TakesVariable
<1> QED BY <1>1, BittreeKeepsTheBlocks, PTL DEF KeepsTheBlocks, Memory!Spec

-----------------------------------------------------------------------------
(* The answers to the annotations *)

\* The contracts of the predicates, of the blocks that the trie holds.
LEMMA RegionContracts ==
  ASSUME NEW p, NEW n, NEW base
  PROVE  /\ Abstract(Blocks)!valid(p, n, base) <=>
              \/ n = 0
              \/ \E b \in Blocks : /\ Memory!Span(p, n) \subseteq Memory!Bytes(b)
                                   /\ base \in Memory!Footprint(b)
                                   /\ ~b.readonly
         /\ Abstract(Blocks)!valid_read(p, n, base) <=>
              \/ n = 0
              \/ \E b \in Blocks : /\ Memory!Span(p, n) \subseteq Memory!Bytes(b)
                                   /\ base \in Memory!Footprint(b)
BY Zenon DEF Abstract!valid, Abstract!valid_read, Abstract!Span, Abstract!Bytes,
   Abstract!Footprint, Memory!Bytes, Memory!Footprint, Memory!Span

\* The contracts of the predicates of an address, of which at most one block decides.
LEMMA AddressContracts ==
  ASSUME NEW p
  PROVE  LET H == {b \in Blocks : p \in Memory!Footprint(b)} IN
         /\ Abstract(Blocks)!freeable(p) <=> \E b \in Blocks : b.heap /\ b.base = p
         /\ Abstract(Blocks)!Holders(p) = H
         /\ Abstract(Blocks)!base_addr(p) = (CHOOSE b \in H : TRUE).base
         /\ Abstract(Blocks)!block_length(p) = (CHOOSE b \in H : TRUE).size
         /\ Abstract(Blocks)!offset(p) = p - (CHOOSE b \in H : TRUE).base
BY Zenon DEF Abstract!freeable, Abstract!Holders, Abstract!base_addr, Abstract!block_length,
   Abstract!offset, Abstract!Span, Abstract!Bytes, Abstract!Footprint,
   Memory!Bytes, Memory!Footprint, Memory!Span

\* The blocks of BlockMap, one for each leaf of the trie.
LEMMA BlockOfLeaf ==
  ASSUME BittreeAssumption, BittreeInv
  PROVE  /\ \A c \in Blocks : c.base \in DOMAIN blk /\ c = Abs(c.base, blk[c.base])
         /\ \A b \in DOMAIN blk :
              /\ Abs(b, blk[b]) \in Blocks
              /\ b \in Nat \ {0} /\ b # NULL /\ blk[b].size \in Nat
              /\ Memory!Bytes(Abs(b, blk[b])) = Span(b, blk[b].size)
              /\ Memory!Footprint(Abs(b, blk[b])) = Footprint(b, blk[b].size)
              /\ Abs(b, blk[b]).base = b /\ Abs(b, blk[b]).size = blk[b].size
              /\ Abs(b, blk[b]).heap = blk[b].is_freeable
              /\ Abs(b, blk[b]).readonly = blk[b].is_readonly
<1>1. \A c \in Blocks : c.base \in DOMAIN blk /\ c = Abs(c.base, blk[c.base])
  BY AbsBase, BlocksAre
<1>2. ASSUME NEW b \in DOMAIN blk
      PROVE  /\ Abs(b, blk[b]) \in Blocks
             /\ b \in Nat \ {0} /\ b # NULL /\ blk[b].size \in Nat
             /\ Memory!Bytes(Abs(b, blk[b])) = Span(b, blk[b].size)
             /\ Memory!Footprint(Abs(b, blk[b])) = Footprint(b, blk[b].size)
             /\ Abs(b, blk[b]).base = b /\ Abs(b, blk[b]).size = blk[b].size
             /\ Abs(b, blk[b]).heap = blk[b].is_freeable
             /\ Abs(b, blk[b]).readonly = blk[b].is_readonly
  <2>1. BlockOK(b, blk[b])
    BY DEF BittreeInv, BlocksOK
  <2>2. b \in Nat \ {0} /\ b # NULL /\ blk[b].size \in Nat
    BY <2>1, BlockPlace
  <2>3. Abs(b, blk[b]) \in Blocks
    BY BlocksAre DEF BlocksOf
  <2> QED BY <2>1, <2>2, <2>3, AbsShape
<1> QED BY <1>1, <1>2

\* What pt_find finds: the block of an address, or that it has none.
LEMMA FindCases ==
  ASSUME BittreeAssumption, BittreeInv, NEW p \in Addr
  PROVE  \/ /\ bt_find(p) \in DOMAIN blk /\ bt_find(p) # NULL
            /\ p \in Footprint(bt_find(p), blk[bt_find(p)].size)
            /\ \A b \in DOMAIN blk : p \in Footprint(b, blk[b].size) => b = bt_find(p)
         \/ bt_find(p) = NULL /\ \A b \in DOMAIN blk : p \notin Footprint(b, blk[b].size)
<1>1. /\ \A b \in DOMAIN blk : p \in Footprint(b, blk[b].size) => bt_find(p) = b
      /\ (\A b \in DOMAIN blk : p \notin Footprint(b, blk[b].size)) => bt_find(p) = NULL
  BY FindIs
<1>2. \A b \in DOMAIN blk : b # NULL
  BY BlockOfLeaf
<1> QED BY <1>1, <1>2

\* lookup_allocated, with the search in the trie, is the contract of a region.
LEMMA RegionFound ==
  ASSUME BittreeAssumption, BittreeInv, NEW p \in Addr, NEW n \in Nat \ {0}, NEW base \in Addr
  PROVE  /\ lookup_allocated(p, n, base) <=>
              \E c \in Blocks : /\ Memory!Span(p, n) \subseteq Memory!Bytes(c)
                                /\ base \in Memory!Footprint(c)
         /\ \A c \in Blocks : Memory!Span(p, n) \subseteq Memory!Bytes(c) =>
              c.readonly = blk[bt_find(p)].is_readonly
<1>. DEFINE f == bt_find(p)
            g == bt_find(base)
<1>0. p \in Nat
  BY AddrsAreWords
<1>1. Memory!Span(p, n) = Span(p, n) /\ p \in Span(p, n) /\ p + n - 1 \in Span(p, n)
  BY <1>0 DEF Memory!Span, Span
<1>2. \/ /\ f \in DOMAIN blk /\ f # NULL /\ p \in Footprint(f, blk[f].size)
         /\ \A b \in DOMAIN blk : p \in Footprint(b, blk[b].size) => b = f
      \/ f = NULL /\ \A b \in DOMAIN blk : p \notin Footprint(b, blk[b].size)
  BY FindCases
<1>3. \/ /\ g \in DOMAIN blk /\ g # NULL /\ base \in Footprint(g, blk[g].size)
         /\ \A b \in DOMAIN blk : base \in Footprint(b, blk[b].size) => b = g
      \/ g = NULL /\ \A b \in DOMAIN blk : base \notin Footprint(b, blk[b].size)
  BY FindCases
<1>4. lookup_allocated(p, n, base) <=> f # NULL /\ g = f /\ blk[f].size - (p - f) >= n
  BY DEF lookup_allocated
<1>. HIDE DEF f, g
<1>5. ASSUME lookup_allocated(p, n, base)
      PROVE  \E c \in Blocks : /\ Memory!Span(p, n) \subseteq Memory!Bytes(c)
                               /\ base \in Memory!Footprint(c)
  <2>1. f \in DOMAIN blk /\ p \in Footprint(f, blk[f].size) /\ base \in Footprint(f, blk[f].size)
    BY <1>2, <1>3, <1>4, <1>5
  <2>2. f \in Nat /\ blk[f].size \in Nat
    BY <2>1, BlockOfLeaf
  <2>3. f <= p /\ p + n <= f + blk[f].size
    BY <1>0, <1>4, <1>5, <2>1, <2>2 DEF Footprint, Span
  <2>4. Span(p, n) \subseteq Span(f, blk[f].size)
    BY <1>0, <2>2, <2>3 DEF Span
  <2> QED BY <1>1, <2>1, <2>4, BlockOfLeaf
<1>6. ASSUME NEW c \in Blocks, Memory!Span(p, n) \subseteq Memory!Bytes(c)
      PROVE  /\ c = Abs(f, blk[f]) /\ f \in DOMAIN blk /\ f # NULL /\ blk[f].size - (p - f) >= n
             /\ Memory!Footprint(c) = Footprint(f, blk[f].size)
             /\ c.readonly = blk[f].is_readonly
  <2>. DEFINE b == c.base
  <2>1. b \in DOMAIN blk /\ c = Abs(b, blk[b])
    BY BlockOfLeaf
  <2>2. /\ b \in Nat \ {0} /\ b # NULL /\ blk[b].size \in Nat
        /\ Memory!Bytes(c) = Span(b, blk[b].size)
        /\ Memory!Footprint(c) = Footprint(b, blk[b].size)
        /\ c.readonly = blk[b].is_readonly
    BY <2>1, BlockOfLeaf
  <2>. HIDE DEF b
  <2>3. p \in Span(b, blk[b].size) /\ p + n - 1 \in Span(b, blk[b].size)
    BY <1>1, <1>6, <2>2
  <2>4. b = f
    BY <1>2, <2>1, <2>3 DEF Footprint
  <2>5. blk[b].size - (p - b) >= n
    BY <1>0, <2>2, <2>3 DEF Span
  <2> QED BY <2>1, <2>2, <2>4, <2>5
<1>7. ASSUME NEW c \in Blocks, Memory!Span(p, n) \subseteq Memory!Bytes(c),
             base \in Memory!Footprint(c)
      PROVE  lookup_allocated(p, n, base)
  <2>1. f \in DOMAIN blk /\ f # NULL /\ blk[f].size - (p - f) >= n
        /\ base \in Footprint(f, blk[f].size)
    BY <1>6, <1>7
  <2>2. g = f
    BY <1>3, <2>1
  <2> QED BY <1>4, <2>1, <2>2
<1>8. \A c \in Blocks : Memory!Span(p, n) \subseteq Memory!Bytes(c) => c.readonly = blk[f].is_readonly
  BY <1>6
<1> QED BY <1>5, <1>7, <1>8 DEF f

\* valid and valid_read of a region.
LEMMA RegionAnswers ==
  ASSUME BittreeAssumption, BittreeInv, NEW p \in Addr, NEW n \in Sizes, NEW base \in {p} \cup Bases
  PROVE  /\ eacsl_valid(p, n, base) <=> Abstract(Blocks)!valid(p, n, base)
         /\ eacsl_valid_read(p, n, base) <=> Abstract(Blocks)!valid_read(p, n, base)
<1>1. n \in Nat \ {0} /\ n # 0
  <2>1. n \in Nat \ {0}
    BY DEF BittreeAssumption
  <2> QED BY <2>1
<1>2. base \in Addr
  <2>1. CASE \E o \in Objects : base = o.base
    BY <2>1, ObjectPlace
  <2>2. CASE base \in HeapBases
    <3>1. base \in Nat \ {0} /\ HeapEnd \in Nat /\ base < HeapEnd
      BY <2>2 DEF BittreeAssumption
    <3>2. base \in Span(base, HeapEnd - base)
      BY <3>1 DEF Span
    <3>3. Span(base, HeapEnd - base) \in {Span(q, HeapEnd - q) : q \in HeapBases}
      BY <2>2
    <3> QED BY <3>2, <3>3 DEF Addr
  <2> QED BY <2>1, <2>2 DEF Bases
<1>3. /\ lookup_allocated(p, n, base) <=>
           \E c \in Blocks : /\ Memory!Span(p, n) \subseteq Memory!Bytes(c)
                             /\ base \in Memory!Footprint(c)
      /\ \A c \in Blocks : Memory!Span(p, n) \subseteq Memory!Bytes(c) =>
           c.readonly = blk[bt_find(p)].is_readonly
  BY <1>1, <1>2, RegionFound
<1>4. /\ Abstract(Blocks)!valid(p, n, base) <=>
           \/ n = 0
           \/ \E b \in Blocks : /\ Memory!Span(p, n) \subseteq Memory!Bytes(b)
                                /\ base \in Memory!Footprint(b)
                                /\ ~b.readonly
      /\ Abstract(Blocks)!valid_read(p, n, base) <=>
           \/ n = 0
           \/ \E b \in Blocks : /\ Memory!Span(p, n) \subseteq Memory!Bytes(b)
                                /\ base \in Memory!Footprint(b)
  BY RegionContracts, Zenon
<1>5. eacsl_valid(p, n, base) <=>
        n = 0 \/ (lookup_allocated(p, n, base) /\ ~blk[bt_find(p)].is_readonly)
  BY DEF eacsl_valid
<1>6. eacsl_valid_read(p, n, base) <=> n = 0 \/ lookup_allocated(p, n, base)
  BY DEF eacsl_valid_read
<1> QED BY <1>1, <1>3, <1>4, <1>5, <1>6

\* The predicates of an address.
LEMMA AddressAnswers ==
  ASSUME BittreeAssumption, LookupReturns = "leaf", BittreeInv, NEW p \in Addr
  PROVE  /\ eacsl_freeable(p) <=> Abstract(Blocks)!freeable(p)
         /\ Abstract(Blocks)!Holders(p) # {} =>
              /\ eacsl_base_addr(p) = Abstract(Blocks)!base_addr(p)
              /\ eacsl_block_length(p) = Abstract(Blocks)!block_length(p)
              /\ eacsl_offset(p) = Abstract(Blocks)!offset(p)
<1>. DEFINE H == {b \in Blocks : p \in Memory!Footprint(b)}
            d == CHOOSE b \in H : TRUE
<1>1. /\ Abstract(Blocks)!Holders(p) = H
      /\ Abstract(Blocks)!freeable(p) <=> \E b \in Blocks : b.heap /\ b.base = p
      /\ Abstract(Blocks)!base_addr(p) = d.base
      /\ Abstract(Blocks)!block_length(p) = d.size
      /\ Abstract(Blocks)!offset(p) = p - d.base
  BY AddressContracts, Zenon
<1>2. H # {} => d \in H
  OBVIOUS
<1>. HIDE DEF d
<1>3. eacsl_freeable(p) <=> Abstract(Blocks)!freeable(p)
  <2>1. CASE p \in DOMAIN blk
    <3>1. bt_lookup(p) = p /\ p # NULL
      BY <2>1, LookupIs, BlockOfLeaf
    <3>2. eacsl_freeable(p) <=> blk[p].is_freeable
      BY <3>1 DEF eacsl_freeable
    <3>3. blk[p].is_freeable <=> \E b \in Blocks : b.heap /\ b.base = p
      BY <2>1, BlockOfLeaf
    <3> QED BY <1>1, <3>2, <3>3
  <2>2. CASE p \notin DOMAIN blk
    <3>1. bt_lookup(p) = NULL
      BY <2>2, LookupIs
    <3>2. ~eacsl_freeable(p)
      BY <3>1 DEF eacsl_freeable
    <3>3. \A b \in Blocks : b.base # p
      BY <2>2, BlockOfLeaf
    <3> QED BY <1>1, <3>2, <3>3
  <2> QED BY <2>1, <2>2
<1>4. ASSUME H # {}
      PROVE  /\ eacsl_base_addr(p) = d.base
             /\ eacsl_block_length(p) = d.size
             /\ eacsl_offset(p) = p - d.base
  <2>1. d \in Blocks /\ p \in Memory!Footprint(d)
    BY <1>2, <1>4
  <2>2. d.base \in DOMAIN blk /\ d = Abs(d.base, blk[d.base])
    BY <2>1, BlockOfLeaf
  <2>3. p \in Footprint(d.base, blk[d.base].size) /\ d.size = blk[d.base].size
    BY <2>1, <2>2, BlockOfLeaf
  <2>4. bt_find(p) = d.base
    BY <2>2, <2>3, FindIs
  <2> QED BY <2>3, <2>4 DEF eacsl_base_addr, eacsl_block_length, eacsl_offset
<1> QED BY <1>1, <1>3, <1>4

\* The walks down the trie give to \valid, \valid_read, \freeable, \base_addr,
\* \block_length and \offset the answers of their contracts, for any region,
\* in a block, over its end or between two: pt_find never misses the block of
\* an address, and never takes another one for it.
THEOREM BittreeAnswers ==
  ASSUME BittreeAssumption, LookupReturns = "leaf"
  PROVE  Spec => []AnswersAgree
<1>1. BittreeInv => AnswersAgree
  <2> SUFFICES ASSUME BittreeInv PROVE AnswersAgree
    OBVIOUS
  <2>1. \A p \in Addr : \A n \in Sizes, base \in {p} \cup Bases :
          /\ eacsl_valid(p, n, base) <=> Abstract(Blocks)!valid(p, n, base)
          /\ eacsl_valid_read(p, n, base) <=> Abstract(Blocks)!valid_read(p, n, base)
    BY RegionAnswers, Zenon
  <2>2. \A p \in Addr :
          /\ eacsl_freeable(p) <=> Abstract(Blocks)!freeable(p)
          /\ Abstract(Blocks)!Holders(p) # {} =>
               /\ eacsl_base_addr(p) = Abstract(Blocks)!base_addr(p)
               /\ eacsl_block_length(p) = Abstract(Blocks)!block_length(p)
               /\ eacsl_offset(p) = Abstract(Blocks)!offset(p)
    BY AddressAnswers, Zenon
  <2> QED BY <2>1, <2>2, Zenon DEF AnswersAgree
<1> QED BY <1>1, BittreeIsWellFormed, PTL

-----------------------------------------------------------------------------
(* Initialization *)

\* The bits of a block are of its bytes: it depends on these alone.
LEMMA InitFrame ==
  ASSUME NEW b \in Nat, NEW r \in BtBlock, NEW wr, NEW wr2, InitOK(b, r, wr),
         wr \cap Span(b, r.size) \subseteq wr2
  PROVE  InitOK(b, r, wr2)
<1>1. r.size \in Nat /\ r.init_bytes \in Nat
  BY DEF BtBlock
<1>2. ASSUME r.init_bytes = r.size PROVE Span(b, r.size) \subseteq wr2
  BY <1>2 DEF InitOK
<1>3. ASSUME r.init_bytes # 0, r.init_bytes # r.size, NEW i \in r.bits
      PROVE  b + i \in wr2
  <2>1. i \in 0 .. r.size - 1 /\ b + i \in wr
    BY <1>3 DEF InitOK
  <2>2. b + i \in Span(b, r.size)
    BY <1>1, <2>1 DEF Span
  <2> QED BY <2>1, <2>2
<1>4. /\ r.init_bytes <= r.size
      /\ r.init_bytes # 0 /\ r.init_bytes # r.size =>
           r.bits \subseteq 0 .. r.size - 1 /\ Cardinality(r.bits) = r.init_bytes
  BY DEF InitOK
<1> QED BY <1>2, <1>3, <1>4 DEF InitOK

\* A set of all the bytes of a block is the block.
LEMMA AllBytes ==
  ASSUME NEW n \in Nat, NEW S \in SUBSET (0 .. n - 1)
  PROVE  /\ IsFiniteSet(S) /\ Cardinality(S) \in Nat /\ Cardinality(S) <= n
         /\ Cardinality(S) = n => S = 0 .. n - 1
<1>1. IsFiniteSet(0 .. n - 1) /\ Cardinality(0 .. n - 1) = n
  <2>1. 0 \in Int /\ n - 1 \in Int
    OBVIOUS
  <2>2. /\ IsFiniteSet(0 .. n - 1)
        /\ Cardinality(0 .. n - 1) = IF 0 > n - 1 THEN 0 ELSE n - 1 - 0 + 1
    BY <2>1, FS_Interval
  <2> QED BY <2>2
<1>. DEFINE T == 0 .. n - 1
<1>. HIDE DEF T
<1>2. IsFiniteSet(T) /\ S \in SUBSET T /\ Cardinality(T) = n
  BY <1>1 DEF T
<1>3. IsFiniteSet(S) /\ Cardinality(S) <= Cardinality(T) /\ (Cardinality(T) = Cardinality(S) => S = T)
  BY <1>2, FS_Subset
<1>4. Cardinality(S) \in Nat
  BY <1>3, FS_CardinalityType
<1> QED BY <1>2, <1>3, <1>4 DEF T

\* eacsl_initialize counts the bytes that were not marked before, so that the
\* count reaches the size when every byte is.
LEMMA InitializedInit ==
  ASSUME NEW b \in Nat, NEW r \in BtBlock, NEW wr, InitOK(b, r, wr),
         NEW from \in Nat, NEW n \in Nat \ {0}, from + n <= r.size
  PROVE  InitOK(b, Initialized(r, from, n), wr \cup Span(b + from, n))
<1>. DEFINE start == IF r.init_bytes = 0 THEN {} ELSE r.bits
            marked == from .. (from + n - 1)
            more == Cardinality(marked \ start)
            count == r.init_bytes + more
            s == Initialized(r, from, n)
            wr2 == wr \cup Span(b + from, n)
            bytes == 0 .. r.size - 1
<1>1. r.size \in Nat /\ r.init_bytes \in Nat /\ r.init_bytes <= r.size
  BY DEF BtBlock, InitOK
<1>2. s = IF r.init_bytes = r.size THEN r
             ELSE IF count = r.size
             THEN [r EXCEPT !.init_ptr = FALSE, !.bits = {}, !.init_bytes = count]
             ELSE [r EXCEPT !.init_ptr = TRUE, !.bits = start \cup marked, !.init_bytes = count]
  BY DEF Initialized
<1>3. CASE r.init_bytes = r.size
  <2>1. s = r
    BY <1>2, <1>3
  <2>. HIDE DEF s
  <2>2. InitOK(b, r, wr2)
    BY InitFrame
  <2> QED BY <2>1, <2>2 DEF s
<1>4. CASE r.init_bytes # r.size
  <2>1. start \in SUBSET bytes /\ marked \in SUBSET bytes /\ Cardinality(start) = r.init_bytes
    <3>1. CASE r.init_bytes = 0
      BY <1>1, <3>1, FS_EmptySet
    <3>2. CASE r.init_bytes # 0
      BY <1>1, <1>4, <3>2 DEF InitOK
    <3> QED BY <3>1, <3>2
  <2>2. \A i \in start \cup marked : b + i \in wr2
    <3>1. \A i \in start : b + i \in wr
      BY <1>4 DEF InitOK
    <3>2. \A i \in marked : b + i \in Span(b + from, n)
      BY DEF Span
    <3> QED BY <3>1, <3>2
  <2>. DEFINE new == marked \ start
              all == start \cup marked
  <2>. HIDE DEF marked, start, bytes
  <2>3. new \in SUBSET bytes /\ all \in SUBSET bytes /\ start \cup new = all /\ start \cap new = {}
    BY <2>1
  <2>4. IsFiniteSet(start) /\ IsFiniteSet(new) /\ more \in Nat
    BY <1>1, <2>1, <2>3, AllBytes DEF bytes
  <2>5. Cardinality(all) = r.init_bytes + more
    <3>1. Cardinality(start \cup new) = Cardinality(start) + Cardinality(new) - Cardinality(start \cap new)
      BY <2>4, FS_Union
    <3>2. Cardinality(start \cap new) = 0
      BY <2>3, FS_EmptySet
    <3>3. more = Cardinality(new) /\ Cardinality(start) = r.init_bytes
      BY <2>1
    <3>. HIDE DEF new, all, more
    <3>4. Cardinality(all) = Cardinality(start \cup new)
      BY <2>3, Zenon
    <3> QED BY <1>1, <2>4, <3>1, <3>2, <3>3, <3>4
  <2>. HIDE DEF new, all, more
  <2>6. count \in Nat /\ Cardinality(all) = count /\ count <= r.size
        /\ (count = r.size => all = bytes)
    BY <1>1, <2>3, <2>4, <2>5, AllBytes DEF bytes
  <2>. HIDE DEF count
  <2>7. CASE count = r.size
    <3>1. s.init_bytes = count /\ s.size = r.size
      BY <1>2, <1>4, <2>7 DEF BtBlock
    <3>2. Span(b, r.size) \subseteq wr2
      <4>1. ASSUME NEW x \in Span(b, r.size) PROVE x \in wr2
        <5>1. x - b \in bytes /\ x = b + (x - b)
          BY <1>1, <4>1 DEF Span, bytes
        <5>2. x - b \in all
          BY <2>6, <2>7, <5>1
        <5>3. b + (x - b) \in wr2
          BY <2>2, <5>2 DEF all
        <5> QED BY <5>1, <5>3
      <4> QED BY <4>1
    <3>. HIDE DEF s, wr2
    <3>3. InitOK(b, s, wr2)
      BY <1>1, <2>7, <3>1, <3>2 DEF InitOK
    <3> QED BY <3>3 DEF s, wr2
  <2>8. CASE count # r.size
    <3>1. s = [r EXCEPT !.init_ptr = TRUE, !.bits = all, !.init_bytes = count]
      BY <1>2, <1>4, <2>8 DEF all
    <3>2. s.init_bytes = count /\ s.size = r.size /\ s.bits = all
      BY <3>1 DEF BtBlock
    <3>3. \A i \in all : b + i \in wr2
      BY <2>2 DEF all
    <3>. HIDE DEF s, wr2
    <3>4. InitOK(b, s, wr2)
      BY <1>1, <2>3, <2>6, <2>8, <3>2, <3>3 DEF InitOK, bytes
    <3> QED BY <3>4 DEF s, wr2
  <2> QED BY <2>7, <2>8
<1> QED BY <1>3, <1>4

\* The bits that the init bytes of n bytes have room for.
LEMMA BitsNeeded ==
  ASSUME NEW n \in Nat, CHAR_BIT \in Nat \ {0}
  PROVE  needed_bytes(n) * CHAR_BIT \in Nat /\ n <= needed_bytes(n) * CHAR_BIT
<1>. DEFINE w == CHAR_BIT
            q == n \div w
            r == n % w
<1>1. q \in Nat /\ r \in 0 .. w - 1 /\ n = w * q + r
  BY DivMod
<1>2. needed_bytes(n) = IF r = 0 THEN q ELSE q + 1
  BY DEF needed_bytes
<1>. HIDE DEF q, r, w
<1>3. w \in Nat
  BY DEF w
<1>4. q * w = w * q /\ (q + 1) * w = w * q + w /\ w * q \in Nat
  BY <1>1, <1>3, Z3
<1>. DEFINE m == w * q
<1>. HIDE DEF m
<1>5. needed_bytes(n) * w = IF r = 0 THEN m ELSE m + w
  BY <1>2, <1>4 DEF m
<1>6. m \in Nat /\ n = m + r
  BY <1>1, <1>4 DEF m
<1>7. needed_bytes(n) * w \in Nat /\ n <= needed_bytes(n) * w
  BY <1>1, <1>3, <1>5, <1>6
<1> QED BY <1>7 DEF w

\* A block that grows, or that was marked wholly or not at all, keeps marks of
\* bytes that its new place has got from the old one.
LEMMA ResizedInit ==
  ASSUME BittreeAssumption, NEW q \in Nat, NEW n \in Nat \ {0}, NEW r \in BtBlock,
         IsFiniteSet(r.bits), NEW wr, NEW wr2, InitOK(q, r, wr),
         n >= r.size \/ r.init_bytes \in {0, r.size},
         r.init_bytes # 0 => wr \cap Span(q, r.size) \cap Span(q, n) \subseteq wr2
  PROVE  InitOK(q, Resized(r, n), wr2)
<1>. DEFINE full == r.init_bytes = r.size
            partly == r.init_bytes # 0 /\ ~full
            kept == {i \in r.bits : i < needed_bytes(n) * CHAR_BIT}
            count == Cardinality(kept)
            grown == CASE r.init_bytes = 0 -> r
                 [] r.init_bytes # 0 /\ full /\ n <= r.size -> [r EXCEPT !.init_bytes = n]
                 [] r.init_bytes # 0 /\ full /\ n > r.size ->
                      [r EXCEPT !.init_ptr = TRUE, !.bits = 0 .. (r.size - 1)]
                 [] partly /\ count \in {0, n} ->
                      [r EXCEPT !.init_ptr = FALSE, !.bits = {}, !.init_bytes = count]
                 [] OTHER -> [r EXCEPT !.bits = kept, !.init_bytes = count]
            s == Resized(r, n)
<1>1. r.size \in Nat /\ r.init_bytes \in Nat /\ r.init_bytes <= r.size
  BY DEF BtBlock, InitOK
<1>2. s = [grown EXCEPT !.size = n, !.is_freeable = TRUE]
  BY DEF Resized
<1>3. CASE r.init_bytes = 0
  <2>1. grown = r
    BY <1>3
  <2>2. s.init_bytes = 0 /\ s.size = n
    BY <1>2, <1>3, <2>1 DEF BtBlock
  <2>. HIDE DEF s
  <2>3. InitOK(q, s, wr2)
    BY <2>2 DEF InitOK
  <2> QED BY <2>3 DEF s
<1>4. CASE r.init_bytes # 0 /\ full /\ n <= r.size
  <2>1. grown = [r EXCEPT !.init_bytes = n]
    BY <1>1, <1>4
  <2>2. s.init_bytes = n /\ s.size = n
    BY <1>2, <2>1 DEF BtBlock
  <2>3. Span(q, n) \subseteq Span(q, r.size) /\ Span(q, r.size) \subseteq wr
    <3>1. Span(q, r.size) \subseteq wr
      BY <1>4 DEF InitOK
    <3>2. Span(q, n) \subseteq Span(q, r.size)
      BY <1>1, <1>4 DEF Span
    <3> QED BY <3>1, <3>2
  <2>4. Span(q, n) \subseteq wr2
    BY <1>4, <2>3
  <2>. HIDE DEF s
  <2>5. InitOK(q, s, wr2)
    BY <2>2, <2>4 DEF InitOK
  <2> QED BY <2>5 DEF s
<1>5. CASE r.init_bytes # 0 /\ full /\ n > r.size
  <2>. DEFINE all == 0 .. (r.size - 1)
  <2>1. grown = [r EXCEPT !.init_ptr = TRUE, !.bits = all]
    BY <1>1, <1>5
  <2>2. Cardinality(all) = r.size
    <3>1. 0 \in Int /\ r.size - 1 \in Int
      BY <1>1
    <3>2. Cardinality(0 .. r.size - 1) = IF 0 > r.size - 1 THEN 0 ELSE r.size - 1 - 0 + 1
      BY <3>1, FS_Interval
    <3> QED BY <1>1, <3>2
  <2>3. \A i \in all : i \in 0 .. n - 1 /\ q + i \in wr2
    <3>1. Span(q, r.size) \subseteq wr
      BY <1>5 DEF InitOK
    <3>2. \A i \in all : i \in 0 .. n - 1 /\ q + i \in Span(q, r.size) /\ q + i \in Span(q, n)
      BY <1>1, <1>5 DEF Span
    <3> QED BY <1>5, <3>1, <3>2
  <2>. HIDE DEF all
  <2>4. s.init_bytes = r.size /\ s.size = n /\ s.bits = all
    BY <1>2, <1>5, <2>1 DEF BtBlock
  <2>. HIDE DEF s
  <2>5. s.bits \subseteq 0 .. s.size - 1
    BY <2>3, <2>4
  <2>6. InitOK(q, s, wr2)
    BY <1>1, <1>5, <2>2, <2>3, <2>4, <2>5 DEF InitOK
  <2> QED BY <2>6 DEF s
<1>6. CASE partly
  <2>1. n >= r.size /\ r.init_bytes < r.size
    BY <1>1, <1>6
  <2>2. /\ r.bits \subseteq 0 .. r.size - 1 /\ Cardinality(r.bits) = r.init_bytes
        /\ \A i \in r.bits : q + i \in wr
    BY <1>6 DEF InitOK
  <2>3. kept = r.bits
    <3>1. needed_bytes(n) * CHAR_BIT \in Nat /\ n <= needed_bytes(n) * CHAR_BIT
      BY BitsNeeded DEF BittreeAssumption
    <3>. DEFINE m == needed_bytes(n) * CHAR_BIT
    <3>. HIDE DEF m
    <3>2. \A i \in r.bits : i < m
      BY <1>1, <2>1, <2>2, <3>1 DEF m
    <3> QED BY <3>2 DEF m
  <2>. HIDE DEF kept
  <2>4. count = r.init_bytes /\ count \notin {0, n}
    BY <1>1, <1>6, <2>1, <2>2, <2>3
  <2>. HIDE DEF count
  <2>5. grown = [r EXCEPT !.bits = kept, !.init_bytes = count]
    BY <1>1, <1>6, <2>4
  <2>6. s.init_bytes = count /\ s.size = n /\ s.bits = kept
    BY <1>2, <2>5 DEF BtBlock
  <2>7. \A i \in kept : i \in 0 .. n - 1 /\ q + i \in wr2
    <3>1. \A i \in kept : i \in 0 .. r.size - 1 /\ q + i \in wr
      BY <2>2, <2>3
    <3>2. \A i \in 0 .. r.size - 1 : i \in 0 .. n - 1 /\ q + i \in Span(q, r.size) /\ q + i \in Span(q, n)
      BY <1>1, <2>1 DEF Span
    <3>3. wr \cap Span(q, r.size) \cap Span(q, n) \subseteq wr2
      BY <1>6
    <3> QED BY <3>1, <3>2, <3>3
  <2>. HIDE DEF s
  <2>8. s.bits \subseteq 0 .. s.size - 1
    BY <2>6, <2>7
  <2>9. InitOK(q, s, wr2)
    BY <1>1, <2>1, <2>2, <2>3, <2>4, <2>6, <2>7, <2>8 DEF InitOK
  <2> QED BY <2>9 DEF s
<1> QED BY <1>1, <1>3, <1>4, <1>5, <1>6

\* Every block, when one of them changes and no byte of the others does.
LEMMA InitOthers ==
  ASSUME BittreeAssumption, BittreeInv, InitInv, NEW b \in DOMAIN blk, NEW wr2,
         written \cap Span(b, blk[b].size) \subseteq wr2
  PROVE  InitOK(b, blk[b], wr2)
<1>1. b \in Nat /\ blk[b] \in BtBlock /\ InitOK(b, blk[b], written)
  <2>1. BlockOK(b, blk[b])
    BY DEF BittreeInv, BlocksOK
  <2> QED BY <2>1, BlockPlace DEF InitInv
<1> QED BY <1>1, InitFrame

\* Blocks are apart: what one loses is of no other.
LEMMA OthersKeep ==
  ASSUME BittreeAssumption, BittreeInv, NEW p \in DOMAIN blk, NEW b \in DOMAIN blk, b # p
  PROVE  written \cap Span(b, blk[b].size) \subseteq written \ Span(p, blk[p].size)
<1>1. Footprint(b, blk[b].size) \cap Footprint(p, blk[p].size) = {}
  BY DEF BittreeInv, BlocksOK
<1> QED BY <1>1 DEF Footprint

\* A new block has nothing initialized.
LEMMA FreshInit ==
  ASSUME NEW b \in Nat, NEW n \in Nat, NEW wr
  PROVE  InitOK(b, bt_alloc_block(n), wr)
<1>. DEFINE r == bt_alloc_block(n)
<1>1. r.size = n /\ r.init_bytes = 0
  BY NewBlock
<1>2. n = 0 => Span(b, n) = {}
  BY DEF Span
<1>. HIDE DEF r
<1>3. InitOK(b, r, wr)
  BY <1>1, <1>2 DEF InitOK
<1> QED BY <1>3 DEF r

\* When blocks do not shrink partly written, what the bt_block structures say
\* of initialization stays true of the bytes that were written.
LEMMA InitStep ==
  ASSUME BittreeAssumption, LookupReturns = "leaf", ~ShrinksPartly,
         BittreeInv, WritableInv, InitInv, [Next]_vars
  PROVE  InitInv'
<1>. USE DEF InitInv
<1>0. \A b \in DOMAIN blk : b \in Nat /\ blk[b].size \in Nat /\ blk[b] \in BtBlock
  <2>1. \A b \in DOMAIN blk : BlockOK(b, blk[b])
    BY DEF BittreeInv, BlocksOK
  <2> QED BY <2>1, BlockPlace
<1>1. CASE UNCHANGED <<blk, written>>
  BY <1>1
<1>2. ASSUME NEW o \in Objects, eacsl_store_block(o) PROVE InitInv'
  <2>. DEFINE p == o.base
              r == bt_alloc_block(o.size)
  <2>1. p \in Nat /\ o.size \in Nat
    BY ObjectPlace
  <2>2. InitOK(p, r, written)
    BY <2>1, FreshInit
  <2>. HIDE DEF r
  <2>3. DOMAIN blk' = DOMAIN blk \cup {p} /\ \A b \in DOMAIN blk' : blk'[b] = IF b = p THEN r ELSE blk[b]
    <3>1. blk' = With(blk, p, r)
      BY <1>2 DEF eacsl_store_block, r
    <3> QED BY <3>1 DEF With
  <2>4. written' = written
    BY <1>2 DEF eacsl_store_block
  <2>. HIDE DEF p
  <2>5. ASSUME NEW b \in DOMAIN blk' PROVE InitOK(b, blk'[b], written')
    BY <2>2, <2>3, <2>4, <2>5
  <2> QED BY <2>5
<1>3. ASSUME NEW o \in Objects, eacsl_delete_block(o) PROVE InitInv'
  <2>. DEFINE p == o.base
  <2>1. p \in DOMAIN blk /\ blk[p].size = o.size
    BY <1>3, StoredBlock DEF eacsl_delete_block
  <2>2. bt_lookup(p) = p /\ p # NULL
    BY <2>1, LookupIs, BlockOfLeaf
  <2>3. blk' = Without(blk, {p}) /\ written' = written \ Span(p, blk[p].size)
    BY <1>3, <2>1, <2>2 DEF eacsl_delete_block
  <2>4. DOMAIN blk' = DOMAIN blk \ {p} /\ \A b \in DOMAIN blk' : blk'[b] = blk[b]
    BY <2>3 DEF Without
  <2>. HIDE DEF p
  <2>5. ASSUME NEW b \in DOMAIN blk' PROVE InitOK(b, blk'[b], written')
    <3>1. written \cap Span(b, blk[b].size) \subseteq written'
      BY <2>1, <2>3, <2>4, OthersKeep
    <3> QED BY <2>4, <3>1, InitOthers
  <2> QED BY <2>5
<1>4. ASSUME NEW o \in Objects, eacsl_store_block_duplicate(o) PROVE InitInv'
  <2>. DEFINE p == o.base
              r == bt_alloc_block(o.size)
  <2>1. p \in DOMAIN blk /\ blk[p].size = o.size /\ p \in Nat /\ o.size \in Nat
    BY <1>4, StoredBlock, ObjectPlace DEF eacsl_store_block_duplicate
  <2>2. blk' = [blk EXCEPT ![p] = r] /\ written' = written \ Span(p, blk[p].size)
    BY <1>4, <2>1 DEF eacsl_store_block_duplicate
  <2>3. InitOK(p, r, written')
    BY <2>1, FreshInit
  <2>. HIDE DEF p, r
  <2>4. DOMAIN blk' = DOMAIN blk /\ blk'[p] = r /\ \A b \in DOMAIN blk \ {p} : blk'[b] = blk[b]
    BY <2>1, <2>2
  <2>5. ASSUME NEW b \in DOMAIN blk' PROVE InitOK(b, blk'[b], written')
    <3>1. CASE b = p
      BY <2>3, <2>4, <3>1
    <3>2. CASE b # p
      <4>1. written \cap Span(b, blk[b].size) \subseteq written'
        BY <2>1, <2>2, <2>4, <3>2, OthersKeep
      <4> QED BY <2>4, <3>2, <4>1, InitOthers
    <3> QED BY <3>1, <3>2
  <2> QED BY <2>5
<1>5. ASSUME NEW p, NEW part \in Parts, eacsl_initialize(p, part) PROVE InitInv'
  <2>. DEFINE from == part[1]
              n == part[2]
              s == Initialized(blk[p], from, n)
  <2>1. /\ p \in DOMAIN blk /\ from \in Nat /\ n \in Nat \ {0}
        /\ from + n <= blk[p].size /\ blk' = [blk EXCEPT ![p] = s] /\ DOMAIN blk' = DOMAIN blk
        /\ written' = written \cup Span(p + from, n)
    BY <1>5, InitializeStep
  <2>2. InitOK(p, s, written')
    BY <1>0, <2>1, InitializedInit
  <2>. HIDE DEF s, from, n
  <2>3. blk'[p] = s /\ \A b \in DOMAIN blk \ {p} : blk'[b] = blk[b]
    BY <2>1
  <2>4. ASSUME NEW b \in DOMAIN blk' PROVE InitOK(b, blk'[b], written')
    <3>1. CASE b = p
      BY <2>2, <2>3, <3>1
    <3>2. CASE b # p
      <4>1. written \cap Span(b, blk[b].size) \subseteq written'
        BY <2>1
      <4> QED BY <2>1, <2>3, <3>2, <4>1, InitOthers
    <3> QED BY <3>1, <3>2
  <2> QED BY <2>4
<1>6. ASSUME NEW p, eacsl_full_init(p) PROVE InitInv'
  <2>1. /\ p \in DOMAIN blk /\ DOMAIN blk' = DOMAIN blk
        /\ blk'[p].size = blk[p].size /\ blk'[p].init_bytes = blk[p].size
        /\ \A b \in DOMAIN blk \ {p} : blk'[b] = blk[b]
        /\ written' = written \cup Span(p, blk[p].size)
    BY <1>6, FullInitStep
  <2>2. ASSUME NEW b \in DOMAIN blk' PROVE InitOK(b, blk'[b], written')
    <3>1. CASE b = p
      <4>1. /\ blk'[p].init_bytes = blk'[p].size /\ blk'[p].size = blk[p].size /\ blk[p].size \in Nat
            /\ Span(p, blk[p].size) \subseteq written'
        BY <1>0, <2>1
      <4>2. Span(p, blk'[p].size) \subseteq written' /\ blk'[p].size \in Nat
        BY <4>1
      <4> QED BY <3>1, <4>1, <4>2 DEF InitOK
    <3>2. CASE b # p
      <4>1. written \cap Span(b, blk[b].size) \subseteq written'
        BY <2>1
      <4> QED BY <2>1, <3>2, <4>1, InitOthers
    <3> QED BY <3>1, <3>2
  <2> QED BY <2>2
<1>7. ASSUME NEW p, eacsl_mark_readonly(p) PROVE InitInv'
  <2>1. /\ p \in DOMAIN blk /\ blk' = [blk EXCEPT ![p].is_readonly = TRUE] /\ DOMAIN blk' = DOMAIN blk
        /\ written' = written
    BY <1>7, ReadonlyStep
  <2>2. ASSUME NEW b \in DOMAIN blk' PROVE InitOK(b, blk'[b], written')
    <3>1. /\ blk'[b].size = blk[b].size /\ blk'[b].init_bytes = blk[b].init_bytes
          /\ blk'[b].bits = blk[b].bits
      BY <1>0, <2>1 DEF BtBlock
    <3>2. InitOK(b, blk[b], written)
      BY <2>1
    <3> QED BY <2>1, <3>1, <3>2 DEF InitOK
  <2> QED BY <2>2
<1>8. ASSUME NEW p \in Pointers, free(p) PROVE InitInv'
  <2>1. CASE UNCHANGED <<blk, written>>
    BY <2>1
  <2>2. CASE /\ p \in DOMAIN blk /\ DOMAIN blk' = DOMAIN blk \ {p}
             /\ \A b \in DOMAIN blk' : blk'[b] = blk[b]
             /\ written' = written \ Span(p, blk[p].size)
    <3>1. ASSUME NEW b \in DOMAIN blk' PROVE InitOK(b, blk'[b], written')
      <4>1. written \cap Span(b, blk[b].size) \subseteq written'
        BY <2>2, OthersKeep
      <4> QED BY <2>2, <4>1, InitOthers
    <3> QED BY <3>1
  <2> QED BY <1>8, <2>1, <2>2, FreeStep
<1>9. ASSUME NEW p \in HeapBases, NEW n \in Sizes, NEW zeroed \in BOOLEAN, malloc(p, n, zeroed)
      PROVE  InitInv'
  <2>1. MallocDoes(p, n, zeroed)
    BY <1>9, MallocStep
  <2>2. /\ n \in Nat \ {0} /\ DOMAIN blk' = DOMAIN blk \cup {p}
        /\ blk'[p].size = n /\ blk'[p].init_bytes = IF zeroed THEN n ELSE 0
        /\ \A b \in DOMAIN blk : b # p /\ blk'[b] = blk[b]
        /\ written' = IF zeroed THEN written \cup Span(p, n) ELSE written
    BY <2>1 DEF MallocDoes
  <2>3. ASSUME NEW b \in DOMAIN blk' PROVE InitOK(b, blk'[b], written')
    <3>1. CASE b = p
      <4>1. CASE zeroed
        <5>1. blk'[b].size = n /\ blk'[b].init_bytes = n /\ Span(b, n) \subseteq written'
          BY <2>2, <3>1, <4>1
        <5>2. Span(b, blk'[b].size) \subseteq written' /\ blk'[b].init_bytes <= blk'[b].size
          BY <2>2, <5>1
        <5> QED BY <5>1, <5>2 DEF InitOK
      <4>2. CASE ~zeroed
        <5>1. blk'[b].size = n /\ blk'[b].init_bytes = 0
          BY <2>2, <3>1, <4>2
        <5> QED BY <2>2, <5>1 DEF InitOK
      <4> QED BY <4>1, <4>2
    <3>2. CASE b # p
      <4>1. b \in DOMAIN blk /\ written \cap Span(b, blk[b].size) \subseteq written'
        BY <2>2, <2>3, <3>2
      <4> QED BY <2>2, <4>1, InitOthers
    <3> QED BY <3>1, <3>2
  <2> QED BY <2>3
<1>10. ASSUME NEW p \in Pointers, NEW q \in HeapBases, NEW n \in Sizes, realloc(p, q, n),
              HeapWritable(blk)
       PROVE  InitInv'
  <2>. DEFINE r == IF q = p THEN blk[p] ELSE bt_clean_block_init(blk[p])
              moved == {a \in Span(q, n) : a - q + p \in written \cap Span(p, blk[p].size)}
  <2>1. /\ p \in DOMAIN blk /\ n \in Nat \ {0} /\ q \in Nat
        /\ n >= blk[p].size \/ blk[p].init_bytes \in {0, blk[p].size}
        /\ DOMAIN blk' = (DOMAIN blk \ {p}) \cup {q} /\ blk'[q] = Resized(r, n)
        /\ \A b \in DOMAIN blk \ {p} : b # q /\ blk'[b] = blk[b]
        /\ written' = (written \ Span(p, blk[p].size)) \cup moved
    BY <1>10, ReallocStep
  <2>2. p \in Nat /\ blk[p].size \in Nat /\ InitOK(p, blk[p], written)
    BY <1>0, <2>1
  <2>3. /\ blk[p] \in BtBlock /\ IsFiniteSet(blk[p].bits)
    <3>1. BlockOK(p, blk[p])
      BY <2>1 DEF BittreeInv, BlocksOK
    <3> QED BY <3>1, BlockPlace
  <2>4. /\ r \in BtBlock /\ IsFiniteSet(r.bits) /\ InitOK(q, r, written)
        /\ n >= r.size \/ r.init_bytes \in {0, r.size}
        /\ r.init_bytes # 0 => written \cap Span(q, r.size) \cap Span(q, n) \subseteq written'
    <3>1. CASE q = p
      <4>1. r = blk[p]
        BY <3>1
      <4>2. written \cap Span(q, r.size) \cap Span(q, n) \subseteq moved
        BY <2>1, <2>2, <3>1, <4>1 DEF Span
      <4>. HIDE DEF r, moved
      <4> QED BY <2>1, <2>2, <2>3, <3>1, <4>1, <4>2
    <3>2. CASE q # p
      <4>. DEFINE cleaned == bt_clean_block_init(blk[p])
      <4>1. /\ cleaned \in BtBlock /\ cleaned.bits = {} /\ cleaned.init_bytes = 0
            /\ cleaned.size = blk[p].size
        BY <2>3 DEF bt_clean_block_init, BtBlock
      <4>2. blk[p].size = 0 => Span(q, blk[p].size) = {}
        BY <2>1 DEF Span
      <4>. HIDE DEF cleaned
      <4>3. InitOK(q, cleaned, written)
        BY <2>2, <4>1, <4>2 DEF InitOK
      <4>4. r = cleaned
        BY <3>2 DEF cleaned
      <4>. HIDE DEF r
      <4> QED BY <4>1, <4>3, <4>4, FS_EmptySet
    <3> QED BY <3>1, <3>2
  <2>. HIDE DEF r
  <2>5. InitOK(q, Resized(r, n), written')
    BY <2>1, <2>4, ResizedInit
  <2>6. written \ Span(p, blk[p].size) \subseteq written'
    BY <2>1
  <2>. HIDE DEF moved
  <2>7. ASSUME NEW b \in DOMAIN blk' PROVE InitOK(b, blk'[b], written')
    <3>1. CASE b = q
      BY <2>1, <2>5, <3>1
    <3>2. CASE b # q
      <4>1. b \in DOMAIN blk /\ b # p /\ blk'[b] = blk[b]
        BY <2>1, <2>7, <3>2
      <4>2. written \cap Span(b, blk[b].size) \subseteq written'
        BY <2>1, <2>6, <4>1, OthersKeep
      <4> QED BY <4>1, <4>2, InitOthers
    <3> QED BY <3>1, <3>2
  <2> QED BY <2>7
<1>11. ASSUME NEW p \in Pointers, free_invalid(p) \/ realloc_invalid(p) PROVE InitInv'
  BY <1>1, <1>11, FreeInvalidStep, InvalidStep
<1>12. ASSUME UNCHANGED vars PROVE InitInv'
  BY <1>1, <1>12 DEF vars
<1>. HIDE DEF InitInv
<1>13. Next => HeapWritable(blk)
  BY DEF Next, WritableInv
<1> QED BY <1>13, <1>2, <1>3, <1>4, <1>5, <1>6, <1>7, <1>8, <1>9, <1>10, <1>11, <1>12 DEF Next

\* A region of a block that is said to be initialized was written.
LEMMA RegionWritten ==
  ASSUME BittreeAssumption, BittreeInv, InitInv, NEW p \in Addr, NEW n \in Sizes,
         InBlock(p, n), eacsl_initialized(p, n)
  PROVE  Span(p, n) \subseteq written
<1>1. PICK b \in DOMAIN blk : b <= p /\ p + n <= b + blk[b].size
  BY DEF InBlock
<1>2. p \in Nat /\ n \in Nat \ {0} /\ b \in Nat /\ blk[b].size \in Nat
  <2>1. p \in Nat
    BY AddrsAreWords
  <2>2. n \in Nat \ {0}
    BY DEF BittreeAssumption
  <2> QED BY <2>1, <2>2, BlockOfLeaf
<1>3. p \in Footprint(b, blk[b].size)
  BY <1>1, <1>2 DEF Footprint, Span
<1>4. bt_find(p) = b
  BY <1>3, FindIs
<1>. DEFINE r == blk[b]
<1>5. /\ r.init_bytes # 0
      /\ r.init_bytes = r.size \/ (p - b) .. (p - b + n - 1) \subseteq r.bits
  BY <1>4 DEF eacsl_initialized
<1>6. InitOK(b, r, written)
  BY DEF InitInv
<1>7. CASE r.init_bytes = r.size
  <2>1. Span(b, r.size) \subseteq written
    BY <1>6, <1>7 DEF InitOK
  <2>2. Span(p, n) \subseteq Span(b, r.size)
    BY <1>1, <1>2 DEF Span
  <2> QED BY <2>1, <2>2
<1>8. CASE r.init_bytes # r.size
  <2>1. /\ (p - b) .. (p - b + n - 1) \subseteq r.bits
        /\ \A i \in r.bits : b + i \in written
    BY <1>5, <1>6, <1>8 DEF InitOK
  <2>2. ASSUME NEW x \in Span(p, n) PROVE x \in written
    <3>1. x - b \in (p - b) .. (p - b + n - 1) /\ b + (x - b) = x
      BY <1>2, <2>2 DEF Span
    <3>2. b + (x - b) \in written
      BY <2>1, <3>1
    <3> QED BY <3>1, <3>2
  <2> QED BY <2>2
<1> QED BY <1>7, <1>8

\* What the bittree says to be initialized, in part of a block or in all of it,
\* was written by the program or kept by realloc, byte for byte: neither the
\* bits, nor their count, nor the two special values of the count outlive the
\* bytes they stand for.  That is where no block shrinks partly written: there
\* the bits of the last byte kept are counted (findings).
THEOREM BittreeInitialized ==
  ASSUME BittreeAssumption, LookupReturns = "leaf", ~ShrinksPartly
  PROVE  Spec => []OnlyWrittenIsInitialized
<1>1. Init => BittreeInv /\ WritableInv /\ InitInv
  BY BittreeInit
<1>2. BittreeInv /\ WritableInv /\ InitInv /\ [Next]_vars
        => BittreeInv' /\ WritableInv' /\ InitInv'
  BY BittreeStep, InitStep
<1>3. BittreeInv /\ InitInv => OnlyWrittenIsInitialized
  <2> SUFFICES ASSUME BittreeInv, InitInv PROVE OnlyWrittenIsInitialized
    OBVIOUS
  <2>1. ASSUME NEW p \in Addr, NEW n \in Sizes, InBlock(p, n), eacsl_initialized(p, n)
        PROVE  Abstract(Blocks)!initialized(p, n)
    <3>1. Span(p, n) \subseteq written
      BY <2>1, RegionWritten
    <3>2. Abstract(Blocks)!initialized(p, n) <=> Span(p, n) \subseteq written
      BY Zenon DEF Abstract!initialized, Abstract!Span, Span
    <3> QED BY <3>1, <3>2
  <2>2. \A p \in Addr, n \in Sizes :
          InBlock(p, n) /\ eacsl_initialized(p, n) => Abstract(Blocks)!initialized(p, n)
    BY <2>1, Zenon
  <2> QED BY <2>2, Zenon DEF OnlyWrittenIsInitialized
<1> QED BY <1>1, <1>2, <1>3, PTL DEF Spec

-----------------------------------------------------------------------------
(* The counters of the heap *)

\* Induction on the subsets of a finite set, of which Q has the good ones.
LEMMA SubsetInduction ==
  ASSUME NEW S, IsFiniteSet(S), NEW Q, {} \in Q,
         \A s \in SUBSET S : s # {} /\ (\A x \in s : s \ {x} \in Q) => s \in Q
  PROVE  \A s \in SUBSET S : s \in Q
<1>. DEFINE bad == {s \in SUBSET S : s \notin Q}
            sizes == {Cardinality(s) : s \in bad}
<1>1. \A s \in SUBSET S : IsFiniteSet(s) /\ Cardinality(s) \in Nat
  BY FS_Subset, FS_CardinalityType
<1>2. ASSUME bad # {} PROVE FALSE
  <2>1. sizes \in SUBSET Nat /\ sizes # {}
    BY <1>1, <1>2
  <2>2. PICK k \in sizes : \A j \in sizes : k <= j
    BY <2>1, NatMinimum
  <2>3. PICK s \in bad : k = Cardinality(s)
    BY <2>2
  <2>4. PICK x \in s : s \ {x} \notin Q
    OBVIOUS
  <2>5. s \ {x} \in SUBSET S /\ s \ {x} \notin Q
    BY <2>4
  <2>6. Cardinality(s \ {x}) = Cardinality(s) - 1 /\ Cardinality(s \ {x}) \in sizes
    BY <1>1, <2>4, <2>5, FS_RemoveElement
  <2>. HIDE DEF sizes
  <2>7. Cardinality(s) <= Cardinality(s) - 1 /\ Cardinality(s) \in Nat
    BY <1>1, <2>2, <2>3, <2>6
  <2> QED BY <2>7
<1> QED BY <1>2

\* The bytes of the blocks of H, each with its number in its block.
Row(b) == {b} \X (0 .. b.size - 1)
Cells(H) == UNION {Row(b) : b \in H}
Weight(H) == Cardinality(Cells(H))

\* A block has as many cells as bytes.
LEMMA RowIs ==
  ASSUME NEW b, b.size \in Nat
  PROVE  IsFiniteSet(Row(b)) /\ Cardinality(Row(b)) = b.size
<1>. DEFINE n == b.size
            I == 0 .. n - 1
            f == [i \in I |-> <<b, i>>]
<1>1. n \in Nat
  OBVIOUS
<1>. HIDE DEF n
<1>2. IsFiniteSet(I) /\ Cardinality(I) = n
  BY <1>1, FS_Interval
<1>3. f \in Bijection(I, {b} \X I)
  BY DEF Bijection, Injection, IsInjective, Surjection
<1>4. IsFiniteSet({b} \X I) /\ Cardinality({b} \X I) = n
  BY <1>2, <1>3, FS_Bijection DEF ExistsBijection
<1> QED BY <1>4 DEF Row, n

\* A block more, a block less.
LEMMA CellsOfOneMore ==
  ASSUME NEW H, NEW b \in H, b.size \in Nat, IsFiniteSet(Cells(H \ {b}))
  PROVE  IsFiniteSet(Cells(H)) /\ Weight(H) = b.size + Weight(H \ {b})
<1>1. Cells(H) = Cells(H \ {b}) \cup Row(b) /\ Cells(H \ {b}) \cap Row(b) = {}
  BY DEF Cells, Row
<1>2. IsFiniteSet(Row(b)) /\ Cardinality(Row(b)) = b.size
  BY RowIs
<1>. DEFINE C == Cells(H \ {b})
<1>3. /\ IsFiniteSet(C \cup Row(b))
      /\ Cardinality(C \cup Row(b))
         = Cardinality(C) + Cardinality(Row(b)) - Cardinality(C \cap Row(b))
  BY <1>2, FS_Union
<1>4. Cardinality(C) \in Nat /\ Cardinality({}) = 0
  BY FS_CardinalityType, FS_EmptySet
<1>5. Cells(H) = C \cup Row(b) /\ C \cap Row(b) = {}
  BY <1>1
<1>. DEFINE n == b.size
<1>. HIDE DEF C, n
<1>6. IsFiniteSet(Cells(H)) /\ Cardinality(Cells(H)) = n + Cardinality(C)
  <2>1. Cardinality(C \cap Row(b)) = 0 /\ Cardinality(Row(b)) = n /\ n \in Nat
    BY <1>2, <1>4, <1>5 DEF n
  <2>2. Cardinality(Cells(H)) = Cardinality(C) + n - 0
    BY <1>3, <1>5, <2>1, Zenon
  <2> QED BY <1>3, <1>4, <1>5, <2>1, <2>2
<1> QED BY <1>6 DEF Weight, C, n

\* The weight of a finite set of blocks: one of them, and the rest.
LEMMA Weights ==
  ASSUME NEW H, IsFiniteSet(H), \A b \in H : b.size \in Nat
  PROVE  /\ IsFiniteSet(Cells(H)) /\ Weight(H) \in Nat /\ Weight({}) = 0
         /\ \A b \in H : Weight(H) = b.size + Weight(H \ {b})
<1>. DEFINE Q == {s \in SUBSET H : IsFiniteSet(Cells(s))}
<1>1. Cells({}) = {} /\ Weight({}) = 0
  BY FS_EmptySet DEF Cells, Weight
<1>2. {} \in Q
  BY <1>1, FS_EmptySet
<1>3. ASSUME NEW s \in SUBSET H, s # {}, \A x \in s : s \ {x} \in Q PROVE s \in Q
  BY <1>3, CellsOfOneMore
<1>. HIDE DEF Q
<1>4. \A s \in SUBSET H : s \in Q
  BY <1>2, <1>3, SubsetInduction
<1>5. \A s \in SUBSET H : IsFiniteSet(Cells(s))
  BY <1>4 DEF Q
<1>6. Weight(H) \in Nat
  BY <1>5, FS_CardinalityType DEF Weight
<1>7. ASSUME NEW b \in H PROVE Weight(H) = b.size + Weight(H \ {b})
  BY <1>5, CellsOfOneMore
<1> QED BY <1>1, <1>5, <1>6, <1>7

\* The blocks of the heap among those of the memory, and the counters of them.
HeapPart(B) == {b \in B : b.heap}

HeapCounted(h, B) ==
  LET H == HeapPart(B) IN
  /\ IsFiniteSet(H) /\ \A b \in H : b.size \in Nat \ {0}
  /\ h = [size |-> Weight(H), blocks |-> Cardinality(H)]

\* A block that is put on the heap is counted in.
LEMMA CountedIn ==
  ASSUME NEW h, NEW B, HeapCounted(h, B), NEW c, c \notin B, c.heap, c.size \in Nat \ {0}
  PROVE  HeapCounted(update_heap_allocation(h, c.size), B \cup {c})
<1>. DEFINE H == HeapPart(B)
            K == HeapPart(B \cup {c})
            n == c.size
<1>1. K = H \cup {c} /\ c \notin H /\ K \ {c} = H
  BY DEF HeapPart
<1>2. /\ IsFiniteSet(H) /\ \A b \in H : b.size \in Nat \ {0}
      /\ h = [size |-> Weight(H), blocks |-> Cardinality(H)]
  BY DEF HeapCounted
<1>. HIDE DEF H, K
<1>3. IsFiniteSet(K) /\ Cardinality(K) = Cardinality(H) + 1 /\ Cardinality(H) \in Nat
  BY <1>1, <1>2, FS_AddElement, FS_CardinalityType
<1>4. \A b \in K : b.size \in Nat \ {0} /\ b.size \in Nat
  BY <1>1, <1>2
<1>5. Weight(H) \in Nat
  BY <1>2, Weights
<1>6. \A b \in K : Weight(K) = b.size + Weight(K \ {b})
  BY <1>3, <1>4, Weights
<1>7. Weight(K) = n + Weight(H) /\ n \in Nat \ {0}
  BY <1>1, <1>6
<1>8. h.size = Weight(H) /\ h.blocks = Cardinality(H)
  BY <1>2
<1>. HIDE DEF n
<1>9. update_heap_allocation(h, n) = [size |-> h.size + n, blocks |-> h.blocks + 1]
  BY <1>7 DEF update_heap_allocation
<1>10. update_heap_allocation(h, n) = [size |-> Weight(K), blocks |-> Cardinality(K)]
  BY <1>3, <1>5, <1>7, <1>8, <1>9
<1> QED BY <1>3, <1>4, <1>10 DEF HeapCounted, K, n

\* A block that is freed is counted out.
LEMMA CountedOut ==
  ASSUME NEW h, NEW B, HeapCounted(h, B), NEW c \in B, c.heap
  PROVE  HeapCounted(update_heap_allocation(h, -c.size), B \ {c})
<1>. DEFINE H == HeapPart(B)
            K == HeapPart(B \ {c})
            n == c.size
<1>1. K = H \ {c} /\ c \in H
  BY DEF HeapPart
<1>2. /\ IsFiniteSet(H) /\ \A b \in H : b.size \in Nat \ {0}
      /\ h = [size |-> Weight(H), blocks |-> Cardinality(H)]
  BY DEF HeapCounted
<1>. HIDE DEF H, K
<1>3. IsFiniteSet(K) /\ Cardinality(K) = Cardinality(H) - 1 /\ Cardinality(H) \in Nat
  BY <1>1, <1>2, FS_RemoveElement, FS_CardinalityType
<1>4. \A b \in K : b.size \in Nat \ {0} /\ b.size \in Nat
  BY <1>1, <1>2
<1>5. \A b \in H : Weight(H) = b.size + Weight(H \ {b})
  BY <1>2, Weights
<1>6. Weight(K) \in Nat
  BY <1>3, <1>4, Weights
<1>7. Weight(H) = n + Weight(K) /\ n \in Nat \ {0}
  BY <1>1, <1>2, <1>5
<1>8. h.size = Weight(H) /\ h.blocks = Cardinality(H)
  BY <1>2
<1>. HIDE DEF n
<1>9. update_heap_allocation(h, -n) = [size |-> h.size + (-n), blocks |-> h.blocks - 1]
  BY <1>7 DEF update_heap_allocation
<1>10. update_heap_allocation(h, -n) = [size |-> Weight(K), blocks |-> Cardinality(K)]
  BY <1>3, <1>6, <1>7, <1>8, <1>9
<1> QED BY <1>3, <1>4, <1>10 DEF HeapCounted, K, n

\* The order in which realloc counts does not matter.
LEMMA CountedThrough ==
  ASSUME NEW h, NEW B, HeapCounted(h, B), NEW c \in B, c.heap, NEW n \in Nat \ {0}
  PROVE  update_heap_allocation(update_heap_allocation(h, n), -c.size)
         = update_heap_allocation(update_heap_allocation(h, -c.size), n)
<1>. DEFINE H == HeapPart(B)
            m == c.size
<1>1. /\ IsFiniteSet(H) /\ \A b \in H : b.size \in Nat \ {0}
      /\ h = [size |-> Weight(H), blocks |-> Cardinality(H)] /\ c \in H
  BY DEF HeapCounted, HeapPart
<1>. HIDE DEF H
<1>2. h.size \in Nat /\ h.blocks \in Nat
  BY <1>1, Weights, FS_CardinalityType
<1>3. m \in Nat \ {0}
  BY <1>1
<1>. HIDE DEF m
<1>4. /\ update_heap_allocation(h, n) = [size |-> h.size + n, blocks |-> h.blocks + 1]
      /\ update_heap_allocation(h, -m) = [size |-> h.size + (-m), blocks |-> h.blocks - 1]
  BY <1>3 DEF update_heap_allocation
<1>5. /\ update_heap_allocation([size |-> h.size + n, blocks |-> h.blocks + 1], -m)
         = [size |-> h.size + n + (-m), blocks |-> h.blocks + 1 - 1]
      /\ update_heap_allocation([size |-> h.size + (-m), blocks |-> h.blocks - 1], n)
         = [size |-> h.size + (-m) + n, blocks |-> h.blocks - 1 + 1]
  BY <1>2, <1>3 DEF update_heap_allocation
<1>6. h.size + n + (-m) = h.size + (-m) + n /\ h.blocks + 1 - 1 = h.blocks - 1 + 1
  BY <1>2, <1>3
<1>7. /\ update_heap_allocation(update_heap_allocation(h, n), -m)
         = [size |-> h.size + n + (-m), blocks |-> h.blocks + 1 - 1]
      /\ update_heap_allocation(update_heap_allocation(h, -m), n)
         = [size |-> h.size + (-m) + n, blocks |-> h.blocks - 1 + 1]
  <2>. DEFINE u(k, i) == update_heap_allocation(k, i)
              up == [size |-> h.size + n, blocks |-> h.blocks + 1]
              down == [size |-> h.size + (-m), blocks |-> h.blocks - 1]
  <2>1. /\ u(up, -m) = [size |-> h.size + n + (-m), blocks |-> h.blocks + 1 - 1]
        /\ u(down, n) = [size |-> h.size + (-m) + n, blocks |-> h.blocks - 1 + 1]
    BY <1>5
  <2>2. u(h, n) = up /\ u(h, -m) = down
    BY <1>4
  <2>. HIDE DEF u, up, down
  <2>3. u(u(h, n), -m) = u(up, -m) /\ u(u(h, -m), n) = u(down, n)
    BY <2>2
  <2>4. /\ u(u(h, n), -m) = [size |-> h.size + n + (-m), blocks |-> h.blocks + 1 - 1]
        /\ u(u(h, -m), n) = [size |-> h.size + (-m) + n, blocks |-> h.blocks - 1 + 1]
    BY <2>1, <2>3, Zenon
  <2> QED BY <2>4 DEF u
<1> QED BY <1>6, <1>7 DEF m

\* What update_heap_allocation takes for a block that is not on the heap.
HeapCountedLess(h, B, m) ==
  LET H == HeapPart(B) IN
  /\ IsFiniteSet(H) /\ \A b \in H : b.size \in Nat \ {0}
  /\ h = [size |-> Weight(H) - m, blocks |-> Cardinality(H) - IF m > 0 THEN 1 ELSE 0]

LEMMA CountedLess ==
  ASSUME NEW h, NEW B, HeapCounted(h, B), NEW m \in Nat
  PROVE  HeapCountedLess(update_heap_allocation(h, -m), B, m)
<1>. DEFINE H == HeapPart(B)
<1>1. /\ IsFiniteSet(H) /\ \A b \in H : b.size \in Nat \ {0}
      /\ h = [size |-> Weight(H), blocks |-> Cardinality(H)]
  BY DEF HeapCounted
<1>. HIDE DEF H
<1>2. Weight(H) \in Nat /\ Cardinality(H) \in Nat
  BY <1>1, Weights, FS_CardinalityType
<1>3. h.size = Weight(H) /\ h.blocks = Cardinality(H)
  BY <1>1
<1>4. update_heap_allocation(h, -m)
      = [size |-> Weight(H) - m, blocks |-> Cardinality(H) - IF m > 0 THEN 1 ELSE 0]
  <2>1. Weight(H) + (-m) = Weight(H) - m
    BY <1>2
  <2>2. CASE m = 0
    BY <1>2, <1>3, <2>2 DEF update_heap_allocation
  <2>3. CASE m > 0
    <3>1. -m < 0 /\ ~(-m > 0)
      BY <2>3
    <3> QED BY <1>2, <1>3, <2>1, <2>3, <3>1 DEF update_heap_allocation
  <2> QED BY <2>2, <2>3
<1> QED BY <1>1, <1>4 DEF HeapCountedLess, H

\* A fold of + over S adds the sizes of its blocks, in the order that CHOOSE makes.
SumFrom(S, block, g) ==
  [s \in SUBSET S |->
     IF s = {} THEN 0
     ELSE block[CHOOSE x \in s : TRUE].size + g[s \ {CHOOSE x \in s : TRUE}]]

BlocksAt(abs, s) == {abs[x] : x \in s}

Weighing(S, abs) == [s \in SUBSET S |-> Weight(BlocksAt(abs, s))]

SumsToWeight(S, block, abs) ==
  /\ Cardinality(BlocksAt(abs, S)) = Cardinality(S)
  /\ Weighing(S, abs) = SumFrom(S, block, Weighing(S, abs))
  /\ \A g : g = SumFrom(S, block, g) => g[S] = Weight(BlocksAt(abs, S))

\* That fold gives the weight of the blocks, which have one element of S each.
LEMMA SumsAreWeights ==
  ASSUME NEW S, IsFiniteSet(S), NEW block, NEW abs,
         \A x \in S : block[x].size = abs[x].size /\ abs[x].size \in Nat,
         \A x, y \in S : abs[x] = abs[y] => x = y
  PROVE  SumsToWeight(S, block, abs)
<1>. DEFINE W == [s \in SUBSET S |-> Weight(BlocksAt(abs, s))]
<1>1. ASSUME NEW s \in SUBSET S
      PROVE  IsFiniteSet(BlocksAt(abs, s)) /\ Cardinality(BlocksAt(abs, s)) = Cardinality(s)
  <2>. DEFINE f == [x \in s |-> abs[x]]
  <2>1. IsFiniteSet(s)
    BY FS_Subset
  <2>2. f \in Bijection(s, BlocksAt(abs, s))
    BY DEF Bijection, Injection, IsInjective, Surjection, BlocksAt
  <2> QED BY <2>1, <2>2, FS_Bijection DEF ExistsBijection
<1>2. ASSUME NEW s \in SUBSET S, s # {}
      PROVE  LET x == CHOOSE y \in s : TRUE IN
             x \in s /\ Weight(BlocksAt(abs, s)) = block[x].size + Weight(BlocksAt(abs, s \ {x}))
  <2>. DEFINE x == CHOOSE y \in s : TRUE
              H == BlocksAt(abs, s)
  <2>1. x \in s
    BY <1>2
  <2>. HIDE DEF x
  <2>2. BlocksAt(abs, s \ {x}) = H \ {abs[x]} /\ abs[x] \in H
    BY <2>1 DEF BlocksAt
  <2>3. IsFiniteSet(H) /\ \A b \in H : b.size \in Nat
    BY <1>1 DEF BlocksAt
  <2>. HIDE DEF H
  <2>4. Weight(H) = abs[x].size + Weight(H \ {abs[x]})
    BY <2>2, <2>3, Weights
  <2> QED BY <2>1, <2>2, <2>4 DEF x, H
<1>3. Weight(BlocksAt(abs, {})) = 0
  <2>1. BlocksAt(abs, {}) = {}
    BY DEF BlocksAt
  <2> QED BY <2>1, FS_EmptySet, Weights
<1>4. W = SumFrom(S, block, W)
  <2>1. ASSUME NEW s \in SUBSET S
        PROVE  W[s] = IF s = {} THEN 0
                      ELSE block[CHOOSE x \in s : TRUE].size + W[s \ {CHOOSE x \in s : TRUE}]
    BY <1>2, <1>3
  <2> QED BY <2>1, Zenon DEF SumFrom
<1>5. ASSUME NEW g, g = SumFrom(S, block, g) PROVE g[S] = Weight(BlocksAt(abs, S))
  <2>. DEFINE Q == {s \in SUBSET S : g[s] = Weight(BlocksAt(abs, s))}
  <2>1. ASSUME NEW s \in SUBSET S
        PROVE  g[s] = IF s = {} THEN 0
                      ELSE block[CHOOSE x \in s : TRUE].size + g[s \ {CHOOSE x \in s : TRUE}]
    BY <1>5, Zenon DEF SumFrom
  <2>2. {} \in Q
    BY <1>3, <2>1
  <2>3. ASSUME NEW s \in SUBSET S, s # {}, \A y \in s : s \ {y} \in Q PROVE s \in Q
    <3>. DEFINE z == CHOOSE y \in s : TRUE
    <3>1. z \in s /\ Weight(BlocksAt(abs, s)) = block[z].size + Weight(BlocksAt(abs, s \ {z}))
      BY <1>2, <2>3
    <3>2. g[s] = block[z].size + g[s \ {z}]
      BY <2>1, <2>3
    <3>3. g[s \ {z}] = Weight(BlocksAt(abs, s \ {z}))
      BY <2>3, <3>1
    <3> QED BY <3>1, <3>2, <3>3
  <2>. HIDE DEF Q
  <2>4. \A s \in SUBSET S : s \in Q
    BY <2>2, <2>3, SubsetInduction
  <2> QED BY <2>4 DEF Q
<1>6. W = Weighing(S, abs)
  BY DEF Weighing
<1>7. Cardinality(BlocksAt(abs, S)) = Cardinality(S)
  BY <1>1
<1>. HIDE DEF W
<1> QED BY <1>4, <1>5, <1>6, <1>7 DEF SumsToWeight

\* The calls on variables, and those that write, leave the heap as it is.
OffHeap(b) ==
  \/ Memory!Store(b) \/ Memory!Delete(b) \/ Memory!StoreAgain(b) \/ Memory!MarkReadonly(b)
  \/ \E p \in Memory!Bytes(b), n \in 1 .. b.size : Memory!Initialize(b, p, n)

\* They do not change the part of the heap.
LEMMA OffHeapKeeps ==
  ASSUME NEW b, OffHeap(b), UNCHANGED heap, HeapCounted(heap, Blocks)
  PROVE  HeapCounted(heap, Blocks)'
<1>1. HeapPart(Blocks') = HeapPart(Blocks)
  <2>1. CASE Memory!Store(b)
    BY <2>1 DEF Memory!Store, HeapPart
  <2>2. CASE Memory!Delete(b)
    BY <2>2 DEF Memory!Delete, HeapPart
  <2>3. ASSUME NEW v, b \in Blocks, ~b.heap,
               Blocks' = (Blocks \ {b}) \cup {[b EXCEPT !.readonly = v]}
        PROVE  HeapPart(Blocks') = HeapPart(Blocks)
    <3>1. PICK p \in DOMAIN blk : b = Abs(p, blk[p])
      BY <2>3, BlocksAre DEF BlocksOf
    <3>. DEFINE c == [b EXCEPT !.readonly = v]
    <3>2. c = [base |-> p, size |-> blk[p].size, heap |-> blk[p].is_freeable, readonly |-> v]
      BY <3>1, ReadonlyIs
    <3>3. ~c.heap
      BY <2>3, <3>1, <3>2 DEF Abs
    <3>. HIDE DEF c
    <3> QED BY <2>3, <3>3 DEF HeapPart, c
  <2>4. CASE Memory!StoreAgain(b)
    BY <2>3, <2>4 DEF Memory!StoreAgain
  <2>5. CASE Memory!MarkReadonly(b)
    BY <2>3, <2>5 DEF Memory!MarkReadonly
  <2>6. CASE \E p \in Memory!Bytes(b), n \in 1 .. b.size : Memory!Initialize(b, p, n)
    BY <2>6 DEF Memory!Initialize
  <2> QED BY <2>1, <2>2, <2>4, <2>5, <2>6 DEF OffHeap
<1> QED BY <1>1, Zenon DEF HeapCounted

\* malloc and calloc count their block in.
LEMMA MallocCounts ==
  ASSUME BittreeAssumption, BittreeInv, HeapCounted(heap, Blocks), NEW p \in HeapBases,
         NEW n \in Sizes, NEW zeroed \in BOOLEAN, malloc(p, n, zeroed)
  PROVE  HeapCounted(heap, Blocks)'
<1>1. MallocDoes(p, n, zeroed) /\ \E b \in Memory!Added : Memory!Malloc(b, zeroed)
  BY MallocStep, Zenon
<1>2. PICK b \in Memory!Added : Memory!Malloc(b, zeroed)
  BY <1>1
<1>3. b \in Blocks' /\ b \notin Blocks /\ b.heap /\ Blocks' = Blocks \cup {b}
  BY <1>2 DEF Memory!Added, Memory!Malloc
<1>4. PICK x \in DOMAIN blk' : b = Abs(x, blk'[x])
  BY <1>3, BlocksAre DEF BlocksOf
<1>5. x \notin DOMAIN blk \/ blk'[x] # blk[x]
  BY <1>3, <1>4, BlocksAre DEF BlocksOf
<1>6. x = p /\ blk'[p].size = n /\ n \in Nat \ {0}
  BY <1>1, <1>4, <1>5 DEF MallocDoes
<1>7. b.size = n
  BY <1>4, <1>6 DEF Abs
<1>8. heap' = update_heap_allocation(heap, n)
  BY DEF malloc
<1>9. HeapCounted(update_heap_allocation(heap, b.size), Blocks \cup {b})
  BY <1>3, <1>6, <1>7, CountedIn
<1> QED BY <1>3, <1>7, <1>8, <1>9

\* The counters are those of the heap, but once a variable was given to free
\* or realloc: that is less its size.
CountInv ==
  \/ HeapCounted(heap, Blocks)
  \/ /\ status \in {"crashed", "undefined"}
     /\ \E o \in Objects : HeapCountedLess(heap, Blocks, o.size)

\* free counts it out.
LEMMA FreeCounts ==
  ASSUME BittreeAssumption, LookupReturns = "leaf", BittreeInv, HeapCounted(heap, Blocks),
         NEW p \in Pointers, free(p)
  PROVE  CountInv'
<1>. DEFINE c == Abs(p, blk[p])
<1>1. /\ p \in DOMAIN blk /\ heap' = update_heap_allocation(heap, -blk[p].size)
      /\ \/ UNCHANGED blk /\ ~blk[p].is_freeable /\ status' = "crashed"
         \/ Blocks' = Blocks \ {c} /\ c \in Blocks /\ status' = AfterLibrary(p)
  BY FreeStep
<1>2. c.heap = blk[p].is_freeable /\ c.size = blk[p].size
  BY DEF Abs
<1>. HIDE DEF c
<1>3. CASE blk[p].is_freeable
  <2>1. Blocks' = Blocks \ {c} /\ c \in Blocks
    BY <1>1, <1>3
  <2>2. HeapCounted(update_heap_allocation(heap, -c.size), Blocks \ {c})
    BY <1>2, <1>3, <2>1, CountedOut
  <2>3. HeapCounted(heap', Blocks')
    BY <1>1, <1>2, <2>1, <2>2
  <2> QED BY <2>3 DEF CountInv
<1>4. CASE ~blk[p].is_freeable
  <2>1. PICK o \in Objects : o.size = blk[p].size
    <3>1. BlockOK(p, blk[p])
      BY <1>1 DEF BittreeInv, BlocksOK
    <3> QED BY <1>4, <3>1, BlockPlace
  <2>2. status' \in {"crashed", "undefined"}
    BY <1>1, <1>4 DEF AfterLibrary
  <2>3. HeapPart(Blocks') = HeapPart(Blocks)
    BY <1>1, <1>2, <1>4, BlocksAre DEF HeapPart
  <2>4. HeapCountedLess(heap', Blocks, o.size)
    BY <1>1, <2>1, CountedLess, ObjectPlace
  <2>5. HeapCountedLess(heap', Blocks', o.size)
    BY <2>3, <2>4, Zenon DEF HeapCountedLess
  <2> QED BY <2>2, <2>5 DEF CountInv
<1> QED BY <1>3, <1>4

\* realloc counts its new place in, and the one it had out.
LEMMA ReallocCounts ==
  ASSUME BittreeAssumption, LookupReturns = "leaf", BittreeInv, HeapWritable(blk),
         HeapCounted(heap, Blocks),
         NEW p \in Pointers, NEW q \in HeapBases, NEW n \in Sizes, realloc(p, q, n)
  PROVE  CountInv'
<1>. DEFINE b == Abs(p, blk[p])
            c == Abs(q, blk'[q])
<1>1. /\ ReallocMoves(p, q, n) /\ n \in Nat \ {0} /\ p \in DOMAIN blk
      /\ status' = AfterLibrary(p)
  BY ReallocStep
<1>2. /\ Blocks' = (Blocks \ {b}) \cup {c} /\ b \in Blocks /\ c \notin Blocks \ {b}
      /\ b.heap = blk[p].is_freeable /\ c.heap /\ c.size = n /\ b.size = blk[p].size
  BY <1>1 DEF ReallocMoves, Abs
<1>3. bt_lookup(p) = p
  BY <1>1, LookupIs
<1>4. heap' = update_heap_allocation(update_heap_allocation(heap, n), -b.size)
  BY <1>2, <1>3 DEF realloc
<1>. HIDE DEF b, c
<1>5. CASE blk[p].is_freeable
  <2>0. b \in Blocks /\ b.heap /\ n \in Nat \ {0}
    BY <1>1, <1>2, <1>5
  <2>1. heap' = update_heap_allocation(update_heap_allocation(heap, -b.size), n)
    BY <1>4, <2>0, CountedThrough
  <2>2. HeapCounted(update_heap_allocation(heap, -b.size), Blocks \ {b})
    BY <1>2, <1>5, CountedOut
  <2>3. HeapCounted(update_heap_allocation(update_heap_allocation(heap, -b.size), c.size),
                    (Blocks \ {b}) \cup {c})
    BY <1>1, <1>2, <2>2, CountedIn
  <2>4. HeapCounted(heap', Blocks')
    BY <1>2, <2>1, <2>3
  <2> QED BY <2>4 DEF CountInv
<1>6. CASE ~blk[p].is_freeable
  <2>1. PICK o \in Objects : o.size = b.size
    <3>1. BlockOK(p, blk[p])
      BY <1>1 DEF BittreeInv, BlocksOK
    <3> QED BY <1>2, <1>6, <3>1, BlockPlace
  <2>2. status' = "undefined"
    BY <1>1, <1>6 DEF AfterLibrary
  <2>3. HeapPart(Blocks \ {b}) = HeapPart(Blocks)
    BY <1>2, <1>6 DEF HeapPart
  <2>4. HeapCounted(heap, Blocks \ {b})
    BY <2>3, Zenon DEF HeapCounted
  <2>5. HeapCounted(update_heap_allocation(heap, n), Blocks')
    BY <1>1, <1>2, <2>4, CountedIn
  <2>6. HeapCountedLess(heap', Blocks', o.size)
    BY <1>4, <2>1, <2>5, CountedLess, ObjectPlace
  <2> QED BY <2>2, <2>6 DEF CountInv
<1> QED BY <1>5, <1>6

\* Every step keeps the counters those of the heap.
LEMMA HeapStep ==
  ASSUME BittreeAssumption, LookupReturns = "leaf", BittreeInv, WritableInv, CountInv, [Next]_vars
  PROVE  CountInv'
<1>1. CASE UNCHANGED vars
  BY <1>1, BlocksAre DEF vars, CountInv
<1>. SUFFICES ASSUME Next PROVE CountInv'
  BY <1>1
<1>0. HeapCounted(heap, Blocks) /\ HeapWritable(blk)
  BY DEF Next, CountInv, WritableInv
<1>10. HeapCounted(heap, Blocks)' => CountInv'
  BY DEF CountInv
<1>2. ASSUME NEW o \in Objects,
             eacsl_store_block(o) \/ eacsl_delete_block(o) \/ eacsl_store_block_duplicate(o)
      PROVE  CountInv'
  <2>1. UNCHANGED heap
    BY <1>2 DEF eacsl_store_block, eacsl_delete_block, eacsl_store_block_duplicate
  <2>2. \E b : OffHeap(b)
    BY <1>2, StoreStep, DeleteStep, DuplicateStep DEF OffHeap
  <2> QED BY <1>0, <1>10, <2>1, <2>2, OffHeapKeeps
<1>3. ASSUME NEW p \in Pointers, NEW part \in Parts, eacsl_initialize(p, part)
      PROVE  CountInv'
  <2>1. UNCHANGED heap
    BY <1>3 DEF eacsl_initialize
  <2>2. \E b : OffHeap(b)
    BY <1>3, InitializeStep DEF OffHeap
  <2> QED BY <1>0, <1>10, <2>1, <2>2, OffHeapKeeps
<1>4. ASSUME NEW p \in Pointers, eacsl_full_init(p)
      PROVE  CountInv'
  <2>1. UNCHANGED heap
    BY <1>4 DEF eacsl_full_init
  <2>2. (\E b : OffHeap(b)) \/ UNCHANGED Memory!vars
    BY <1>4, FullInitStep DEF OffHeap
  <2>3. CASE UNCHANGED Memory!vars
    BY <1>0, <1>10, <2>1, <2>3 DEF Memory!vars
  <2> QED BY <1>0, <1>10, <2>1, <2>2, <2>3, OffHeapKeeps
<1>5. ASSUME NEW p \in Pointers, eacsl_mark_readonly(p)
      PROVE  CountInv'
  <2>1. UNCHANGED heap
    BY <1>5 DEF eacsl_mark_readonly
  <2>2. \E b : OffHeap(b)
    BY <1>5, ReadonlyStep DEF OffHeap
  <2> QED BY <1>0, <1>10, <2>1, <2>2, OffHeapKeeps
<1>6. ASSUME NEW p \in Pointers, free(p) PROVE CountInv'
  BY <1>0, <1>6, FreeCounts
<1>7. ASSUME NEW p \in Pointers, free_invalid(p) \/ realloc_invalid(p) PROVE CountInv'
  <2>1. UNCHANGED <<blk, heap>>
    BY <1>7, FreeInvalidStep, InvalidStep
  <2> QED BY <1>0, <1>10, <2>1, BlocksAre
<1>8. ASSUME NEW p \in HeapBases, NEW n \in Sizes, NEW z \in BOOLEAN, malloc(p, n, z)
      PROVE  CountInv'
  BY <1>0, <1>8, <1>10, MallocCounts
<1>9. ASSUME NEW p \in Pointers, NEW q \in HeapBases, NEW n \in Sizes, realloc(p, q, n)
      PROVE  CountInv'
  BY <1>0, <1>9, ReallocCounts
<1> QED BY <1>2, <1>3, <1>4, <1>5, <1>6, <1>7, <1>8, <1>9 DEF Next

\* The counters of the leak report are those of the bt_block structures that
\* can be freed, at any point of any sequence of malloc, realloc and free:
\* realloc, which counts one block in and the other one out, loses none.  When
\* the program gives a variable to one of them the size of the variable is
\* counted out too.
THEOREM BittreeCounts ==
  ASSUME BittreeAssumption, LookupReturns = "leaf"
  PROVE  Spec => []CountersMatch
<1>1. Init => BittreeInv /\ WritableInv /\ CountInv
  <2> SUFFICES ASSUME Init PROVE HeapCounted(heap, Blocks)
    BY BittreeInit DEF CountInv
  <2>1. blk = <<>> /\ heap = [size |-> 0, blocks |-> 0]
    BY DEF Init
  <2>2. HeapPart(Blocks) = {}
    BY <2>1 DEF Blocks, HeapPart
  <2>3. Weight({}) = 0 /\ Cardinality({}) = 0 /\ IsFiniteSet({})
    BY FS_EmptySet, Weights
  <2> QED BY <2>1, <2>2, <2>3 DEF HeapCounted
<1>2. BittreeInv /\ WritableInv /\ CountInv /\ [Next]_vars
        => BittreeInv' /\ WritableInv' /\ CountInv'
  BY BittreeStep, HeapStep
<1>3. BittreeInv /\ CountInv => CountersMatch
  <2> SUFFICES ASSUME BittreeInv, CountInv PROVE CountersMatch
    OBVIOUS
  <2>. DEFINE S == {b \in DOMAIN blk : blk[b].is_freeable}
              abs == [b \in S |-> Abs(b, blk[b])]
              H == HeapPart(Blocks)
              iter == CHOOSE g : g = SumFrom(S, blk, g)
  <2>1. BlocksOK(blk) /\ IsFiniteSet(S)
    BY FS_Subset DEF BittreeInv, BlocksOK
  <2>2. /\ \A x \in S : blk[x].size = abs[x].size /\ abs[x].size \in Nat
        /\ \A x, y \in S : abs[x] = abs[y] => x = y
    BY <2>1 DEF Abs, BlocksOK, BlockOK, BtBlock
  <2>3. H = BlocksAt(abs, S)
    <3>1. \A x \in DOMAIN blk : Abs(x, blk[x]).heap = blk[x].is_freeable
      BY DEF Abs
    <3>2. H = {Abs(x, blk[x]) : x \in S}
      BY <3>1, BlocksAre DEF HeapPart, BlocksOf
    <3> QED BY <3>2 DEF BlocksAt
  <2>. HIDE DEF S, abs
  <2>4. SumsToWeight(S, blk, abs)
    BY <2>1, <2>2, SumsAreWeights
  <2>5. iter = SumFrom(S, blk, iter)
    BY <2>4 DEF SumsToWeight
  <2>6. iter[S] = Weight(H)
    <3>. HIDE DEF iter
    <3> QED BY <2>3, <2>4, <2>5 DEF SumsToWeight
  <2>7. FoldSet(LAMBDA b, sum : blk[b].size + sum, 0, S) = iter[S]
    BY Zenon DEF FoldSet, MapThenFoldSet, SumFrom
  <2>. DEFINE total == FoldSet(LAMBDA b, sum : blk[b].size + sum, 0, S)
  <2>8. Weight(H) = total /\ Cardinality(H) = Cardinality(S)
    BY <2>3, <2>4, <2>6, <2>7, Zenon DEF SumsToWeight
  <2>9. total \in Nat /\ Cardinality(S) \in Nat
    <3>1. IsFiniteSet(H) /\ \A b \in H : b.size \in Nat
      BY DEF CountInv, HeapCounted, HeapCountedLess
    <3> QED BY <2>8, <3>1, Weights, FS_CardinalityType
  <2>10. CASE HeapCounted(heap, Blocks)
    <3>1. heap.size = Weight(H) /\ heap.blocks = Cardinality(H)
      BY <2>10 DEF HeapCounted
    <3>. HIDE DEF H, iter, total
    <3>2. heap.blocks + 0 = Cardinality(S) /\ heap.size + 0 = total
      BY <2>8, <2>9, <3>1
    <3> QED BY <3>2, Zenon DEF CountersMatch, S, total
  <2>11. ASSUME NEW o \in Objects, HeapCountedLess(heap, Blocks, o.size),
                status \in {"crashed", "undefined"}
         PROVE  CountersMatch
    <3>. DEFINE k == IF o.size > 0 THEN 1 ELSE 0
    <3>1. heap.size = Weight(H) - o.size /\ heap.blocks = Cardinality(H) - k
      BY <2>11 DEF HeapCountedLess
    <3>2. o.size \in Nat /\ k \in Nat
      BY ObjectPlace
    <3>. HIDE DEF H, iter, total
    <3>3. heap.blocks + k = Cardinality(S) /\ heap.size + o.size = total
      BY <2>8, <2>9, <3>1, <3>2
    <3> QED BY <2>11, <3>3, Zenon DEF CountersMatch, S, total
  <2> QED BY <2>10, <2>11 DEF CountInv
<1> QED BY <1>1, <1>2, <1>3, PTL DEF Spec
=============================================================================
