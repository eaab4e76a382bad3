---------------------------- MODULE RuntimeProofs ----------------------------
(***************************************************************************)
(* Theorems on the runtime of E-ACSL, for any variables, any heap and any  *)
(* sequence of calls.  First the shadow memory: the decoded shadows are    *)
(* the blocks of BlockMap at every step, the predicates of the annotations *)
(* get the answers of their contracts, and the shadow of what is free is   *)
(* null.  Then the program linked with either library, where the theorems  *)
(* on the bittree are those of BittreeModelProofs; BlockMap, of which both *)
(* are implementations; and the memory of the threads, where those on the  *)
(* trie are of PatriciaTrieProofs, through ThreadShadowInv.                *)
(***************************************************************************)
EXTENDS Runtime, RuntimeThreads, FiniteSetTheorems, WellFoundedInduction, TLAPS

-----------------------------------------------------------------------------
(* Arithmetic *)

(* The quotient and the remainder of a division. *)
LEMMA DivMod ==
  ASSUME NEW p \in Int, NEW m \in Nat \ {0}
  PROVE  /\ p \div m \in Int /\ p % m \in 0 .. m - 1
         /\ p = m * (p \div m) + (p % m)
  BY Z3

(* They are determined by that. *)
LEMMA DivModUnique ==
  ASSUME NEW m \in Nat \ {0}, NEW q \in Int, NEW r \in 0 .. m - 1
  PROVE  (m * q + r) % m = r /\ (m * q + r) \div m = q
  BY Z3

\* Two multiples differ by one unit at least.
LEMMA Monotone ==
  ASSUME NEW m \in Nat \ {0}, NEW a \in Int, NEW b \in Int, a < b
  PROVE  m * a + m <= m * b
<1>1. b - a - 1 \in Nat
  OBVIOUS
<1>2. \A d \in Nat : m * d >= 0
  BY Z3
<1>3. m * b = m * (a + 1 + (b - a - 1))
  BY Z3
<1>4. m * (a + 1 + (b - a - 1)) = m * a + m + m * (b - a - 1)
  BY Z3
<1>5. QED
  BY <1>1, <1>2, <1>3, <1>4

(* Multiples of m are apart by m, and so are their sums. *)
LEMMA Multiples ==
  ASSUME NEW m \in Nat \ {0}, NEW x \in Int, NEW y \in Int, x % m = 0, y % m = 0
  PROVE  /\ x < y => x + m <= y
         /\ (x + y) % m = 0
         /\ (x - y) % m = 0
<1> DEFINE a == x \div m
           b == y \div m
<1>1. a \in Int /\ x = m * a
  BY DivMod
<1>2. b \in Int /\ y = m * b
  BY DivMod
<1> HIDE DEF a, b
<1>3. /\ x + y = m * (a + b) + 0
      /\ x - y = m * (a - b) + 0
  BY <1>1, <1>2, Z3
<1>4. (m * (a + b) + 0) % m = 0 /\ (m * (a - b) + 0) % m = 0
  <2>1. a + b \in Int /\ a - b \in Int /\ 0 \in 0 .. m - 1
    BY <1>1, <1>2
  <2>2. QED
    BY <2>1, DivModUnique, Zenon
<1>5. x < y => a < b
  <2>1. ASSUME x < y, a >= b PROVE FALSE
    <3>1. m * b <= m * a
      <4>1. CASE a = b
        BY <4>1, <1>1, <1>2
      <4>2. CASE b < a
        BY <4>2, <1>1, <1>2, Monotone
      <4>3. QED
        BY <4>1, <4>2, <2>1, <1>1, <1>2
    <3>2. QED
      BY <3>1, <2>1, <1>1, <1>2
  <2>2. QED
    BY <2>1, <1>1, <1>2
<1>6. QED
  BY <1>1, <1>2, <1>3, <1>4, <1>5, Monotone

\* What divides a divisor divides.
LEMMA MultipleOfMultiple ==
  ASSUME NEW m \in Nat \ {0}, NEW c \in Nat \ {0}, NEW x \in Int, m % c = 0, x % m = 0
  PROVE  x % c = 0
<1> DEFINE a == m \div c
           b == x \div m
<1>1. a \in Int /\ m = c * a
  BY DivMod
<1>2. b \in Int /\ x = m * b
  BY DivMod
<1> HIDE DEF a, b
<1>3. x = c * (a * b) + 0
  BY <1>1, <1>2, Z3
<1>4. (c * (a * b) + 0) % c = 0
  <2>1. a * b \in Int /\ 0 \in 0 .. c - 1
    BY <1>1, <1>2
  <2>2. QED
    BY <2>1, DivModUnique, Zenon
<1>5. QED
  BY <1>3, <1>4

(* Sizes rounded up: the bytes of the init shadow, the segments. *)
LEMMA RoundedUp ==
  ASSUME NEW m \in Nat \ {0}, NEW n \in Nat
  PROVE  LET r == DivUp(n, m) * m IN
         r \in Nat /\ n <= r /\ r < n + m /\ r % m = 0
<1> DEFINE k == (n + m - 1) \div m
<1>1. k \in Int /\ (n + m - 1) % m \in 0 .. m - 1 /\ n + m - 1 = m * k + ((n + m - 1) % m)
  <2>1. n + m - 1 \in Int
    OBVIOUS
  <2>2. QED
    BY <2>1, DivMod, Zenon
<1>2. DivUp(n, m) * m = m * k
  BY <1>1, Z3 DEF DivUp
<1>3. (m * k + 0) % m = 0
  <2>1. 0 \in 0 .. m - 1
    OBVIOUS
  <2>2. QED
    BY <1>1, <2>1, DivModUnique, Zenon
<1> HIDE DEF k
<1>4. m * k \in Int
  BY <1>1
<1>5. m * k + 0 = m * k
  BY <1>4
<1>6. n <= m * k /\ m * k < n + m
  BY <1>1, <1>4
<1>7. QED
  BY <1>2, <1>3, <1>4, <1>5, <1>6

(* The segment of a byte. *)
LEMMA LeftAligned ==
  ASSUME NEW p \in Nat
  PROVE  /\ AlignLeft(p) \in Nat /\ AlignLeft(p) <= p /\ p < AlignLeft(p) + HEAP_SEGMENT
         /\ AlignLeft(p) % HEAP_SEGMENT = 0
         /\ p % HEAP_SEGMENT = 0 => AlignLeft(p) = p
<1> DEFINE m == HEAP_SEGMENT
           k == p \div m
<1>1. m \in Nat \ {0}
  BY SegmentAssumption
<1> HIDE DEF m
<1>2. k \in Int /\ p % m \in 0 .. m - 1 /\ p = m * k + (p % m)
  BY <1>1, DivMod
<1> HIDE DEF k
<1>3. m * k \in Int
  BY <1>1, <1>2
<1>4. p - (p % m) = m * k + 0
  BY <1>1, <1>2, <1>3
<1>5. (m * k + 0) % m = 0
  <2>1. 0 \in 0 .. m - 1
    BY <1>1
  <2>2. QED
    BY <1>1, <1>2, <2>1, DivModUnique, Zenon
<1>6. AlignLeft(p) = p - (p % m)
  BY DEF AlignLeft, m
<1>7. 0 <= p - (p % m)
  BY <1>2, <1>1, Z3
<1>8. QED
  BY <1>1, <1>2, <1>4, <1>5, <1>6, <1>7 DEF m

\* The room of n bytes: whole segments, with its bytes of init bits.
LEMMA AllocSize ==
  ASSUME NEW n \in Nat
  PROVE  /\ ALLOC_SIZE(n) \in Nat /\ n <= ALLOC_SIZE(n)
         /\ ALLOC_SIZE(n) % HEAP_SEGMENT = 0
         /\ n > 0 => HEAP_SEGMENT <= ALLOC_SIZE(n)
         /\ \A k \in 0 .. n : DivUp(k, CHAR_BIT) * CHAR_BIT <= ALLOC_SIZE(n)
<1> DEFINE A == ALLOC_SIZE(n)
<1>1. /\ HEAP_SEGMENT \in Nat \ {0} /\ CHAR_BIT \in Nat \ {0}
      /\ HEAP_SEGMENT % CHAR_BIT = 0
  BY SegmentAssumption
<1>2. A \in Nat /\ n <= A /\ A < n + HEAP_SEGMENT /\ A % HEAP_SEGMENT = 0
  BY <1>1, RoundedUp DEF ALLOC_SIZE
<1> HIDE DEF A
<1>3. n > 0 => HEAP_SEGMENT <= A
  <2>1. 0 % HEAP_SEGMENT = 0
    BY <1>1
  <2>2. 0 < A => 0 + HEAP_SEGMENT <= A
    BY <1>1, <1>2, <2>1, Multiples
  <2>3. QED
    BY <1>1, <1>2, <2>2
<1>4. ASSUME NEW k \in 0 .. n
      PROVE  DivUp(k, CHAR_BIT) * CHAR_BIT <= A
  <2> DEFINE r == DivUp(k, CHAR_BIT) * CHAR_BIT
  <2>1. r \in Nat /\ r < k + CHAR_BIT /\ r % CHAR_BIT = 0
    BY <1>1, RoundedUp
  <2> HIDE DEF r
  <2>2. A \in Int /\ r \in Int
    BY <1>2, <2>1
  <2>3. A % CHAR_BIT = 0
    BY <1>1, <1>2, <2>2, MultipleOfMultiple, Zenon
  <2>5. A < r => A + CHAR_BIT <= r
    BY <1>1, <2>1, <2>2, <2>3, Multiples, Zenon
  <2>4. r <= A
    BY <1>1, <1>2, <2>1, <2>5
  <2>6. QED
    BY <2>4 DEF r
<1>5. QED
  BY <1>2, <1>3, <1>4 DEF A

-----------------------------------------------------------------------------
(* The codes *)

Info(pr, sc, p) ==
  LET c == pr[p].code
      off == c - LONG_BLOCK_INDEX_START
  IN  IF c >= LONG_BLOCK_INDEX_START
      THEN [length |-> sc[p - off].length, offset |-> sc[p - off].offset + off]
      ELSE [length |-> short_lengths[c + 1], offset |-> short_offsets[c + 1]]

\* A byte of a short block has a code that gives its length and offset back.
LEMMA ShortCodes ==
  ASSUME NEW n \in 1 .. 8, NEW i \in 0 .. n - 1
  PROVE  /\ Code(n, i) \in 1 .. 36
         /\ short_lengths[Code(n, i) + 1] = n /\ short_offsets[Code(n, i) + 1] = i
<1>1. n \in {1, 2, 3, 4, 5, 6, 7, 8} /\ i \in {0, 1, 2, 3, 4, 5, 6, 7} /\ i < n
  OBVIOUS
<1> USE DEF Code, short_offsets_base, LONG_BLOCK, short_lengths, short_offsets
<1>2. CASE n = 1
  BY <1>1, <1>2
<1>3. CASE n = 2
  BY <1>1, <1>3
<1>4. CASE n = 3
  BY <1>1, <1>4
<1>5. CASE n = 4
  BY <1>1, <1>5
<1>6. CASE n = 5
  BY <1>1, <1>6
<1>7. CASE n = 6
  BY <1>1, <1>7
<1>8. CASE n = 7
  BY <1>1, <1>8
<1>9. CASE n = 8
  BY <1>1, <1>9
<1>10. QED
  BY <1>1, <1>2, <1>3, <1>4, <1>5, <1>6, <1>7, <1>8, <1>9

\* A byte of a long block leads to the first byte of one of its pieces of 8.
LEMMA LongCodes ==
  ASSUME NEW n \in Nat, n > 8, NEW i \in 0 .. n - 1
  PROVE  LET c == Code(n, i) - 48 IN
         /\ c \in Nat /\ c <= i
         /\ (i - c) % 8 = 0 /\ i - c \in 0 .. LONG_BLOCK_BOUNDARY(n) - 1
         /\ LONG_BLOCK_BOUNDARY(n) <= n
<1> DEFINE b == n - (n % 8)
<1>1. b \in Nat /\ b % 8 = 0 /\ b >= 8 /\ b <= n /\ n < b + 8
  OBVIOUS
<1>2. CASE i < b
  <2>1. Code(n, i) - 48 = i % 8
    BY <1>2 DEF Code, LONG_BLOCK_BOUNDARY, LONG_BLOCK, LONG_BLOCK_INDEX_START
  <2>2. i % 8 \in Nat /\ i % 8 <= i /\ (i - (i % 8)) % 8 = 0
    OBVIOUS
  <2>3. QED
    BY <1>1, <1>2, <2>1, <2>2 DEF LONG_BLOCK_BOUNDARY, LONG_BLOCK
<1>3. CASE i >= b
  <2>1. Code(n, i) - 48 = 8 + (i % 8)
    BY <1>1, <1>3 DEF Code, LONG_BLOCK_BOUNDARY, LONG_BLOCK, LONG_BLOCK_INDEX_START
  <2>2. i % 8 = i - b
    BY <1>1, <1>3
  <2>3. i - (8 + (i % 8)) = b - 8 /\ (b - 8) % 8 = 0 /\ b - 8 \in 0 .. b - 1
    BY <1>1, <2>2
  <2>4. QED
    BY <1>1, <1>3, <2>1, <2>2, <2>3 DEF LONG_BLOCK_BOUNDARY, LONG_BLOCK
<1>4. QED
  BY <1>2, <1>3

-----------------------------------------------------------------------------
(* The shadow of variables, as values: pr for prim and sc for sec *)

PrimShadow == [StaticAddr -> [code : Nat, init : BOOLEAN, ro : BOOLEAN]]
SecShadow == [StaticAddr -> [length : Nat, offset : Nat]]

ObjSpan(o) == Span(o.base, o.size)

(* The shadows hold the codes of variable o. *)
Laid(pr, sc, o) ==
  /\ \A x \in ObjSpan(o) : pr[x].code = Code(o.size, x - o.base) /\ pr[x].ro = pr[o.base].ro
  /\ o.size > 8 => \A i \in 0 .. LONG_BLOCK_BOUNDARY(o.size) - 1 :
       i % 8 = 0 => sc[o.base + i] = [length |-> o.size, offset |-> i]

LaidSet(pr, sc) == {o \in Objects : Laid(pr, sc, o)}

(* There is nothing in the shadows but laid variables. *)
StaticOK(pr, sc) ==
  /\ pr \in PrimShadow /\ sc \in SecShadow
  /\ \A x \in StaticAddr : pr[x] # Zero => \E o \in LaidSet(pr, sc) : x \in ObjSpan(o)
  /\ \A x \in StaticAddr : pr[x] = Zero => sc[x] = NoInfo

\* The bytes of a variable.
LEMMA ObjectFacts ==
  ASSUME NEW o \in Objects
  PROVE  /\ o.base \in Nat \ {0} /\ o.size \in Nat \ {0}
         /\ o = [base |-> o.base, size |-> o.size]
         /\ ObjSpan(o) \subseteq StaticAddr /\ o.base \in ObjSpan(o)
         /\ \A x \in ObjSpan(o) : x - o.base \in 0 .. o.size - 1
         /\ \A x : x \in ObjSpan(o) <=> x \in Nat /\ o.base <= x /\ x < o.base + o.size
         /\ o.base < GlobalEnd => \A x \in ObjSpan(o) : x < GlobalEnd
<1>1. /\ o.base \in Nat \ {0} /\ o.size \in Nat \ {0}
      /\ o = [base |-> o.base, size |-> o.size]
      /\ o.base + o.size <= StaticEnd
      /\ o.base < GlobalEnd => o.base + o.size <= GlobalEnd
      /\ StaticEnd \in Nat /\ GlobalEnd \in Nat
  BY SegmentAssumption
<1>2. \A x : x \in ObjSpan(o) <=> x \in Nat /\ o.base <= x /\ x < o.base + o.size
  BY <1>1 DEF ObjSpan, Span
<1>3. QED
  BY <1>1, <1>2 DEF StaticAddr

(* Every byte of a laid variable, decoded, gives its length and offset. *)
LEMMA Decode ==
  ASSUME NEW pr \in PrimShadow, NEW sc, NEW o \in Objects, Laid(pr, sc, o),
         NEW x \in ObjSpan(o)
  PROVE  /\ Info(pr, sc, x) = [length |-> o.size, offset |-> x - o.base]
         /\ pr[x] # Zero
<1> DEFINE n == o.size
           i == x - o.base
           c == Code(n, i)
<1>1. /\ n \in Nat \ {0} /\ i \in 0 .. n - 1 /\ o.base \in Nat /\ x \in Nat
      /\ x \in StaticAddr
  BY ObjectFacts
<1>2. pr[x].code = c
  BY DEF Laid
<1>3. CASE n <= 8
  <2>1. n \in 1 .. 8
    BY <1>1, <1>3
  <2>2. /\ c \in 1 .. 36
        /\ short_lengths[c + 1] = n /\ short_offsets[c + 1] = i
    BY <1>1, <2>1, ShortCodes
  <2>3. ~(c >= 48) /\ c # 0
    BY <2>2
  <2>4. Info(pr, sc, x) = [length |-> short_lengths[c + 1], offset |-> short_offsets[c + 1]]
    BY <1>2, <2>3 DEF Info, LONG_BLOCK_INDEX_START
  <2>5. QED
    BY <1>2, <2>2, <2>3, <2>4 DEF Zero
<1>4. CASE n > 8
  <2>1. /\ c - 48 \in Nat /\ c - 48 <= i
        /\ (i - (c - 48)) % 8 = 0 /\ i - (c - 48) \in 0 .. LONG_BLOCK_BOUNDARY(n) - 1
    BY <1>1, <1>4, LongCodes
  <2> HIDE DEF c
  <2>2. sc[o.base + (i - (c - 48))] = [length |-> n, offset |-> i - (c - 48)]
    BY <1>4, <2>1 DEF Laid
  <2>3. c \in Int
    <3>1. pr[x].code \in Nat
      BY <1>1 DEF PrimShadow
    <3>2. QED
      BY <3>1, <1>2
  <2>4. o.base + (i - (c - 48)) = x - (c - 48)
    BY <1>1, <2>3
  <2>5. c >= 48 /\ c # 0
    BY <2>1, <2>3
  <2>6. Info(pr, sc, x) = [length |-> sc[x - (c - 48)].length,
                           offset |-> sc[x - (c - 48)].offset + (c - 48)]
    BY <1>2, <2>5 DEF Info, LONG_BLOCK_INDEX_START
  <2>7. Info(pr, sc, x) = [length |-> n, offset |-> (i - (c - 48)) + (c - 48)]
    BY <2>2, <2>4, <2>6
  <2>8. (i - (c - 48)) + (c - 48) = i
    BY <1>1, <2>3
  <2>9. QED
    BY <1>2, <2>5, <2>7, <2>8 DEF Zero
<1>5. QED
  BY <1>1, <1>3, <1>4

\* Variables that are stored have no byte in common.
LEMMA LaidApart ==
  ASSUME NEW pr \in PrimShadow, NEW sc,
         NEW o \in LaidSet(pr, sc), NEW o2 \in LaidSet(pr, sc), o # o2
  PROVE  ObjSpan(o) \cap ObjSpan(o2) = {}
<1> SUFFICES ASSUME NEW x \in ObjSpan(o), x \in ObjSpan(o2)
             PROVE  FALSE
  OBVIOUS
<1>1. /\ o \in Objects /\ Laid(pr, sc, o)
      /\ o2 \in Objects /\ Laid(pr, sc, o2)
  BY DEF LaidSet
<1>2. [length |-> o.size, offset |-> x - o.base] = [length |-> o2.size, offset |-> x - o2.base]
  BY <1>1, Decode
<1>3. o.size = o2.size /\ x - o.base = x - o2.base
  BY <1>2
<1>4. o.base \in Nat /\ o2.base \in Nat /\ x \in Nat
  BY <1>1, ObjectFacts
<1>5. o.base = o2.base
  BY <1>3, <1>4
<1>6. QED
  BY <1>1, <1>3, <1>5, ObjectFacts

\* A variable stays as it is when no shadow of its bytes changes.
LEMMA LaidFrame ==
  ASSUME NEW pr, NEW sc, NEW pr2, NEW sc2, NEW o \in Objects,
         \A x \in ObjSpan(o) : /\ pr2[x].code = pr[x].code
                               /\ pr2[x].ro = pr[x].ro
                               /\ sc2[x] = sc[x]
  PROVE  Laid(pr2, sc2, o) <=> Laid(pr, sc, o)
<1>1. /\ o.base \in ObjSpan(o) /\ o.base \in Nat /\ o.size \in Nat
      /\ \A x : x \in ObjSpan(o) <=> x \in Nat /\ o.base <= x /\ x < o.base + o.size
  BY ObjectFacts
<1>2. o.size > 8 => \A i \in 0 .. LONG_BLOCK_BOUNDARY(o.size) - 1 : o.base + i \in ObjSpan(o)
  BY <1>1 DEF LONG_BLOCK_BOUNDARY, LONG_BLOCK
<1>3. (o.size > 8 => \A i \in 0 .. LONG_BLOCK_BOUNDARY(o.size) - 1 :
         i % 8 = 0 => sc[o.base + i] = [length |-> o.size, offset |-> i])
      <=>
      (o.size > 8 => \A i \in 0 .. LONG_BLOCK_BOUNDARY(o.size) - 1 :
         i % 8 = 0 => sc2[o.base + i] = [length |-> o.size, offset |-> i])
  BY <1>2
<1>4. (\A x \in ObjSpan(o) : pr[x].code = Code(o.size, x - o.base) /\ pr[x].ro = pr[o.base].ro)
      <=>
      (\A x \in ObjSpan(o) : pr2[x].code = Code(o.size, x - o.base) /\ pr2[x].ro = pr2[o.base].ro)
  BY <1>1
<1>5. QED
  BY <1>3, <1>4, Zenon DEF Laid

\* The fields of a new primary shadow.
LEMMA CodedFields ==
  ASSUME NEW c \in Nat
  PROVE  /\ Coded(c) \in [code : Nat, init : BOOLEAN, ro : BOOLEAN]
         /\ Coded(c).code = c /\ Coded(c).init = FALSE /\ Coded(c).ro = FALSE
<1>1. /\ Zero \in [code : Nat, init : BOOLEAN, ro : BOOLEAN]
      /\ Zero.init = FALSE /\ Zero.ro = FALSE
  BY DEF Zero
<1>2. QED
  BY <1>1 DEF Coded

\* No code is null: a byte with a block is told from one without.
LEMMA CodesPositive ==
  ASSUME NEW n \in Nat \ {0}, NEW i \in 0 .. n - 1
  PROVE  Code(n, i) \in Nat \ {0}
<1>1. CASE n <= 8
  BY <1>1, ShortCodes
<1>2. CASE n > 8
  <2>1. Code(n, i) - 48 \in Nat
    BY <1>2, LongCodes
  <2>2. Code(n, i) \in Int
    BY <1>2 DEF Code, LONG_BLOCK_BOUNDARY, LONG_BLOCK, LONG_BLOCK_INDEX_START
  <2>3. QED
    BY <2>1, <2>2
<1>3. QED
  BY <1>1, <1>2

\* The secondary shadow of a variable is within it.
LEMMA SecondaryInside ==
  ASSUME NEW o \in Objects, NEW x \in DOMAIN Secondary(o.base, o.size)
  PROVE  x \in ObjSpan(o)
<1>1. /\ o.base \in Nat \ {0} /\ o.size \in Nat \ {0}
      /\ \A y : y \in ObjSpan(o) <=> y \in Nat /\ o.base <= y /\ y < o.base + o.size
  BY ObjectFacts
<1>2. QED
  BY <1>1 DEF Secondary, LONG_BLOCK_BOUNDARY, LONG_BLOCK

(* shadow_alloca on shadows that are null there. *)
LEMMA AllocaEffect ==
  ASSUME NEW pr, NEW sc, StaticOK(pr, sc), NEW o \in Objects,
         \A x \in ObjSpan(o) : pr[x] = Zero,
         NEW pr2, pr2 = Alloca(pr, o.base, o.size),
         NEW sc2, sc2 = Overlay(sc, Secondary(o.base, o.size))
  PROVE  /\ StaticOK(pr2, sc2)
         /\ o \notin LaidSet(pr, sc)
         /\ LaidSet(pr2, sc2) = LaidSet(pr, sc) \cup {o}
         /\ \A x \in StaticAddr \ ObjSpan(o) : pr2[x] = pr[x]
         /\ \A x \in ObjSpan(o) : ~pr2[x].init /\ ~pr2[x].ro
<1> DEFINE n == o.size
           Firsts == {i \in 0 .. LONG_BLOCK_BOUNDARY(n) - 1 : i % 8 = 0}
<1>1. /\ pr \in PrimShadow /\ sc \in SecShadow
      /\ \A x \in StaticAddr : pr[x] # Zero => \E o2 \in LaidSet(pr, sc) : x \in ObjSpan(o2)
      /\ \A x \in StaticAddr : pr[x] = Zero => sc[x] = NoInfo
  BY DEF StaticOK
<1>2. /\ o.base \in Nat \ {0} /\ n \in Nat \ {0}
      /\ ObjSpan(o) \subseteq StaticAddr /\ o.base \in ObjSpan(o)
      /\ \A x \in ObjSpan(o) : x - o.base \in 0 .. n - 1
      /\ \A x : x \in ObjSpan(o) <=> x \in Nat /\ o.base <= x /\ x < o.base + n
  BY ObjectFacts
<1>3. \A i \in 0 .. n - 1 : Code(n, i) \in Nat \ {0}
  BY <1>2, CodesPositive
<1>4. /\ DOMAIN pr2 = StaticAddr
      /\ \A x \in StaticAddr \ ObjSpan(o) : pr2[x] = pr[x]
      /\ \A x \in ObjSpan(o) : pr2[x] = Coded(Code(n, x - o.base))
  BY <1>1, <1>2 DEF Alloca, Overlay, PrimShadow, ObjSpan
<1>5. \A x \in ObjSpan(o) :
        /\ pr2[x] \in [code : Nat, init : BOOLEAN, ro : BOOLEAN]
        /\ pr2[x].code = Code(n, x - o.base) /\ pr2[x].init = FALSE /\ pr2[x].ro = FALSE
  <2> TAKE x \in ObjSpan(o)
  <2> DEFINE c == Code(n, x - o.base)
  <2>1. c \in Nat /\ pr2[x] = Coded(c)
    BY <1>2, <1>3, <1>4
  <2> HIDE DEF c
  <2>2. /\ Coded(c) \in [code : Nat, init : BOOLEAN, ro : BOOLEAN]
        /\ Coded(c).code = c /\ Coded(c).init = FALSE /\ Coded(c).ro = FALSE
    BY <2>1, CodedFields
  <2>3. QED
    BY <2>1, <2>2 DEF c
<1>6. pr2 \in PrimShadow
  <2>1. \A x \in StaticAddr : pr2[x] \in [code : Nat, init : BOOLEAN, ro : BOOLEAN]
    BY <1>1, <1>4, <1>5 DEF PrimShadow
  <2>2. pr2 = [x \in StaticAddr |-> pr2[x]]
    BY DEF Alloca, Overlay, PrimShadow, StaticOK
  <2>3. QED
    BY <2>1, <2>2 DEF PrimShadow
<1>7. \A x \in StaticAddr \ ObjSpan(o) : sc2[x] = sc[x]
  <2>1. \A x \in DOMAIN Secondary(o.base, n) : x \in ObjSpan(o)
    BY SecondaryInside
  <2>2. QED
    BY <1>1, <2>1 DEF Overlay, SecShadow
<1>8. n > 8 => \A i \in Firsts : sc2[o.base + i] = [length |-> n, offset |-> i]
  <2>1. SUFFICES ASSUME n > 8, NEW i \in Firsts
                 PROVE  sc2[o.base + i] = [length |-> n, offset |-> i]
    OBVIOUS
  <2>2. o.base + i \in StaticAddr
    BY <1>2, <2>1 DEF LONG_BLOCK_BOUNDARY, LONG_BLOCK
  <2>3. ~(n <= 8)
    BY <1>2, <2>1
  <2>4. o.base + i \in {o.base + j : j \in Firsts}
    OBVIOUS
  <2>5. Secondary(o.base, n) = [a \in {o.base + j : j \in Firsts} |-> [length |-> n, offset |-> a - o.base]]
    BY <2>3 DEF Secondary, LONG_BLOCK
  <2>6. (o.base + i) - o.base = i
    BY <1>2
  <2>7. QED
    BY <1>1, <2>2, <2>4, <2>5, <2>6 DEF Overlay, SecShadow
<1>9. sc2 \in SecShadow
  <2>1. \A x \in StaticAddr : sc2[x] \in [length : Nat, offset : Nat]
    <3> TAKE x \in StaticAddr
    <3>1. CASE x \in DOMAIN Secondary(o.base, n)
      <4>1. n > 8
        BY <3>1, <1>2 DEF Secondary, LONG_BLOCK
      <4>2. PICK i \in Firsts : x = o.base + i
        BY <3>1, <4>1, <1>2 DEF Secondary, LONG_BLOCK
      <4>3. sc2[x] = [length |-> n, offset |-> i] /\ i \in Nat
        BY <4>1, <4>2, <1>8
      <4>4. QED
        BY <4>3, <1>2
    <3>2. CASE x \notin DOMAIN Secondary(o.base, n)
      BY <3>2, <1>1 DEF Overlay, SecShadow
    <3>3. QED
      BY <3>1, <3>2
  <2>2. sc2 = [x \in StaticAddr |-> sc2[x]]
    BY <1>1 DEF Overlay, SecShadow
  <2>3. QED
    BY <2>1, <2>2 DEF SecShadow
<1>10. Laid(pr2, sc2, o)
  <2>1. \A x \in ObjSpan(o) : pr2[x].code = Code(n, x - o.base) /\ pr2[x].ro = pr2[o.base].ro
    BY <1>2, <1>5
  <2>2. QED
    BY <1>8, <2>1 DEF Laid
<1>11. \A o2 \in LaidSet(pr, sc) : ObjSpan(o2) \cap ObjSpan(o) = {}
  BY <1>1, Decode DEF LaidSet
<1>12. \A o2 \in LaidSet(pr, sc) : o2 \in LaidSet(pr2, sc2)
  <2> TAKE o2 \in LaidSet(pr, sc)
  <2>1. o2 \in Objects /\ Laid(pr, sc, o2)
    BY DEF LaidSet
  <2>2. \A x \in ObjSpan(o2) : pr2[x] = pr[x] /\ sc2[x] = sc[x]
    BY <1>4, <1>7, <1>11, <2>1, ObjectFacts
  <2>3. QED
    BY <2>1, <2>2, LaidFrame DEF LaidSet
<1>13. ASSUME NEW o2 \in LaidSet(pr2, sc2), o2 # o PROVE o2 \in LaidSet(pr, sc)
  <2>1. o2 \in Objects /\ Laid(pr2, sc2, o2)
    BY DEF LaidSet
  <2>2. ObjSpan(o2) \cap ObjSpan(o) = {}
    BY <1>6, <1>10, <1>13, LaidApart DEF LaidSet
  <2>3. \A x \in ObjSpan(o2) : pr2[x] = pr[x] /\ sc2[x] = sc[x]
    BY <1>4, <1>7, <2>1, <2>2, ObjectFacts
  <2>4. QED
    BY <2>1, <2>3, LaidFrame DEF LaidSet
<1>14. o \in LaidSet(pr2, sc2) /\ o \notin LaidSet(pr, sc)
  BY <1>10, <1>2, <1>11 DEF LaidSet
<1>15. LaidSet(pr2, sc2) = LaidSet(pr, sc) \cup {o}
  BY <1>12, <1>13, <1>14
<1>16. StaticOK(pr2, sc2)
  <2>1. ASSUME NEW x \in StaticAddr, pr2[x] # Zero
        PROVE  \E o2 \in LaidSet(pr2, sc2) : x \in ObjSpan(o2)
    BY <1>1, <1>4, <1>15, <2>1
  <2>2. ASSUME NEW x \in StaticAddr, pr2[x] = Zero PROVE sc2[x] = NoInfo
    <3>1. x \notin ObjSpan(o)
      BY <1>6, <1>10, <2>2, Decode
    <3>2. QED
      BY <1>1, <1>4, <1>7, <2>2, <3>1
  <2>3. QED
    BY <1>6, <1>9, <2>1, <2>2 DEF StaticOK
<1>17. QED
  BY <1>4, <1>5, <1>14, <1>15, <1>16

(* shadow_freea of a laid variable. *)
LEMMA FreeaEffect ==
  ASSUME NEW pr, NEW sc, StaticOK(pr, sc), NEW o \in LaidSet(pr, sc)
  PROVE  LET pr2 == Freea(pr, o.base, o.size)
             sc2 == Overlay(sc, [a \in Span(o.base, o.size) |-> NoInfo])
         IN  /\ StaticOK(pr2, sc2)
             /\ LaidSet(pr2, sc2) = LaidSet(pr, sc) \ {o}
             /\ \A x \in StaticAddr \ ObjSpan(o) : pr2[x] = pr[x]
             /\ \A x \in ObjSpan(o) : pr2[x] = Zero
<1> DEFINE pr2 == Freea(pr, o.base, o.size)
           sc2 == Overlay(sc, [a \in Span(o.base, o.size) |-> NoInfo])
<1>1. /\ pr \in PrimShadow /\ sc \in SecShadow
      /\ \A x \in StaticAddr : pr[x] # Zero => \E o2 \in LaidSet(pr, sc) : x \in ObjSpan(o2)
      /\ \A x \in StaticAddr : pr[x] = Zero => sc[x] = NoInfo
  BY DEF StaticOK
<1>2. o \in Objects /\ ObjSpan(o) \subseteq StaticAddr /\ o.base \in ObjSpan(o)
  BY ObjectFacts DEF LaidSet
<1>3. /\ pr2 = [x \in StaticAddr |-> pr2[x]]
      /\ \A x \in StaticAddr \ ObjSpan(o) : pr2[x] = pr[x]
      /\ \A x \in ObjSpan(o) : pr2[x] = Zero
  BY <1>1, <1>2 DEF Freea, Overlay, PrimShadow, ObjSpan
<1>4. /\ sc2 = [x \in StaticAddr |-> sc2[x]]
      /\ \A x \in StaticAddr \ ObjSpan(o) : sc2[x] = sc[x]
      /\ \A x \in ObjSpan(o) : sc2[x] = NoInfo
  BY <1>1, <1>2 DEF Overlay, SecShadow, ObjSpan
<1> HIDE DEF pr2, sc2
<1>5. pr2 \in PrimShadow
  <2>1. Zero \in [code : Nat, init : BOOLEAN, ro : BOOLEAN]
    BY DEF Zero
  <2>2. \A x \in StaticAddr : pr2[x] \in [code : Nat, init : BOOLEAN, ro : BOOLEAN]
    BY <1>1, <1>3, <2>1 DEF PrimShadow
  <2>3. QED
    BY <1>3, <2>2 DEF PrimShadow
<1>6. sc2 \in SecShadow
  <2>1. \A x \in StaticAddr : sc2[x] \in [length : Nat, offset : Nat]
    BY <1>1, <1>4 DEF SecShadow, NoInfo
  <2>2. QED
    BY <1>4, <2>1 DEF SecShadow
<1>7. \A o2 \in LaidSet(pr, sc) \ {o} : o2 \in LaidSet(pr2, sc2)
  <2> TAKE o2 \in LaidSet(pr, sc) \ {o}
  <2>1. o2 \in Objects /\ Laid(pr, sc, o2)
    BY DEF LaidSet
  <2>2. \A x \in ObjSpan(o2) : pr2[x] = pr[x] /\ sc2[x] = sc[x]
    BY <1>1, <1>3, <1>4, <2>1, LaidApart, ObjectFacts
  <2>3. QED
    BY <2>1, <2>2, LaidFrame DEF LaidSet
<1>8. \A o2 \in LaidSet(pr2, sc2) : o2 \in LaidSet(pr, sc) \ {o}
  <2> TAKE o2 \in LaidSet(pr2, sc2)
  <2>1. o2 \in Objects /\ Laid(pr2, sc2, o2)
    BY DEF LaidSet
  <2>2. \A x \in ObjSpan(o2) : pr2[x] # Zero
    BY <1>5, <2>1, Decode
  <2>3. \A x \in ObjSpan(o2) : x \in StaticAddr \ ObjSpan(o)
    BY <1>3, <2>1, <2>2, ObjectFacts
  <2>4. \A x \in ObjSpan(o2) : pr2[x] = pr[x] /\ sc2[x] = sc[x]
    BY <1>3, <1>4, <2>3
  <2>5. o2 # o
    BY <1>2, <2>3
  <2>6. QED
    BY <2>1, <2>4, <2>5, LaidFrame DEF LaidSet
<1>9. LaidSet(pr2, sc2) = LaidSet(pr, sc) \ {o}
  BY <1>7, <1>8
<1>10. StaticOK(pr2, sc2)
  <2>1. \A x \in StaticAddr : pr2[x] # Zero => \E o2 \in LaidSet(pr2, sc2) : x \in ObjSpan(o2)
    BY <1>1, <1>3, <1>9
  <2>2. \A x \in StaticAddr : pr2[x] = Zero => sc2[x] = NoInfo
    BY <1>1, <1>3, <1>4
  <2>3. QED
    BY <1>5, <1>6, <2>1, <2>2 DEF StaticOK
<1>11. QED
  BY <1>3, <1>9, <1>10 DEF pr2, sc2

(* Bytes of a laid variable that only get other flags. *)
LEMMA FlagsEffect ==
  ASSUME NEW pr, NEW sc, StaticOK(pr, sc), NEW pr2 \in PrimShadow,
         \A x \in StaticAddr : pr2[x].code = pr[x].code,
         \A x \in StaticAddr : pr[x] = Zero => pr2[x] = Zero,
         \A o \in LaidSet(pr, sc) : \A x \in ObjSpan(o) : pr2[x].ro = pr2[o.base].ro
  PROVE  StaticOK(pr2, sc) /\ LaidSet(pr2, sc) = LaidSet(pr, sc)
<1>1. /\ pr \in PrimShadow /\ sc \in SecShadow
      /\ \A x \in StaticAddr : pr[x] # Zero => \E o2 \in LaidSet(pr, sc) : x \in ObjSpan(o2)
      /\ \A x \in StaticAddr : pr[x] = Zero => sc[x] = NoInfo
  BY DEF StaticOK
<1>2. \A o \in LaidSet(pr, sc) : o \in LaidSet(pr2, sc)
  <2> TAKE o \in LaidSet(pr, sc)
  <2>1. o \in Objects /\ Laid(pr, sc, o) /\ ObjSpan(o) \subseteq StaticAddr
    BY ObjectFacts DEF LaidSet
  <2>2. \A x \in ObjSpan(o) : pr2[x].code = Code(o.size, x - o.base) /\ pr2[x].ro = pr2[o.base].ro
    BY <2>1 DEF Laid
  <2>3. QED
    BY <2>1, <2>2 DEF LaidSet, Laid
<1>3. \A x \in StaticAddr : pr2[x] # Zero => \E o2 \in LaidSet(pr2, sc) : x \in ObjSpan(o2)
  BY <1>1, <1>2
<1>4. \A o2 \in LaidSet(pr2, sc) : o2 \in LaidSet(pr, sc)
  <2> TAKE o2 \in LaidSet(pr2, sc)
  <2>1. /\ o2 \in Objects /\ Laid(pr2, sc, o2)
        /\ o2.base \in ObjSpan(o2) /\ o2.base \in StaticAddr
    BY ObjectFacts DEF LaidSet
  <2>2. pr2[o2.base] # Zero
    BY <2>1, Decode
  <2>3. PICK o \in LaidSet(pr, sc) : o2.base \in ObjSpan(o)
    BY <1>1, <2>1, <2>2
  <2>4. o = o2
    BY <1>2, <2>1, <2>3, LaidApart
  <2>5. QED
    BY <2>3, <2>4
<1>5. \A x \in StaticAddr : pr2[x] = Zero => sc[x] = NoInfo
  <2> TAKE x \in StaticAddr
  <2>1. ASSUME pr2[x] = Zero, pr[x] # Zero PROVE FALSE
    <3>1. PICK o \in LaidSet(pr, sc) : x \in ObjSpan(o)
      BY <1>1, <2>1
    <3>2. o \in Objects /\ Laid(pr2, sc, o)
      BY <1>2 DEF LaidSet
    <3>3. QED
      BY <2>1, <3>1, <3>2, Decode
  <2>2. QED
    BY <1>1, <2>1
<1>6. LaidSet(pr2, sc) = LaidSet(pr, sc)
  BY <1>2, <1>4
<1>7. QED
  BY <1>1, <1>3, <1>5, <1>6 DEF StaticOK

-----------------------------------------------------------------------------
(* The heap and its segments, as a value sg for segment *)

\* Min is the least element.
LEMMA MinOfNats ==
  ASSUME NEW S \in SUBSET Nat, S # {}
  PROVE  Min(S) \in S /\ \A y \in S : Min(S) <= y
<1> DEFINE Less == {ss \in Nat \X Nat : ss[1] < ss[2]}
<1>1. OpToRel(<, Nat) = Less
  BY Zenon DEF OpToRel
<1>2. \E x \in S : \A y \in S : ~(<<y, x>> \in OpToRel(<, Nat))
  BY WFMin, NatLessThanWellFounded, Zenon
<1>3. \A x, y \in Nat : <<y, x>> \in Less <=> y < x
  OBVIOUS
<1>4. \E x \in S : \A y \in S : ~(y < x)
  <2>1. \E x \in S : \A y \in S : ~(<<y, x>> \in Less)
    BY <1>1, <1>2, Zenon
  <2> HIDE DEF Less
  <2>2. QED
    BY <1>3, <2>1, Zenon
<1>5. \E x \in S : \A y \in S : x <= y
  BY <1>4
<1>6. QED
  BY <1>5 DEF Min

\* ... of two numbers.
LEMMA MinOfTwo ==
  ASSUME NEW a \in Nat, NEW b \in Nat
  PROVE  /\ Min({a, b}) \in {a, b}
         /\ Min({a, b}) <= a /\ Min({a, b}) <= b
BY MinOfNats

Room(p, n) == Span(p, ALLOC_SIZE(n))

HeapShadow == [Segments -> [base : Nat, length : Nat]]
Starts(sg) == {a \in Segments : sg[a].base = a}

(* The segments are those of blocks, or are null. *)
HeapOK(sg) ==
  /\ sg \in HeapShadow
  /\ \A s \in Segments : sg[s].base # NULL =>
       /\ sg[s].base \in Starts(sg) \cap HeapBases
       /\ s \in Room(sg[s].base, sg[sg[s].base].length)
  /\ \A b \in Starts(sg) :
       /\ sg[b].length \in Sizes /\ b + ALLOC_SIZE(sg[b].length) <= HeapEnd
       /\ \A s \in Room(b, sg[b].length) \cap Segments : sg[s].base = b
  /\ \A s \in Segments : sg[s].base = NULL => sg[s].length = 0

\* The constants of the heap.
LEMMA HeapConstants ==
  /\ HEAP_START \in Nat \ {0} /\ StaticEnd <= HEAP_START /\ HEAP_START % HEAP_SEGMENT = 0
  /\ HeapEnd \in Nat /\ HEAP_SEGMENT \in Nat \ {0} /\ StaticEnd \in Nat
  /\ \A p \in HeapBases : p \in Nat \ {0} /\ HEAP_START <= p /\ p % HEAP_SEGMENT = 0
<1>1. HeapBases \in SUBSET Nat /\ HeapBases # {}
  BY SegmentAssumption
<1>2. HEAP_START \in HeapBases /\ \A y \in HeapBases : HEAP_START <= y
  BY <1>1, MinOfNats DEF HEAP_START
<1>3. QED
  BY <1>2, SegmentAssumption

(* A byte is in a room when its segment is. *)
LEMMA InRoom ==
  ASSUME NEW p \in Nat, p % HEAP_SEGMENT = 0, NEW n \in Nat, NEW x \in Nat
  PROVE  x \in Room(p, n) <=> AlignLeft(x) \in Room(p, n)
<1> DEFINE a == AlignLeft(x)
           e == p + ALLOC_SIZE(n)
<1>1. HEAP_SEGMENT \in Nat \ {0}
  BY HeapConstants
<1>2. a \in Nat /\ a <= x /\ x < a + HEAP_SEGMENT /\ a % HEAP_SEGMENT = 0
  BY LeftAligned
<1>3. ALLOC_SIZE(n) \in Nat /\ ALLOC_SIZE(n) % HEAP_SEGMENT = 0
  BY AllocSize
<1>4. e \in Nat /\ e % HEAP_SEGMENT = 0
  BY <1>1, <1>3, Multiples
<1>5. \A y \in Nat : y \in Room(p, n) <=> p <= y /\ y < e
  BY <1>3 DEF Room, Span
<1> HIDE DEF a, e
<1>10. a \in Int /\ e \in Int /\ p \in Int
  BY <1>2, <1>4
<1>6. a < p => a + HEAP_SEGMENT <= p
  BY <1>1, <1>2, <1>10, Multiples, Zenon
<1>7. a < e => a + HEAP_SEGMENT <= e
  BY <1>1, <1>2, <1>4, <1>10, Multiples, Zenon
<1>8. (p <= x /\ x < e) <=> (p <= a /\ a < e)
  BY <1>1, <1>2, <1>4, <1>6, <1>7
<1>9. QED
  BY <1>2, <1>5, <1>8 DEF a

\* A byte of the heap is in a segment.
LEMMA SegmentOfByte ==
  ASSUME NEW x \in HeapAddr
  PROVE  x \in Nat /\ AlignLeft(x) \in Segments
<1>1. x \in Nat /\ HEAP_START <= x /\ x < HeapEnd
  BY HeapConstants DEF HeapAddr
<1>2. /\ AlignLeft(x) \in Nat /\ AlignLeft(x) <= x /\ x < AlignLeft(x) + HEAP_SEGMENT
      /\ AlignLeft(x) % HEAP_SEGMENT = 0
  BY <1>1, LeftAligned
<1>3. AlignLeft(x) < HEAP_START => AlignLeft(x) + HEAP_SEGMENT <= HEAP_START
  BY <1>2, HeapConstants, Multiples
<1>4. HEAP_START <= AlignLeft(x)
  BY <1>1, <1>2, <1>3, HeapConstants
<1>5. QED
  BY <1>1, <1>2, <1>4, HeapConstants DEF Segments, HeapAddr

(* The room the allocator gives. *)
LEMMA RoomFacts ==
  ASSUME NEW p \in HeapBases, NEW n \in Sizes, p + ALLOC_SIZE(n) <= HeapEnd
  PROVE  /\ p \in Segments /\ p \in Room(p, n) /\ n \in Nat \ {0} /\ p \in Nat \ {0}
         /\ p \in Span(p, n) /\ Span(p, n) \subseteq Room(p, n) /\ Room(p, n) \subseteq HeapAddr
<1>1. n \in Nat \ {0}
  BY SegmentAssumption
<1>2. ALLOC_SIZE(n) \in Nat /\ n <= ALLOC_SIZE(n) /\ n > 0
  BY <1>1, AllocSize
<1>3. QED
  BY <1>1, <1>2, HeapConstants DEF Room, Span, Segments, HeapAddr

\* The room of a heap block is the bytes whose segment leads to its base.
LEMMA StartFacts ==
  ASSUME NEW sg, HeapOK(sg), NEW b \in Starts(sg)
  PROVE  /\ b \in HeapBases /\ sg[b].length \in Sizes /\ b + ALLOC_SIZE(sg[b].length) <= HeapEnd
         /\ b \in Nat \ {0} /\ AlignLeft(b) = b
         /\ \A x \in HeapAddr : x \in Room(b, sg[b].length) <=> sg[AlignLeft(x)].base = b
<1>1. b \in Segments /\ sg[b].base = b /\ b \in Nat /\ b # NULL
  BY HeapConstants DEF Starts, Segments, HeapAddr, NULL
<1>2. /\ b \in HeapBases /\ sg[b].length \in Sizes /\ b + ALLOC_SIZE(sg[b].length) <= HeapEnd
      /\ \A s \in Room(b, sg[b].length) \cap Segments : sg[s].base = b
      /\ \A s \in Segments : sg[s].base = b => s \in Room(b, sg[b].length)
  BY <1>1 DEF HeapOK
<1>3. b \in Nat \ {0} /\ b % HEAP_SEGMENT = 0 /\ sg[b].length \in Nat
  BY <1>2, HeapConstants, SegmentAssumption
<1>4. \A x \in HeapAddr : x \in Room(b, sg[b].length) <=> sg[AlignLeft(x)].base = b
  <2> TAKE x \in HeapAddr
  <2>1. x \in Nat /\ AlignLeft(x) \in Segments
    BY SegmentOfByte
  <2>2. x \in Room(b, sg[b].length) <=> AlignLeft(x) \in Room(b, sg[b].length)
    BY <1>3, <2>1, InRoom
  <2>3. QED
    BY <1>2, <2>1, <2>2
<1>5. QED
  BY <1>2, <1>3, <1>4, LeftAligned

(* Two blocks have no byte of their rooms in common. *)
LEMMA RoomsApart ==
  ASSUME NEW sg, HeapOK(sg), NEW b \in Starts(sg), NEW c \in Starts(sg), b # c
  PROVE  Room(b, sg[b].length) \cap Room(c, sg[c].length) = {}
<1>1. Room(b, sg[b].length) \subseteq HeapAddr
  BY StartFacts, RoomFacts
<1>2. QED
  BY <1>1, StartFacts

\* set_heap_segment, where there is room: one start more.
LEMMA SetEffect ==
  ASSUME NEW sg, HeapOK(sg), NEW p, NEW n \in Sizes, Available(sg, p, n)
  PROVE  LET sg2 == set_heap_segment(sg, p, n) IN
         /\ HeapOK(sg2)
         /\ p \notin Starts(sg) /\ Starts(sg2) = Starts(sg) \cup {p}
         /\ sg2[p].length = n
         /\ \A b \in Starts(sg) : /\ sg2[b] = sg[b]
                                  /\ Room(b, sg[b].length) \cap Room(p, n) = {}
         /\ \A s \in Segments \ Room(p, n) : sg2[s] = sg[s]
         /\ \A s \in Segments \cap Room(p, n) : sg2[s].base = p
<1> DEFINE sg2 == set_heap_segment(sg, p, n)
<1>1. /\ p \in HeapBases /\ p + ALLOC_SIZE(n) <= HeapEnd
      /\ \A s \in Segments \cap Room(p, n) : sg[s].base = NULL
  BY DEF Available, Room
<1>2. /\ p \in Segments /\ p \in Room(p, n) /\ n \in Nat \ {0} /\ p \in Nat \ {0}
      /\ Room(p, n) \subseteq HeapAddr
  BY <1>1, RoomFacts
<1>3. /\ sg \in HeapShadow
      /\ \A s \in Segments : sg[s].base \in Nat /\ sg[s].length \in Nat
      /\ \A s \in Segments : sg[s].base # NULL =>
           /\ sg[s].base \in Starts(sg) \cap HeapBases
           /\ s \in Room(sg[s].base, sg[sg[s].base].length)
      /\ \A b \in Starts(sg) :
           /\ sg[b].length \in Sizes /\ b + ALLOC_SIZE(sg[b].length) <= HeapEnd
           /\ \A s \in Room(b, sg[b].length) \cap Segments : sg[s].base = b
      /\ \A s \in Segments : sg[s].base = NULL => sg[s].length = 0
  BY DEF HeapOK, HeapShadow
<1>4. /\ sg2 = [s \in Segments |-> sg2[s]]
      /\ \A s \in Segments \ Room(p, n) : sg2[s] = sg[s]
      /\ \A s \in Segments \cap Room(p, n) :
           sg2[s] = [base |-> p, length |-> IF s = p THEN n ELSE 0]
  BY <1>3 DEF set_heap_segment, Overlay, HeapShadow, Room
<1> HIDE DEF sg2
<1>5. sg2 \in HeapShadow
  <2>1. \A s \in Segments : sg2[s] \in [base : Nat, length : Nat]
    BY <1>2, <1>3, <1>4 DEF HeapShadow
  <2>2. QED
    BY <1>4, <2>1 DEF HeapShadow
<1>6. /\ \A s \in Segments \cap Room(p, n) : sg2[s].base = p
      /\ sg2[p].length = n
  BY <1>2, <1>4
<1>7. \A b \in Starts(sg) : b \in Segments /\ b # NULL /\ b \notin Room(p, n) /\ sg2[b] = sg[b]
  <2> TAKE b \in Starts(sg)
  <2>1. b \in Segments /\ sg[b].base = b /\ b # NULL
    BY StartFacts DEF Starts, NULL
  <2>2. b \notin Room(p, n)
    BY <1>1, <2>1
  <2>3. QED
    BY <1>4, <2>1, <2>2
<1>8. Starts(sg2) = Starts(sg) \cup {p} /\ p \notin Starts(sg)
  <2>1. ASSUME NEW s \in Starts(sg2), s # p PROVE s \in Starts(sg)
    BY <1>4, <1>6, <2>1 DEF Starts
  <2>2. p \in Starts(sg2)
    BY <1>2, <1>6 DEF Starts
  <2>3. ASSUME NEW b \in Starts(sg) PROVE b \in Starts(sg2)
    <3>1. b \in Segments /\ b # NULL /\ sg2[b] = sg[b] /\ sg[b].base = b
      BY <1>7 DEF Starts
    <3>2. QED
      BY <3>1 DEF Starts
  <2>4. p \notin Starts(sg)
    <3>1. p \in Room(p, n)
      BY <1>2
    <3>2. QED
      BY <1>7, <3>1
  <2>5. QED
    BY <2>1, <2>2, <2>3, <2>4
<1>9. \A b \in Starts(sg) : Room(b, sg[b].length) \cap Room(p, n) = {}
  <2> TAKE b \in Starts(sg)
  <2>1. ASSUME NEW x \in Room(b, sg[b].length), x \in Room(p, n) PROVE FALSE
    <3>1. x \in HeapAddr /\ x \in Nat
      BY <1>2, <2>1, SegmentOfByte
    <3>2. sg[AlignLeft(x)].base = b
      BY <2>1, <3>1, StartFacts
    <3>3. AlignLeft(x) \in Segments /\ AlignLeft(x) \in Room(p, n)
      BY <1>1, <1>2, <2>1, <3>1, SegmentOfByte, InRoom, HeapConstants
    <3>4. QED
      BY <1>1, <1>7, <3>2, <3>3
  <2>2. QED
    BY <2>1
<1>10. ASSUME NEW s \in Segments, sg2[s].base # NULL
       PROVE  /\ sg2[s].base \in Starts(sg2) \cap HeapBases
              /\ s \in Room(sg2[s].base, sg2[sg2[s].base].length)
  <2>1. CASE s \in Room(p, n)
    BY <1>1, <1>6, <1>8, <2>1
  <2>2. CASE s \notin Room(p, n)
    BY <1>3, <1>4, <1>7, <1>8, <1>10, <2>2
  <2>3. QED
    BY <2>1, <2>2
<1>11. ASSUME NEW b \in Starts(sg2)
       PROVE  /\ sg2[b].length \in Sizes /\ b + ALLOC_SIZE(sg2[b].length) <= HeapEnd
              /\ \A s \in Room(b, sg2[b].length) \cap Segments : sg2[s].base = b
  <2>1. CASE b = p
    BY <1>1, <1>6, <2>1
  <2>2. CASE b \in Starts(sg)
    <3>1. sg2[b] = sg[b]
      BY <1>7, <2>2
    <3>2. \A s \in Room(b, sg[b].length) \cap Segments : sg2[s] = sg[s]
      BY <1>4, <1>9, <2>2
    <3>3. QED
      BY <1>3, <2>2, <3>1, <3>2
  <2>3. QED
    BY <1>8, <2>1, <2>2
<1>12. ASSUME NEW s \in Segments, sg2[s].base = NULL PROVE sg2[s].length = 0
  <2>1. s \notin Room(p, n)
    BY <1>2, <1>6, <1>12 DEF NULL
  <2>2. QED
    BY <1>3, <1>4, <1>12, <2>1
<1>13. HeapOK(sg2)
  BY <1>5, <1>10, <1>11, <1>12 DEF HeapOK
<1>14. QED
  BY <1>4, <1>6, <1>7, <1>8, <1>9, <1>13 DEF sg2

\* unset_heap_segment, of a block: one start less.
LEMMA UnsetEffect ==
  ASSUME NEW sg, HeapOK(sg), NEW p \in Starts(sg)
  PROVE  LET sg2 == unset_heap_segment(sg, p)
             R == Room(p, sg[p].length)
         IN  /\ HeapOK(sg2)
             /\ Starts(sg2) = Starts(sg) \ {p}
             /\ \A b \in Starts(sg) \ {p} : sg2[b] = sg[b]
             /\ \A s \in Segments \ R : sg2[s] = sg[s]
             /\ \A s \in Segments \cap R : sg2[s].base = NULL
<1> DEFINE sg2 == unset_heap_segment(sg, p)
           R == Room(p, sg[p].length)
<1>1. /\ sg \in HeapShadow
      /\ \A s \in Segments : sg[s].base \in Nat /\ sg[s].length \in Nat
      /\ \A s \in Segments : sg[s].base # NULL =>
           /\ sg[s].base \in Starts(sg) \cap HeapBases
           /\ s \in Room(sg[s].base, sg[sg[s].base].length)
      /\ \A b \in Starts(sg) :
           /\ sg[b].length \in Sizes /\ b + ALLOC_SIZE(sg[b].length) <= HeapEnd
           /\ \A s \in Room(b, sg[b].length) \cap Segments : sg[s].base = b
      /\ \A s \in Segments : sg[s].base = NULL => sg[s].length = 0
  BY DEF HeapOK, HeapShadow
<1>2. /\ sg2 = [s \in Segments |-> sg2[s]]
      /\ \A s \in Segments \ R : sg2[s] = sg[s]
      /\ \A s \in Segments \cap R : sg2[s] = [base |-> NULL, length |-> 0]
  BY <1>1 DEF unset_heap_segment, Overlay, HeapShadow, Room
<1>3. p \in R /\ p \in Segments /\ p # NULL
  BY StartFacts, RoomFacts DEF Starts, NULL
<1> HIDE DEF sg2, R
<1>4. sg2 \in HeapShadow
  <2>1. \A s \in Segments : sg2[s] \in [base : Nat, length : Nat]
    BY <1>1, <1>2 DEF HeapShadow, NULL
  <2>2. QED
    BY <1>2, <2>1 DEF HeapShadow
<1>5. \A s \in Segments \cap R : sg[s].base = p
  BY <1>1 DEF R
<1>6. \A b \in Starts(sg) \ {p} :
        /\ b \in Segments /\ b # NULL /\ b \notin R /\ sg2[b] = sg[b]
  BY <1>2, <1>5, StartFacts DEF Starts, NULL
<1>7. Starts(sg2) = Starts(sg) \ {p}
  <2>1. ASSUME NEW s \in Starts(sg2) PROVE s \in Starts(sg) \ {p}
    <3>1. s \in Segments /\ s # NULL
      BY HeapConstants DEF Starts, Segments, HeapAddr, NULL
    <3>2. s \notin R
      BY <1>2, <2>1, <3>1 DEF Starts
    <3>3. QED
      BY <1>2, <1>3, <2>1, <3>1, <3>2 DEF Starts
  <2>2. QED
    BY <1>6, <2>1 DEF Starts
<1>8. ASSUME NEW s \in Segments, sg2[s].base # NULL
      PROVE  /\ sg2[s].base \in Starts(sg2) \cap HeapBases
             /\ s \in Room(sg2[s].base, sg2[sg2[s].base].length)
  <2>1. s \notin R /\ sg2[s] = sg[s]
    BY <1>2, <1>8
  <2>2. sg[s].base # p
    BY <1>1, <1>3, <1>8, <2>1 DEF R
  <2>3. QED
    BY <1>1, <1>6, <1>7, <1>8, <2>1, <2>2
<1>9. ASSUME NEW b \in Starts(sg2)
      PROVE  /\ sg2[b].length \in Sizes /\ b + ALLOC_SIZE(sg2[b].length) <= HeapEnd
             /\ \A s \in Room(b, sg2[b].length) \cap Segments : sg2[s].base = b
  <2>1. b \in Starts(sg) \ {p} /\ sg2[b] = sg[b]
    BY <1>6, <1>7
  <2>2. \A s \in Room(b, sg[b].length) \cap Segments : s \notin R
    BY <1>1, <1>5, <2>1
  <2>3. QED
    BY <1>1, <1>2, <2>1, <2>2
<1>10. ASSUME NEW s \in Segments, sg2[s].base = NULL PROVE sg2[s].length = 0
  BY <1>1, <1>2, <1>10
<1>11. HeapOK(sg2)
  BY <1>4, <1>8, <1>9, <1>10 DEF HeapOK
<1>12. \A s \in Segments \cap R : sg2[s].base = NULL
  BY <1>2
<1>13. QED
  BY <1>2, <1>6, <1>7, <1>11, <1>12 DEF sg2, R

-----------------------------------------------------------------------------
(* The invariant.  What is laid in the shadows of the variables, and the   *)
(* segments of the heap, are as StaticOK and HeapOK say; the flags of the  *)
(* bytes of variables are what the program has written, and in no place    *)
(* but a block has anything been written or marked.                        *)
ShadowInv ==
  /\ StaticOK(prim, sec)
  /\ \A x \in StaticAddr : prim[x].init <=> x \in written
  /\ \A x \in StaticAddr : prim[x].ro => x < GlobalEnd
  /\ HeapOK(segment)
  /\ init \subseteq HeapAddr
  /\ \A x \in init : segment[AlignLeft(x)].base # NULL
  /\ written \subseteq Addr
  /\ \A x \in written \cap HeapAddr :
       \E b \in Starts(segment) : x \in Span(b, segment[b].length)

(* The blocks that the shadows hold. *)
VarBlock(pr, o) ==
  [base |-> o.base, size |-> o.size, heap |-> FALSE, readonly |-> pr[o.base].ro]
HeapBlock(sg, b) ==
  [base |-> b, size |-> sg[b].length, heap |-> TRUE, readonly |-> FALSE]

BlocksOf(pr, sc, sg) ==
  {VarBlock(pr, o) : o \in LaidSet(pr, sc)} \cup {HeapBlock(sg, b) : b \in Starts(sg)}

\* The test of Stored, on a layout.
LEMMA StoredIsLaid ==
  ASSUME NEW pr, NEW sc, StaticOK(pr, sc), NEW o \in Objects
  PROVE  (pr[o.base] # Zero /\ Info(pr, sc, o.base) = [length |-> o.size, offset |-> 0])
           <=> o \in LaidSet(pr, sc)
<1>1. o.base \in ObjSpan(o) /\ o.base \in StaticAddr /\ o.base \in Nat
  BY ObjectFacts
<1>2. ASSUME pr[o.base] # Zero, Info(pr, sc, o.base) = [length |-> o.size, offset |-> 0]
      PROVE  o \in LaidSet(pr, sc)
  <2>1. PICK o2 \in LaidSet(pr, sc) : o.base \in ObjSpan(o2)
    BY <1>1, <1>2 DEF StaticOK
  <2>2. o2 \in Objects /\ Laid(pr, sc, o2) /\ pr \in PrimShadow
    BY DEF LaidSet, StaticOK
  <2>3. Info(pr, sc, o.base) = [length |-> o2.size, offset |-> o.base - o2.base]
    BY <2>1, <2>2, Decode
  <2>4. o.size = o2.size /\ o.base - o2.base = 0
    BY <1>2, <2>3
  <2>5. o.base = o2.base
    BY <1>1, <2>2, <2>4, ObjectFacts
  <2>6. o = o2
    BY <2>2, <2>4, <2>5, ObjectFacts
  <2>7. QED
    BY <2>1, <2>6
<1>3. ASSUME o \in LaidSet(pr, sc)
      PROVE  pr[o.base] # Zero /\ Info(pr, sc, o.base) = [length |-> o.size, offset |-> 0]
  <2>1. Laid(pr, sc, o) /\ pr \in PrimShadow
    BY <1>3 DEF LaidSet, StaticOK
  <2>2. o.base - o.base = 0
    BY <1>1
  <2>3. QED
    BY <1>1, <2>1, <2>2, Decode
<1>4. QED
  BY <1>2, <1>3

\* Decoding the static shadow gives the variables that are laid.
LEMMA VarBlocks ==
  ASSUME NEW pr, NEW sc, StaticOK(pr, sc)
  PROVE  {[base |-> a, size |-> Info(pr, sc, a).length, heap |-> FALSE, readonly |-> pr[a].ro] :
            a \in {a \in StaticAddr : pr[a] # Zero /\ Info(pr, sc, a).offset = 0}}
         = {VarBlock(pr, o) : o \in LaidSet(pr, sc)}
<1> DEFINE First == {a \in StaticAddr : pr[a] # Zero /\ Info(pr, sc, a).offset = 0}
<1>1. ASSUME NEW a \in First
      PROVE  \E o \in LaidSet(pr, sc) : a = o.base /\ Info(pr, sc, a).length = o.size
  <2>1. PICK o \in LaidSet(pr, sc) : a \in ObjSpan(o)
    BY <1>1 DEF StaticOK
  <2>2. o \in Objects /\ Laid(pr, sc, o) /\ pr \in PrimShadow
    BY DEF LaidSet, StaticOK
  <2>3. Info(pr, sc, a) = [length |-> o.size, offset |-> a - o.base]
    BY <2>1, <2>2, Decode
  <2>4. a - o.base = 0 /\ Info(pr, sc, a).length = o.size
    BY <1>1, <2>3
  <2>5. a \in Nat /\ o.base \in Nat
    BY <2>1, <2>2, ObjectFacts
  <2>6. QED
    BY <2>1, <2>4, <2>5
<1>2. ASSUME NEW o \in LaidSet(pr, sc)
      PROVE  o.base \in First /\ Info(pr, sc, o.base).length = o.size
  <2>1. o \in Objects /\ o.base \in StaticAddr
    BY ObjectFacts DEF LaidSet
  <2>2. pr[o.base] # Zero /\ Info(pr, sc, o.base) = [length |-> o.size, offset |-> 0]
    BY <2>1, StoredIsLaid, Zenon
  <2>3. QED
    BY <2>1, <2>2
<1>3. QED
  BY <1>1, <1>2 DEF VarBlock

\* What Blocks decodes is the layout.
LEMMA DecodedBlocks ==
  /\ ShadowInv => Blocks = BlocksOf(prim, sec, segment)
  /\ ShadowInv' => Blocks' = BlocksOf(prim', sec', segment')
<1>1. ShadowInv => Blocks = BlocksOf(prim, sec, segment)
  <2>1. ShadowInv => StaticBlocks = {VarBlock(prim, o) : o \in LaidSet(prim, sec)}
    BY VarBlocks DEF ShadowInv, StaticBlocks, StaticBlockBases, static_info, Tracked, Info
  <2>2. HeapBlocks = {HeapBlock(segment, b) : b \in Starts(segment)}
    BY DEF HeapBlocks, HeapBlockBases, HeapBlock, Starts
  <2>3. QED
    BY <2>1, <2>2 DEF Blocks, BlocksOf
<1>2. ShadowInv' => Blocks' = BlocksOf(prim', sec', segment')
  <2>1. ShadowInv' => StaticBlocks' = {VarBlock(prim', o) : o \in LaidSet(prim', sec')}
    BY VarBlocks DEF ShadowInv, StaticBlocks, StaticBlockBases, static_info, Tracked, Info
  <2>2. HeapBlocks' = {HeapBlock(segment', b) : b \in Starts(segment')}
    BY DEF HeapBlocks, HeapBlockBases, HeapBlock, Starts
  <2>3. QED
    BY <2>1, <2>2 DEF Blocks, BlocksOf
<1>3. QED
  BY <1>1, <1>2

(* A block of the shadows is a block of BlockMap, and its bytes.           *)
LEMMA BlockShapes ==
  /\ \A pr \in PrimShadow, o \in Objects :
       /\ VarBlock(pr, o) \in Memory!Block
       /\ Memory!Bytes(VarBlock(pr, o)) = ObjSpan(o)
       /\ Memory!Footprint(VarBlock(pr, o)) = ObjSpan(o)
  /\ \A sg, b : b \in HeapBases /\ sg[b].length \in Sizes
                  /\ b + ALLOC_SIZE(sg[b].length) <= HeapEnd =>
       /\ HeapBlock(sg, b) \in Memory!Block
       /\ Memory!Bytes(HeapBlock(sg, b)) = Span(b, sg[b].length)
       /\ Memory!Footprint(HeapBlock(sg, b)) = Span(b, sg[b].length)
  /\ StaticAddr \cap HeapAddr = {} /\ Addr = StaticAddr \cup HeapAddr
<1>1. StaticAddr \cap HeapAddr = {} /\ Addr = StaticAddr \cup HeapAddr
  BY HeapConstants DEF StaticAddr, HeapAddr, Addr
<1>2. ASSUME NEW pr \in PrimShadow, NEW o \in Objects
      PROVE  /\ VarBlock(pr, o) \in Memory!Block
             /\ Memory!Bytes(VarBlock(pr, o)) = ObjSpan(o)
             /\ Memory!Footprint(VarBlock(pr, o)) = ObjSpan(o)
  <2>1. o.base \in StaticAddr /\ o.base \in ObjSpan(o) /\ pr[o.base].ro \in BOOLEAN
    BY ObjectFacts DEF PrimShadow
  <2>2. Memory!Bytes(VarBlock(pr, o)) = ObjSpan(o)
    BY DEF VarBlock, Memory!Bytes, Memory!Span, ObjSpan, Span
  <2>3. QED
    BY <1>1, <2>1, <2>2 DEF VarBlock, Memory!Block, Memory!Footprint
<1>3. ASSUME NEW sg, NEW b \in HeapBases, sg[b].length \in Sizes,
             b + ALLOC_SIZE(sg[b].length) <= HeapEnd
      PROVE  /\ HeapBlock(sg, b) \in Memory!Block
             /\ Memory!Bytes(HeapBlock(sg, b)) = Span(b, sg[b].length)
             /\ Memory!Footprint(HeapBlock(sg, b)) = Span(b, sg[b].length)
  <2>1. b \in HeapAddr /\ b \in Span(b, sg[b].length)
    BY <1>3, RoomFacts DEF Segments
  <2>2. Memory!Bytes(HeapBlock(sg, b)) = Span(b, sg[b].length)
    BY DEF HeapBlock, Memory!Bytes, Memory!Span, Span
  <2>3. QED
    BY <1>1, <1>3, <2>1, <2>2 DEF HeapBlock, Memory!Block, Memory!Footprint
<1>4. QED
  BY <1>1, <1>2, <1>3

-----------------------------------------------------------------------------
(* The calls on variables *)

\* Each call keeps the invariant and does what BlockMap says: the store of a variable.
LEMMA AllocaStep ==
  ASSUME ShadowInv, NEW o \in Objects, shadow_alloca(o)
  PROVE  ShadowInv' /\ \E b \in Memory!Added : Memory!Store(b)
<1> DEFINE b == VarBlock(prim', o)
           L == LaidSet(prim, sec)
<1>1. /\ \A x \in ObjSpan(o) : prim[x] = Zero
      /\ prim' = Alloca(prim, o.base, o.size)
      /\ sec' = Overlay(sec, Secondary(o.base, o.size))
      /\ UNCHANGED <<segment, init, heap, status, written>>
  BY DEF shadow_alloca, Tracked, ObjSpan
<1>2. /\ StaticOK(prim, sec) /\ HeapOK(segment) /\ prim \in PrimShadow
      /\ \A x \in StaticAddr : prim[x].init <=> x \in written
      /\ \A x \in StaticAddr : prim[x].ro => x < GlobalEnd
  BY DEF ShadowInv, StaticOK
<1>3. /\ StaticOK(prim', sec') /\ prim' \in PrimShadow
      /\ o \notin L /\ LaidSet(prim', sec') = L \cup {o}
      /\ \A x \in StaticAddr \ ObjSpan(o) : prim'[x] = prim[x]
      /\ \A x \in ObjSpan(o) : ~prim'[x].init /\ ~prim'[x].ro
  <2>1. /\ StaticOK(prim', sec')
        /\ o \notin L /\ LaidSet(prim', sec') = L \cup {o}
        /\ \A x \in StaticAddr \ ObjSpan(o) : prim'[x] = prim[x]
        /\ \A x \in ObjSpan(o) : ~prim'[x].init /\ ~prim'[x].ro
    BY <1>1, <1>2, AllocaEffect
  <2>2. prim' \in PrimShadow
    BY <2>1 DEF StaticOK
  <2>3. QED
    BY <2>1, <2>2, Zenon
<1>4. \A x \in ObjSpan(o) : ~prim[x].init /\ x \in StaticAddr
  BY <1>1, ObjectFacts DEF Zero
<1>5. \A x \in StaticAddr : prim'[x].init <=> x \in written
  BY <1>2, <1>3, <1>4
<1>6. \A x \in StaticAddr : prim'[x].ro => x < GlobalEnd
  BY <1>2, <1>3
<1>7. ShadowInv'
  BY <1>1, <1>3, <1>5, <1>6 DEF ShadowInv
<1>8. Blocks = BlocksOf(prim, sec, segment) /\ Blocks' = BlocksOf(prim', sec', segment)
  BY <1>1, <1>7, DecodedBlocks
<1>9. \A o2 \in L : /\ o2 \in Objects /\ ObjSpan(o2) \cap ObjSpan(o) = {}
                    /\ VarBlock(prim', o2) = VarBlock(prim, o2)
  <2> TAKE o2 \in L
  <2>1. o2 \in Objects /\ Laid(prim, sec, o2) /\ o2.base \in ObjSpan(o2) /\ o2.base \in StaticAddr
    BY ObjectFacts DEF LaidSet
  <2>2. ObjSpan(o2) \cap ObjSpan(o) = {}
    BY <1>1, <1>2, <2>1, Decode
  <2>3. prim'[o2.base] = prim[o2.base]
    BY <1>3, <2>1, <2>2
  <2>4. QED
    BY <2>1, <2>2, <2>3 DEF VarBlock
<1>10. Blocks' = Blocks \cup {b}
  BY <1>3, <1>8, <1>9 DEF BlocksOf
<1>11. \A c \in Blocks : Memory!Footprint(b) \cap Memory!Footprint(c) = {}
  <2> TAKE c \in Blocks
  <2>1. Memory!Footprint(b) = ObjSpan(o) /\ ObjSpan(o) \subseteq StaticAddr
    BY <1>3, BlockShapes, ObjectFacts
  <2>2. CASE \E o2 \in L : c = VarBlock(prim, o2)
    BY <1>2, <1>9, <2>1, <2>2, BlockShapes
  <2>3. CASE \E s \in Starts(segment) : c = HeapBlock(segment, s)
    <3>1. PICK s \in Starts(segment) : c = HeapBlock(segment, s)
      BY <2>3
    <3>2. /\ Memory!Footprint(c) = Span(s, segment[s].length)
          /\ Span(s, segment[s].length) \subseteq HeapAddr
      BY <1>2, <3>1, StartFacts, RoomFacts, BlockShapes
    <3>3. QED
      BY <2>1, <3>2, BlockShapes
  <2>4. QED
    BY <1>8, <2>2, <2>3 DEF BlocksOf
<1>12. /\ b \in Memory!Block /\ ~b.heap /\ ~b.readonly
       /\ Memory!Footprint(b) \subseteq Addr /\ Memory!Footprint(b) # {}
  <2>1. o.base \in ObjSpan(o) /\ ObjSpan(o) \subseteq StaticAddr /\ ~prim'[o.base].ro
    BY <1>3, ObjectFacts
  <2>2. QED
    BY <1>3, <2>1, BlockShapes DEF VarBlock
<1>13. b \notin Blocks
  BY <1>11, <1>12
<1>14. Memory!Store(b) /\ b \in Memory!Added
  BY <1>1, <1>10, <1>11, <1>12, <1>13 DEF Memory!Store, Memory!Clear, Memory!Added
<1>15. QED
  BY <1>7, <1>14

(* A call on a variable leaves the blocks of the others alone. *)
LEMMA OtherVarBlocks ==
  ASSUME NEW pr \in PrimShadow, NEW sc, NEW o \in LaidSet(pr, sc), NEW pr2,
         \A x \in StaticAddr \ ObjSpan(o) : pr2[x] = pr[x]
  PROVE  \A o2 \in LaidSet(pr, sc) \ {o} : /\ VarBlock(pr2, o2) = VarBlock(pr, o2)
                                           /\ VarBlock(pr, o2) # VarBlock(pr, o)
<1> TAKE o2 \in LaidSet(pr, sc) \ {o}
<1>1. o2 \in Objects /\ o2.base \in ObjSpan(o2) /\ o2.base \in StaticAddr
  BY ObjectFacts DEF LaidSet
<1>2. o2.base \notin ObjSpan(o)
  BY <1>1, LaidApart
<1>3. pr2[o2.base] = pr[o2.base] /\ o2.base # o.base
  BY <1>1, <1>2, ObjectFacts DEF LaidSet
<1>4. QED
  BY <1>3 DEF VarBlock

\* The end of a variable.
LEMMA FreeaStep ==
  ASSUME ShadowInv, NEW o \in Objects, shadow_freea(o)
  PROVE  ShadowInv' /\ \E b \in Blocks : Memory!Delete(b)
<1> DEFINE b == VarBlock(prim, o)
           L == LaidSet(prim, sec)
<1>1. /\ StaticOK(prim, sec) /\ HeapOK(segment) /\ prim \in PrimShadow
      /\ \A x \in StaticAddr : prim[x].init <=> x \in written
      /\ \A x \in StaticAddr : prim[x].ro => x < GlobalEnd
      /\ written \subseteq Addr
  BY DEF ShadowInv, StaticOK
<1>2. o \in L /\ static_info(o.base).length = o.size
  <2>1. prim[o.base] # Zero /\ Info(prim, sec, o.base) = [length |-> o.size, offset |-> 0]
    BY DEF shadow_freea, Stored, Tracked, static_info, Info
  <2>2. o \in L
    BY <1>1, <2>1, StoredIsLaid, Zenon
  <2>3. QED
    BY <2>1, <2>2 DEF static_info, Info
<1>3. /\ prim' = Freea(prim, o.base, o.size)
      /\ sec' = Overlay(sec, [a \in Span(o.base, o.size) |-> NoInfo])
      /\ written' = written \ ObjSpan(o)
      /\ UNCHANGED <<segment, init, heap, status>>
  BY <1>2 DEF shadow_freea, ForgetSec, ObjSpan
<1>4. /\ StaticOK(prim', sec') /\ prim' \in PrimShadow
      /\ LaidSet(prim', sec') = L \ {o}
      /\ \A x \in StaticAddr \ ObjSpan(o) : prim'[x] = prim[x]
      /\ \A x \in ObjSpan(o) : prim'[x] = Zero
  BY <1>1, <1>2, <1>3, FreeaEffect DEF StaticOK
<1>5. \A x \in ObjSpan(o) : prim'[x].init = FALSE /\ prim'[x].ro = FALSE /\ x \in StaticAddr
  BY <1>4, ObjectFacts DEF Zero
<1>6. \A x \in StaticAddr : prim'[x].init <=> x \in written'
  BY <1>1, <1>3, <1>4, <1>5
<1>7. \A x \in StaticAddr : prim'[x].ro => x < GlobalEnd
  BY <1>1, <1>4, <1>5
<1>8. ShadowInv'
  BY <1>3, <1>4, <1>6, <1>7 DEF ShadowInv
<1>9. Blocks = BlocksOf(prim, sec, segment) /\ Blocks' = BlocksOf(prim', sec', segment)
  BY <1>3, <1>8, DecodedBlocks
<1>10. \A o2 \in L \ {o} : /\ VarBlock(prim', o2) = VarBlock(prim, o2)
                           /\ VarBlock(prim, o2) # b
  BY <1>1, <1>2, <1>4, OtherVarBlocks
<1>11. Blocks' = Blocks \ {b} /\ b \in Blocks
  <2>1. \A s \in Starts(segment) : HeapBlock(segment, s) # b
    BY DEF HeapBlock, VarBlock
  <2>2. QED
    BY <1>2, <1>4, <1>9, <1>10, <2>1 DEF BlocksOf
<1>12. Memory!Bytes(b) = ObjSpan(o) /\ ~b.heap
  BY <1>1, BlockShapes DEF VarBlock
<1>13. Memory!Delete(b)
  BY <1>3, <1>11, <1>12 DEF Memory!Delete
<1>14. QED
  BY <1>8, <1>11, <1>13

\* The read-only flag of a variable is that of its first byte.
LEMMA WithReadonly ==
  ASSUME NEW pr, NEW pr2, NEW o, NEW v, pr2[o.base].ro = v
  PROVE  VarBlock(pr2, o) = [VarBlock(pr, o) EXCEPT !.readonly = v]
<1> DEFINE a == o.base
           n == o.size
           h == FALSE
           r == pr[o.base].ro
<1>1. VarBlock(pr, o) = [base |-> a, size |-> n, heap |-> h, readonly |-> r]
  BY DEF VarBlock
<1>2. VarBlock(pr2, o) = [base |-> a, size |-> n, heap |-> h, readonly |-> v]
  BY DEF VarBlock
<1> HIDE DEF a, n, h, r
<1>3. [[base |-> a, size |-> n, heap |-> h, readonly |-> r] EXCEPT !.readonly = v]
      = [base |-> a, size |-> n, heap |-> h, readonly |-> v]
  BY Z3
<1>4. QED
  BY <1>1, <1>2, <1>3

(* The end of the life of a variable and the start of a new one. *)
LEMMA DuplicateStep ==
  ASSUME ShadowInv, NEW o \in Objects, eacsl_store_block_duplicate(o)
  PROVE  ShadowInv' /\ \E b \in Blocks : Memory!StoreAgain(b)
<1> DEFINE b == VarBlock(prim, o)
           L == LaidSet(prim, sec)
           pr1 == Freea(prim, o.base, o.size)
           sc1 == Overlay(sec, [a \in Span(o.base, o.size) |-> NoInfo])
<1>1. /\ StaticOK(prim, sec) /\ HeapOK(segment) /\ prim \in PrimShadow
      /\ \A x \in StaticAddr : prim[x].init <=> x \in written
      /\ \A x \in StaticAddr : prim[x].ro => x < GlobalEnd
      /\ written \subseteq Addr
  BY DEF ShadowInv, StaticOK
<1>2. o \in L /\ static_info(o.base).length = o.size
  <2>1. prim[o.base] # Zero /\ Info(prim, sec, o.base) = [length |-> o.size, offset |-> 0]
    BY DEF eacsl_store_block_duplicate, Stored, Tracked, static_info, Info
  <2>2. o \in L
    BY <1>1, <2>1, StoredIsLaid, Zenon
  <2>3. QED
    BY <2>1, <2>2 DEF static_info, Info
<1>3. /\ prim' = Alloca(pr1, o.base, o.size)
      /\ sec' = Overlay(sc1, Secondary(o.base, o.size))
      /\ written' = written \ ObjSpan(o)
      /\ UNCHANGED <<segment, init, heap, status>>
  BY <1>2 DEF eacsl_store_block_duplicate, ForgetSec, ObjSpan
<1>4. /\ StaticOK(pr1, sc1)
      /\ LaidSet(pr1, sc1) = L \ {o}
      /\ \A x \in StaticAddr \ ObjSpan(o) : pr1[x] = prim[x]
      /\ \A x \in ObjSpan(o) : pr1[x] = Zero
  BY <1>1, <1>2, FreeaEffect
<1> HIDE DEF pr1, sc1
<1>5. /\ StaticOK(prim', sec')
      /\ LaidSet(prim', sec') = LaidSet(pr1, sc1) \cup {o}
      /\ \A x \in StaticAddr \ ObjSpan(o) : prim'[x] = pr1[x]
      /\ \A x \in ObjSpan(o) : ~prim'[x].init /\ ~prim'[x].ro
  BY <1>3, <1>4, AllocaEffect
<1>6. /\ prim' \in PrimShadow /\ LaidSet(prim', sec') = L
      /\ \A x \in StaticAddr \ ObjSpan(o) : prim'[x] = prim[x]
      /\ o.base \in ObjSpan(o) /\ ObjSpan(o) \subseteq StaticAddr
  BY <1>2, <1>4, <1>5, ObjectFacts DEF StaticOK
<1>7. \A x \in StaticAddr : prim'[x].init <=> x \in written'
  BY <1>1, <1>3, <1>5, <1>6
<1>8. \A x \in StaticAddr : prim'[x].ro => x < GlobalEnd
  BY <1>1, <1>5, <1>6
<1>9. ShadowInv'
  BY <1>3, <1>5, <1>7, <1>8 DEF ShadowInv
<1>10. Blocks = BlocksOf(prim, sec, segment) /\ Blocks' = BlocksOf(prim', sec', segment)
  BY <1>3, <1>9, DecodedBlocks
<1>11. \A o2 \in L \ {o} : /\ VarBlock(prim', o2) = VarBlock(prim, o2)
                           /\ VarBlock(prim, o2) # b
  BY <1>1, <1>2, <1>6, OtherVarBlocks
<1>12. VarBlock(prim', o) = [b EXCEPT !.readonly = FALSE]
  <2>1. prim'[o.base].ro = FALSE
    BY <1>5, <1>6 DEF PrimShadow
  <2>2. QED
    BY <2>1, WithReadonly
<1>13. Blocks' = (Blocks \ {b}) \cup {[b EXCEPT !.readonly = FALSE]} /\ b \in Blocks
  <2>1. /\ o \in LaidSet(prim, sec) /\ LaidSet(prim', sec') = LaidSet(prim, sec)
        /\ \A o2 \in LaidSet(prim, sec) \ {o} : /\ VarBlock(prim', o2) = VarBlock(prim, o2)
                                                /\ VarBlock(prim, o2) # VarBlock(prim, o)
    BY <1>2, <1>6, <1>11
  <2>3. /\ VarBlock(prim, o) \in BlocksOf(prim, sec, segment)
        /\ BlocksOf(prim', sec', segment)
             = (BlocksOf(prim, sec, segment) \ {VarBlock(prim, o)}) \cup {VarBlock(prim', o)}
    <3>1. \A s \in Starts(segment) : HeapBlock(segment, s) # VarBlock(prim, o)
      BY DEF HeapBlock, VarBlock
    <3>2. QED
      BY <2>1, <3>1 DEF BlocksOf
  <2>2. QED
    BY <1>10, <1>12, <2>3
<1>14. Memory!Bytes(b) = ObjSpan(o) /\ ~b.heap
  BY <1>1, BlockShapes DEF VarBlock
<1>15. Memory!StoreAgain(b)
  BY <1>3, <1>13, <1>14 DEF Memory!StoreAgain
<1>16. QED
  BY <1>9, <1>13, <1>15

\* A literal string.
LEMMA ReadonlyStep ==
  ASSUME ShadowInv, NEW o \in Objects, eacsl_mark_readonly(o)
  PROVE  ShadowInv' /\ \E b \in Blocks : Memory!MarkReadonly(b)
<1> DEFINE b == VarBlock(prim, o)
           L == LaidSet(prim, sec)
<1>1. /\ StaticOK(prim, sec) /\ HeapOK(segment) /\ prim \in PrimShadow
      /\ \A x \in StaticAddr : prim[x].init <=> x \in written
      /\ \A x \in StaticAddr : prim[x].ro => x < GlobalEnd
  BY DEF ShadowInv, StaticOK
<1>2. o \in L /\ static_info(o.base).length = o.size
  <2>1. prim[o.base] # Zero /\ Info(prim, sec, o.base) = [length |-> o.size, offset |-> 0]
    BY DEF eacsl_mark_readonly, Stored, Tracked, static_info, Info
  <2>2. o \in L
    BY <1>1, <2>1, StoredIsLaid, Zenon
  <2>3. QED
    BY <2>1, <2>2 DEF static_info, Info
<1>3. /\ prim' = Overlay(prim, [a \in ObjSpan(o) |-> [prim[a] EXCEPT !.ro = TRUE]])
      /\ o.base < GlobalEnd
      /\ UNCHANGED <<sec, segment, init, heap, status, written>>
  BY <1>2 DEF eacsl_mark_readonly, ObjSpan
<1>4. /\ o \in Objects /\ ObjSpan(o) \subseteq StaticAddr /\ o.base \in ObjSpan(o)
      /\ \A x \in ObjSpan(o) : x < GlobalEnd
  BY <1>3, ObjectFacts
<1>5. /\ prim' = [x \in StaticAddr |-> prim'[x]]
      /\ \A x \in StaticAddr \ ObjSpan(o) : prim'[x] = prim[x]
      /\ \A x \in ObjSpan(o) : prim'[x] = [prim[x] EXCEPT !.ro = TRUE]
  BY <1>1, <1>3, <1>4 DEF Overlay, PrimShadow
<1>6. \A x \in ObjSpan(o) :
        /\ prim'[x] \in [code : Nat, init : BOOLEAN, ro : BOOLEAN]
        /\ prim'[x].code = prim[x].code /\ (prim'[x].init <=> prim[x].init)
        /\ prim'[x].ro = TRUE
  <2> TAKE x \in ObjSpan(o)
  <2> DEFINE r == prim[x]
  <2>1. r \in [code : Nat, init : BOOLEAN, ro : BOOLEAN] /\ prim'[x] = [r EXCEPT !.ro = TRUE]
    BY <1>1, <1>4, <1>5 DEF PrimShadow
  <2> HIDE DEF r
  <2>2. /\ prim'[x] \in [code : Nat, init : BOOLEAN, ro : BOOLEAN]
        /\ prim'[x].code = r.code /\ prim'[x].init = r.init
        /\ prim'[x].ro = TRUE
    BY <2>1
  <2>3. QED
    BY <2>2 DEF r
<1>7. prim' \in PrimShadow
  <2>1. \A x \in StaticAddr : prim'[x] \in [code : Nat, init : BOOLEAN, ro : BOOLEAN]
    BY <1>1, <1>5, <1>6 DEF PrimShadow
  <2>2. QED
    BY <1>5, <2>1 DEF PrimShadow
<1>8. \A x \in StaticAddr : prim'[x].code = prim[x].code
  BY <1>5, <1>6
<1>9. \A o2 \in L : \A x \in ObjSpan(o2) : prim'[x].ro = prim'[o2.base].ro
  <2> TAKE o2 \in L
  <2>1. /\ o2 \in Objects /\ Laid(prim, sec, o2) /\ o2.base \in ObjSpan(o2)
        /\ ObjSpan(o2) \subseteq StaticAddr
    BY ObjectFacts DEF LaidSet
  <2>2. CASE o2 = o
    BY <1>4, <1>6, <2>2
  <2>3. CASE o2 # o
    <3>1. \A x \in ObjSpan(o2) : prim'[x] = prim[x]
      BY <1>1, <1>2, <1>5, <2>1, <2>3, LaidApart
    <3>2. QED
      BY <2>1, <3>1 DEF Laid
  <2>4. QED
    BY <2>2, <2>3
<1>10. \A x \in StaticAddr : prim[x] = Zero => prim'[x] = Zero
  <2>1. \A x \in ObjSpan(o) : prim[x] # Zero
    BY <1>1, <1>2, Decode DEF LaidSet
  <2>2. QED
    BY <1>5, <2>1
<1>11. StaticOK(prim', sec) /\ LaidSet(prim', sec) = L
  BY <1>1, <1>7, <1>8, <1>9, <1>10, FlagsEffect
<1>12. \A x \in StaticAddr : prim'[x].init <=> x \in written'
  BY <1>1, <1>3, <1>5, <1>6
<1>13. \A x \in StaticAddr : prim'[x].ro => x < GlobalEnd
  BY <1>1, <1>4, <1>5
<1>14. ShadowInv'
  BY <1>3, <1>11, <1>12, <1>13 DEF ShadowInv
<1>15. Blocks = BlocksOf(prim, sec, segment) /\ Blocks' = BlocksOf(prim', sec, segment)
  BY <1>3, <1>14, DecodedBlocks
<1>16. \A o2 \in L \ {o} : /\ VarBlock(prim', o2) = VarBlock(prim, o2)
                           /\ VarBlock(prim, o2) # b
  BY <1>1, <1>2, <1>5, OtherVarBlocks
<1>17. VarBlock(prim', o) = [b EXCEPT !.readonly = TRUE]
  BY <1>4, <1>6, WithReadonly
<1>18. Blocks' = (Blocks \ {b}) \cup {[b EXCEPT !.readonly = TRUE]} /\ b \in Blocks
  <2>1. /\ o \in LaidSet(prim, sec) /\ LaidSet(prim', sec) = LaidSet(prim, sec)
        /\ \A o2 \in LaidSet(prim, sec) \ {o} : /\ VarBlock(prim', o2) = VarBlock(prim, o2)
                                                /\ VarBlock(prim, o2) # VarBlock(prim, o)
    BY <1>2, <1>11, <1>16
  <2>3. /\ VarBlock(prim, o) \in BlocksOf(prim, sec, segment)
        /\ BlocksOf(prim', sec, segment)
             = (BlocksOf(prim, sec, segment) \ {VarBlock(prim, o)}) \cup {VarBlock(prim', o)}
    <3>1. \A s \in Starts(segment) : HeapBlock(segment, s) # VarBlock(prim, o)
      BY DEF HeapBlock, VarBlock
    <3>2. QED
      BY <2>1, <3>1 DEF BlocksOf
  <2>2. QED
    BY <1>15, <1>17, <2>3
<1>19. Memory!MarkReadonly(b)
  BY <1>3, <1>18 DEF Memory!MarkReadonly, VarBlock
<1>20. QED
  BY <1>14, <1>18, <1>19

-----------------------------------------------------------------------------
(* Initialization *)

\* What can be freed is the start of a block.
LEMMA FreeableIsStart ==
  ASSUME ShadowInv, NEW p
  PROVE  /\ unsafe_freeable(p) <=> p \in Starts(segment)
         /\ p \in Starts(segment) => heap_base(p) = p /\ heap_length(p) = segment[p].length
<1>1. HeapOK(segment)
  BY DEF ShadowInv
<1>2. ASSUME p \in HeapAddr, segment[AlignLeft(p)].base = p
      PROVE  p \in Starts(segment)
  <2>1. AlignLeft(p) \in Segments /\ p # NULL
    BY <1>2, SegmentOfByte, HeapConstants DEF HeapAddr, NULL
  <2>2. QED
    BY <1>1, <1>2, <2>1 DEF HeapOK
<1>3. ASSUME p \in Starts(segment)
      PROVE  p \in HeapAddr /\ AlignLeft(p) = p /\ segment[p].base = p
  BY <1>1, <1>3, StartFacts DEF Starts, Segments
<1>4. QED
  BY <1>2, <1>3 DEF unsafe_freeable, heap_base, heap_length

(* An assignment leaves the heap blocks, and the bytes of the heap that it *)
(* gives a value are those that get their init bits.                       *)
SameOnHeap ==
  /\ UNCHANGED <<segment, uncleared>>
  /\ \A x \in HeapAddr :
       \/ (x \in init' <=> x \in init) /\ (x \in written' <=> x \in written)
       \/ x \in init' /\ x \in written'

(* The program assigns bytes of a variable. *)
LEMMA InitializeVar ==
  ASSUME ShadowInv, NEW o \in LaidSet(prim, sec), NEW p \in Int, NEW n \in Nat \ {0},
         Span(p, n) \subseteq ObjSpan(o), Initialize(p, n)
  PROVE  /\ ShadowInv' /\ SameOnHeap
         /\ \E b \in Blocks : \E q \in Memory!Bytes(b), m \in 1 .. b.size : Memory!Initialize(b, q, m)
<1> DEFINE b == VarBlock(prim, o)
           L == LaidSet(prim, sec)
<1>1. /\ StaticOK(prim, sec) /\ HeapOK(segment) /\ prim \in PrimShadow
      /\ \A x \in StaticAddr : prim[x].init <=> x \in written
      /\ \A x \in StaticAddr : prim[x].ro => x < GlobalEnd
      /\ written \subseteq Addr
  BY DEF ShadowInv, StaticOK
<1>2. /\ o \in Objects /\ Laid(prim, sec, o) /\ ObjSpan(o) \subseteq StaticAddr
      /\ o.base \in Nat \ {0} /\ o.size \in Nat \ {0}
  BY ObjectFacts DEF LaidSet
<1>3. p \in Span(p, n) /\ p + n - 1 \in Span(p, n)
  BY DEF Span
<1>4. /\ prim' = Overlay(prim, [a \in Span(p, n) |-> [prim[a] EXCEPT !.init = TRUE]])
      /\ written' = written \cup Span(p, n)
      /\ UNCHANGED <<init, sec, segment, heap, status, uncleared>>
  BY <1>2, <1>3, BlockShapes DEF Initialize, initialize_static_region
<1>5. /\ prim' = [x \in StaticAddr |-> prim'[x]]
      /\ \A x \in StaticAddr \ Span(p, n) : prim'[x] = prim[x]
      /\ \A x \in Span(p, n) : x \in StaticAddr /\ prim'[x] = [prim[x] EXCEPT !.init = TRUE]
  BY <1>1, <1>2, <1>4 DEF Overlay, PrimShadow
<1>6. \A x \in Span(p, n) :
        /\ prim'[x] \in [code : Nat, init : BOOLEAN, ro : BOOLEAN]
        /\ prim'[x].code = prim[x].code /\ prim'[x].ro = prim[x].ro
        /\ prim'[x].init = TRUE
  <2> TAKE x \in Span(p, n)
  <2> DEFINE r == prim[x]
  <2>1. r \in [code : Nat, init : BOOLEAN, ro : BOOLEAN] /\ prim'[x] = [r EXCEPT !.init = TRUE]
    BY <1>1, <1>5 DEF PrimShadow
  <2> HIDE DEF r
  <2>2. /\ prim'[x] \in [code : Nat, init : BOOLEAN, ro : BOOLEAN]
        /\ prim'[x].code = r.code /\ prim'[x].ro = r.ro
        /\ prim'[x].init = TRUE
    BY <2>1
  <2>3. QED
    BY <2>2 DEF r
<1>7. prim' \in PrimShadow
  <2>1. \A x \in StaticAddr : prim'[x] \in [code : Nat, init : BOOLEAN, ro : BOOLEAN]
    BY <1>1, <1>5, <1>6 DEF PrimShadow
  <2>2. QED
    BY <1>5, <2>1 DEF PrimShadow
<1>8. \A x \in StaticAddr : prim'[x].code = prim[x].code /\ prim'[x].ro = prim[x].ro
  BY <1>5, <1>6
<1>9. \A o2 \in L : /\ \A x \in ObjSpan(o2) : prim'[x].ro = prim'[o2.base].ro
                    /\ VarBlock(prim', o2) = VarBlock(prim, o2)
  <2> TAKE o2 \in L
  <2>1. /\ o2 \in Objects /\ Laid(prim, sec, o2) /\ o2.base \in ObjSpan(o2)
        /\ ObjSpan(o2) \subseteq StaticAddr
    BY ObjectFacts DEF LaidSet
  <2>2. \A x \in ObjSpan(o2) : prim'[x].ro = prim[x].ro
    BY <1>8, <2>1
  <2>3. QED
    BY <2>1, <2>2 DEF Laid, VarBlock
<1>10. \A x \in StaticAddr : prim[x] = Zero => prim'[x] = Zero
  <2>1. \A x \in Span(p, n) : prim[x] # Zero
    BY <1>1, <1>2, Decode
  <2>2. QED
    BY <1>5, <2>1
<1>11. StaticOK(prim', sec) /\ LaidSet(prim', sec) = L
  BY <1>1, <1>7, <1>8, <1>9, <1>10, FlagsEffect
<1>12. \A x \in StaticAddr : prim'[x].init <=> x \in written'
  BY <1>1, <1>4, <1>5, <1>6
<1>13. \A x \in StaticAddr : prim'[x].ro => x < GlobalEnd
  BY <1>1, <1>8
<1>14. written' \subseteq Addr /\ written' \cap HeapAddr = written \cap HeapAddr
  BY <1>1, <1>2, <1>4, BlockShapes
<1>15. ShadowInv'
  <2>1. ASSUME NEW x \in written' \cap HeapAddr
        PROVE  \E s \in Starts(segment) : x \in Span(s, segment[s].length)
    BY <1>14, <2>1 DEF ShadowInv
  <2>2. QED
    BY <1>4, <1>11, <1>12, <1>13, <1>14, <2>1 DEF ShadowInv
<1>16. Blocks = BlocksOf(prim, sec, segment) /\ Blocks' = BlocksOf(prim', sec, segment)
  BY <1>4, <1>15, DecodedBlocks
<1>17. Blocks' = Blocks /\ b \in Blocks
  BY <1>9, <1>11, <1>16 DEF BlocksOf
<1>18. /\ Memory!Bytes(b) = ObjSpan(o) /\ b.size = o.size /\ Memory!Span(p, n) = Span(p, n)
  BY <1>1, <1>2, BlockShapes DEF VarBlock, Memory!Span, Span
<1>19. n \in 1 .. b.size /\ p \in Memory!Bytes(b)
  <2>1. p >= o.base /\ p + n - 1 < o.base + o.size
    BY <1>2, <1>3, ObjectFacts
  <2>2. QED
    BY <1>2, <1>3, <1>18, <2>1
<1>20. Memory!Initialize(b, p, n)
  BY <1>4, <1>17, <1>18 DEF Memory!Initialize
<1>21. SameOnHeap
  BY <1>4, <1>14 DEF SameOnHeap
<1>22. QED
  BY <1>15, <1>17, <1>19, <1>20, <1>21

(* The program assigns bytes of a heap block. *)
LEMMA InitializeHeap ==
  ASSUME ShadowInv, NEW s \in Starts(segment), NEW p \in Int, NEW n \in Nat \ {0},
         Span(p, n) \subseteq Span(s, segment[s].length), Initialize(p, n)
  PROVE  /\ ShadowInv' /\ SameOnHeap
         /\ \E b \in Blocks : \E q \in Memory!Bytes(b), m \in 1 .. b.size : Memory!Initialize(b, q, m)
<1> DEFINE b == HeapBlock(segment, s)
<1>1. /\ StaticOK(prim, sec) /\ HeapOK(segment)
      /\ \A x \in StaticAddr : prim[x].init <=> x \in written
      /\ init \subseteq HeapAddr /\ written \subseteq Addr
      /\ \A x \in init : segment[AlignLeft(x)].base # NULL
      /\ \A x \in written \cap HeapAddr :
           \E c \in Starts(segment) : x \in Span(c, segment[c].length)
  BY DEF ShadowInv
<1>2. /\ s \in HeapBases /\ segment[s].length \in Sizes
      /\ s + ALLOC_SIZE(segment[s].length) <= HeapEnd
      /\ s \in Nat \ {0}
      /\ \A x \in HeapAddr : x \in Room(s, segment[s].length) <=> segment[AlignLeft(x)].base = s
  BY <1>1, StartFacts
<1>3. /\ Span(s, segment[s].length) \subseteq Room(s, segment[s].length)
      /\ Room(s, segment[s].length) \subseteq HeapAddr
      /\ segment[s].length \in Nat \ {0}
  BY <1>2, RoomFacts
<1>4. p \in Span(p, n) /\ p + n - 1 \in Span(p, n)
  BY DEF Span
<1>5. /\ init' = init \cup Span(p, n)
      /\ written' = written \cup Span(p, n)
      /\ UNCHANGED <<prim, sec, segment, heap, status, uncleared>>
  BY <1>3, <1>4 DEF Initialize, initialize_heap_region
<1>6. Span(p, n) \subseteq HeapAddr /\ Span(p, n) \cap StaticAddr = {}
  BY <1>3, BlockShapes
<1>7. \A x \in StaticAddr : prim[x].init <=> x \in written'
  BY <1>1, <1>5, <1>6
<1>8. init' \subseteq HeapAddr /\ written' \subseteq Addr
  BY <1>1, <1>5, <1>6, BlockShapes
<1>9. \A x \in init' : segment[AlignLeft(x)].base # NULL
  BY <1>1, <1>2, <1>3, <1>5, <1>6 DEF NULL
<1>10. \A x \in written' \cap HeapAddr :
         \E c \in Starts(segment) : x \in Span(c, segment[c].length)
  BY <1>1, <1>5
<1>11. ShadowInv'
  BY <1>5, <1>7, <1>8, <1>9, <1>10 DEF ShadowInv
<1>12. Blocks = BlocksOf(prim, sec, segment) /\ Blocks' = BlocksOf(prim, sec, segment)
  BY <1>5, <1>11, DecodedBlocks
<1>13. Blocks' = Blocks /\ b \in Blocks
  BY <1>12 DEF BlocksOf
<1>14. /\ Memory!Bytes(b) = Span(s, segment[s].length) /\ b.size = segment[s].length
       /\ Memory!Span(p, n) = Span(p, n)
  BY <1>2, BlockShapes DEF HeapBlock, Memory!Span, Span
<1>15. n \in 1 .. b.size /\ p \in Memory!Bytes(b)
  <2>1. p >= s /\ p + n - 1 <= s + segment[s].length - 1
    BY <1>2, <1>3, <1>4 DEF Span
  <2>2. QED
    BY <1>2, <1>3, <1>4, <1>14, <2>1
<1>16. Memory!Initialize(b, p, n)
  BY <1>5, <1>13, <1>14 DEF Memory!Initialize
<1>17. SameOnHeap
  BY <1>5 DEF SameOnHeap
<1>18. QED
  BY <1>11, <1>13, <1>15, <1>16, <1>17

\* The assignments of the program.
LEMMA InitializeSteps ==
  ASSUME ShadowInv, NEW p \in Pointers,
         eacsl_full_init(p) \/ \E part \in Parts : eacsl_initialize(p, part)
  PROVE  /\ ShadowInv' /\ SameOnHeap
         /\ \E b \in Blocks : \E q \in Memory!Bytes(b), m \in 1 .. b.size : Memory!Initialize(b, q, m)
<1>1. Base(p)
  BY DEF eacsl_full_init, eacsl_initialize
<1>2. \A part \in Parts : part[1] \in Nat /\ part[2] \in Nat \ {0}
  BY SegmentAssumption
<1>3. CASE unsafe_freeable(p)
  <2> DEFINE n == segment[p].length
  <2>1. p \in Starts(segment) /\ HeapOK(segment) /\ p \in HeapAddr
    BY <1>3, FreeableIsStart DEF ShadowInv, unsafe_freeable
  <2>2. eacsl_block_length(p) = n
    BY <2>1, FreeableIsStart DEF eacsl_block_length
  <2>3. p \in Nat /\ n \in Nat \ {0}
    BY <2>1, StartFacts, SegmentAssumption
  <2>4. CASE eacsl_full_init(p)
    BY <2>1, <2>2, <2>3, <2>4, InitializeHeap DEF eacsl_full_init
  <2>5. ASSUME NEW part \in Parts, eacsl_initialize(p, part)
        PROVE  /\ ShadowInv' /\ SameOnHeap
               /\ \E b \in Blocks : \E q \in Memory!Bytes(b), m \in 1 .. b.size :
                    Memory!Initialize(b, q, m)
    <3>1. /\ Span(p + part[1], part[2]) \subseteq Span(p, n)
          /\ p + part[1] \in Int /\ part[2] \in Nat \ {0}
      BY <1>2, <2>2, <2>3, <2>5 DEF eacsl_initialize, Span
    <3>2. QED
      BY <2>1, <2>5, <3>1, InitializeHeap DEF eacsl_initialize
  <2>6. QED
    BY <2>4, <2>5
<1>4. CASE ~unsafe_freeable(p)
  <2>1. PICK o \in Objects : o.base = p /\ Stored(o)
    BY <1>1, <1>4 DEF Base
  <2>2. StaticOK(prim, sec)
    BY DEF ShadowInv
  <2>3. prim[o.base] # Zero /\ Info(prim, sec, o.base) = [length |-> o.size, offset |-> 0]
    BY <2>1 DEF Stored, Tracked, static_info, Info
  <2>4. o \in LaidSet(prim, sec)
    BY <2>1, <2>2, <2>3, StoredIsLaid, Zenon
  <2>5. /\ p \in Nat /\ o.size \in Nat \ {0} /\ p \notin HeapAddr
        /\ ObjSpan(o) = Span(p, o.size)
    <3>1. p \in StaticAddr /\ p \in Nat /\ o.size \in Nat \ {0}
      BY <2>1, ObjectFacts
    <3>2. QED
      BY <2>1, <3>1, BlockShapes DEF ObjSpan
  <2>6. eacsl_block_length(p) = o.size
    BY <2>1, <2>5 DEF Stored, eacsl_block_length
  <2>7. CASE eacsl_full_init(p)
    BY <2>4, <2>5, <2>6, <2>7, InitializeVar DEF eacsl_full_init
  <2>8. ASSUME NEW part \in Parts, eacsl_initialize(p, part)
        PROVE  /\ ShadowInv' /\ SameOnHeap
               /\ \E b \in Blocks : \E q \in Memory!Bytes(b), m \in 1 .. b.size :
                    Memory!Initialize(b, q, m)
    <3>1. /\ Span(p + part[1], part[2]) \subseteq ObjSpan(o)
          /\ p + part[1] \in Int /\ part[2] \in Nat \ {0}
      BY <1>2, <2>5, <2>6, <2>8 DEF eacsl_initialize, Span
    <3>2. QED
      BY <2>4, <2>8, <3>1, InitializeVar DEF eacsl_initialize
  <2>9. QED
    BY <2>7, <2>8
<1>5. QED
  BY <1>3, <1>4

-----------------------------------------------------------------------------
(* The calls on the heap *)

\* malloc and calloc.
LEMMA MallocStep ==
  ASSUME ShadowInv, NEW p \in HeapBases, NEW n \in Sizes, NEW zeroed \in BOOLEAN,
         unsafe_malloc(p, n, zeroed)
  PROVE  ShadowInv' /\ \E b \in Memory!Added : Memory!Malloc(b, zeroed)
<1> DEFINE b == HeapBlock(segment', p)
<1>1. /\ StaticOK(prim, sec) /\ HeapOK(segment)
      /\ \A x \in StaticAddr : prim[x].init <=> x \in written
      /\ init \subseteq HeapAddr /\ written \subseteq Addr
      /\ \A x \in init : segment[AlignLeft(x)].base # NULL
      /\ \A x \in written \cap HeapAddr :
           \E c \in Starts(segment) : x \in Span(c, segment[c].length)
  BY DEF ShadowInv
<1>2. /\ Available(segment, p, n)
      /\ segment' = set_heap_segment(segment, p, n)
      /\ init' = IF zeroed THEN init \cup Room(p, n) ELSE init
      /\ written' = IF zeroed THEN written \cup Span(p, n) ELSE written
      /\ UNCHANGED <<prim, sec, status>>
  BY DEF unsafe_malloc, Room
<1>3. /\ p \in Segments /\ n \in Nat \ {0} /\ p \in Nat \ {0} /\ p \in Span(p, n)
      /\ Span(p, n) \subseteq Room(p, n) /\ Room(p, n) \subseteq HeapAddr
      /\ p + ALLOC_SIZE(n) <= HeapEnd /\ p % HEAP_SEGMENT = 0
  BY <1>2, RoomFacts, HeapConstants DEF Available
<1>4. /\ HeapOK(segment')
      /\ p \notin Starts(segment) /\ Starts(segment') = Starts(segment) \cup {p}
      /\ segment'[p].length = n
      /\ \A c \in Starts(segment) : /\ segment'[c] = segment[c]
                                    /\ Room(c, segment[c].length) \cap Room(p, n) = {}
      /\ \A s \in Segments \ Room(p, n) : segment'[s] = segment[s]
      /\ \A s \in Segments \cap Room(p, n) : segment'[s].base = p
  BY <1>1, <1>2, SetEffect
<1>5. \A x \in HeapAddr : x \in Room(p, n) <=> AlignLeft(x) \in Room(p, n)
  BY <1>3, SegmentOfByte, InRoom
<1>6. \A x \in StaticAddr : prim[x].init <=> x \in written'
  BY <1>1, <1>2, <1>3, BlockShapes
<1>7. init' \subseteq HeapAddr /\ written' \subseteq Addr
  BY <1>1, <1>2, <1>3, BlockShapes
<1>8. \A x \in init' : segment'[AlignLeft(x)].base # NULL
  <2> TAKE x \in init'
  <2>1. AlignLeft(x) \in Segments /\ p # NULL /\ x \in HeapAddr
    BY <1>3, <1>7, SegmentOfByte DEF NULL
  <2>2. CASE x \in Room(p, n)
    BY <1>4, <1>5, <2>1, <2>2
  <2>3. CASE x \notin Room(p, n)
    BY <1>1, <1>2, <1>4, <1>5, <2>1, <2>3
  <2>4. QED
    BY <2>2, <2>3
<1>9. \A x \in written' \cap HeapAddr :
        \E c \in Starts(segment') : x \in Span(c, segment'[c].length)
  <2> TAKE x \in written' \cap HeapAddr
  <2>1. CASE x \in Span(p, n)
    BY <1>4, <2>1
  <2>2. CASE x \notin Span(p, n)
    BY <1>1, <1>2, <1>4, <2>2
  <2>3. QED
    BY <2>1, <2>2
<1>10. ShadowInv'
  BY <1>1, <1>2, <1>4, <1>6, <1>7, <1>8, <1>9 DEF ShadowInv
<1>11. Blocks = BlocksOf(prim, sec, segment) /\ Blocks' = BlocksOf(prim, sec, segment')
  BY <1>2, <1>10, DecodedBlocks
<1>12. Blocks' = Blocks \cup {b}
  <2>1. \A c \in Starts(segment) : HeapBlock(segment', c) = HeapBlock(segment, c)
    BY <1>4 DEF HeapBlock
  <2>2. QED
    BY <1>4, <1>11, <2>1 DEF BlocksOf
<1>13. /\ b \in Memory!Block /\ Memory!Bytes(b) = Span(p, n) /\ Memory!Footprint(b) = Span(p, n)
       /\ b.heap /\ ~b.readonly /\ b.size > 0
  BY <1>3, <1>4, BlockShapes DEF HeapBlock
<1>14. \A c \in Blocks : Memory!Footprint(b) \cap Memory!Footprint(c) = {}
  <2> TAKE c \in Blocks
  <2>1. CASE \E o \in LaidSet(prim, sec) : c = VarBlock(prim, o)
    <3>1. PICK o \in LaidSet(prim, sec) : c = VarBlock(prim, o)
      BY <2>1
    <3>2. o \in Objects /\ ObjSpan(o) \subseteq StaticAddr /\ prim \in PrimShadow
      BY <1>1, ObjectFacts DEF LaidSet, StaticOK
    <3>3. Memory!Footprint(c) = ObjSpan(o)
      BY <3>1, <3>2, BlockShapes
    <3>4. QED
      BY <1>3, <1>13, <3>2, <3>3, BlockShapes
  <2>2. CASE \E s \in Starts(segment) : c = HeapBlock(segment, s)
    <3>1. PICK s \in Starts(segment) : c = HeapBlock(segment, s)
      BY <2>2
    <3>2. /\ Memory!Footprint(c) = Span(s, segment[s].length)
          /\ Span(s, segment[s].length) \subseteq Room(s, segment[s].length)
      BY <1>1, <3>1, StartFacts, RoomFacts, BlockShapes
    <3>3. QED
      BY <1>3, <1>4, <1>13, <3>2
  <2>3. QED
    BY <1>11, <2>1, <2>2 DEF BlocksOf
<1>15. b \notin Blocks /\ Memory!Footprint(b) \subseteq Addr
  BY <1>3, <1>13, <1>14, BlockShapes
<1>16. Memory!Malloc(b, zeroed) /\ b \in Memory!Added
  BY <1>2, <1>12, <1>13, <1>14, <1>15 DEF Memory!Malloc, Memory!Clear, Memory!Added
<1>17. QED
  BY <1>10, <1>16

\* free of a block.
LEMMA FreeStep ==
  ASSUME ShadowInv, NEW p, unsafe_free(p)
  PROVE  ShadowInv' /\ \E b \in Blocks : Memory!Free(b)
<1> DEFINE n == segment[p].length
           b == HeapBlock(segment, p)
<1>1. /\ StaticOK(prim, sec) /\ HeapOK(segment)
      /\ \A x \in StaticAddr : prim[x].init <=> x \in written
      /\ init \subseteq HeapAddr /\ written \subseteq Addr
      /\ \A x \in init : segment[AlignLeft(x)].base # NULL
      /\ \A x \in written \cap HeapAddr :
           \E c \in Starts(segment) : x \in Span(c, segment[c].length)
  BY DEF ShadowInv
<1>2. p \in Starts(segment) /\ heap_length(p) = n
  BY FreeableIsStart DEF unsafe_free
<1>3. /\ segment' = unset_heap_segment(segment, p)
      /\ init' = init \ Room(p, n)
      /\ written' = written \ Span(p, n)
      /\ UNCHANGED <<prim, sec, status>>
  BY <1>2 DEF unsafe_free, Room
<1>4. /\ p \in HeapBases /\ n \in Sizes /\ p + ALLOC_SIZE(n) <= HeapEnd
      /\ n \in Nat \ {0} /\ p \in Nat \ {0} /\ p % HEAP_SEGMENT = 0
      /\ Span(p, n) \subseteq Room(p, n) /\ Room(p, n) \subseteq HeapAddr
  BY <1>1, <1>2, StartFacts, RoomFacts, HeapConstants
<1>5. /\ HeapOK(segment')
      /\ Starts(segment') = Starts(segment) \ {p}
      /\ \A c \in Starts(segment) \ {p} : segment'[c] = segment[c]
      /\ \A s \in Segments \ Room(p, n) : segment'[s] = segment[s]
  BY <1>1, <1>2, <1>3, UnsetEffect
<1>6. \A x \in HeapAddr : x \in Room(p, n) <=> AlignLeft(x) \in Room(p, n)
  BY <1>4, SegmentOfByte, InRoom
<1>7. \A x \in StaticAddr : prim[x].init <=> x \in written'
  BY <1>1, <1>3, <1>4, BlockShapes
<1>8. \A x \in init' : segment'[AlignLeft(x)].base # NULL
  BY <1>1, <1>3, <1>5, <1>6, SegmentOfByte
<1>9. \A x \in written' \cap HeapAddr :
        \E c \in Starts(segment') : x \in Span(c, segment'[c].length)
  BY <1>1, <1>3, <1>5
<1>10. ShadowInv'
  BY <1>1, <1>3, <1>5, <1>7, <1>8, <1>9 DEF ShadowInv
<1>11. Blocks = BlocksOf(prim, sec, segment) /\ Blocks' = BlocksOf(prim, sec, segment')
  BY <1>3, <1>10, DecodedBlocks
<1>12. Blocks' = Blocks \ {b} /\ b \in Blocks
  <2>1. \A c \in Starts(segment) \ {p} : /\ HeapBlock(segment', c) = HeapBlock(segment, c)
                                         /\ HeapBlock(segment, c) # b
    BY <1>5 DEF HeapBlock
  <2>2. \A o \in LaidSet(prim, sec) : VarBlock(prim, o) # b
    BY DEF HeapBlock, VarBlock
  <2>3. QED
    BY <1>2, <1>5, <1>11, <2>1, <2>2 DEF BlocksOf
<1>13. Memory!Bytes(b) = Span(p, n) /\ b.heap
  BY <1>4, BlockShapes DEF HeapBlock
<1>14. Memory!Free(b)
  BY <1>3, <1>12, <1>13 DEF Memory!Free
<1>15. QED
  BY <1>10, <1>12, <1>14

\* free and realloc of what is not the start of a block.
LEMMA AbortStep ==
  ASSUME ShadowInv, NEW p \in Pointers, not_a_start_of_block(p)
  PROVE  ShadowInv' /\ \E q \in Addr : Memory!Abort(q)
<1>1. p \in Addr /\ p \notin Starts(segment)
  BY FreeableIsStart, SegmentAssumption DEF not_a_start_of_block
<1>2. /\ UNCHANGED <<prim, sec, segment, init, heap, written>>
      /\ status' = "aborted"
  BY DEF not_a_start_of_block
<1>3. ShadowInv'
  BY <1>2 DEF ShadowInv
<1>4. Blocks = BlocksOf(prim, sec, segment) /\ Blocks' = Blocks
  BY <1>2, <1>3, DecodedBlocks
<1>5. \A b \in Blocks : b.heap => b.base # p
  BY <1>1, <1>4 DEF BlocksOf, VarBlock, HeapBlock
<1>6. Memory!Abort(p)
  BY <1>2, <1>4, <1>5 DEF Memory!Abort
<1>7. QED
  BY <1>1, <1>3, <1>6

\* More bytes, more room.
LEMMA AllocMonotone ==
  ASSUME NEW k \in Nat, NEW n \in Nat, k <= n
  PROVE  ALLOC_SIZE(k) <= ALLOC_SIZE(n)
<1> DEFINE a == ALLOC_SIZE(k)
           b == ALLOC_SIZE(n)
<1>1. HEAP_SEGMENT \in Nat \ {0}
  BY HeapConstants
<1>2. a \in Nat /\ a < k + HEAP_SEGMENT /\ a % HEAP_SEGMENT = 0
  BY <1>1, RoundedUp DEF ALLOC_SIZE
<1>3. b \in Nat /\ n <= b /\ b % HEAP_SEGMENT = 0
  BY <1>1, RoundedUp DEF ALLOC_SIZE
<1> HIDE DEF a, b
<1>4. a \in Int /\ b \in Int
  BY <1>2, <1>3
<1>5. b < a => b + HEAP_SEGMENT <= a
  BY <1>1, <1>2, <1>3, <1>4, Multiples, Zenon
<1>6. a <= b
  BY <1>1, <1>2, <1>3, <1>5
<1>7. QED
  BY <1>6 DEF a, b

(* Sizes in whole bytes of the init shadow. *)
LEMMA WholeBytes ==
  ASSUME NEW n \in Nat, NEW k \in Nat
  PROVE  /\ DivUp(k, CHAR_BIT) \in Int /\ n \div CHAR_BIT \in Int
         /\ (n \div CHAR_BIT) * CHAR_BIT \in Int /\ (n \div CHAR_BIT) * CHAR_BIT <= n
         /\ DivUp(k, CHAR_BIT) <= n \div CHAR_BIT
              => DivUp(k, CHAR_BIT) * CHAR_BIT <= (n \div CHAR_BIT) * CHAR_BIT
         /\ n \div CHAR_BIT < DivUp(k, CHAR_BIT) => n < DivUp(k, CHAR_BIT) * CHAR_BIT
<1> DEFINE m == CHAR_BIT
           d == n \div m
           e == DivUp(k, m)
           r == n % m
<1>1. m \in Nat \ {0}
  BY SegmentAssumption
<1> HIDE DEF m
<1>2. d \in Int /\ r \in 0 .. m - 1 /\ n = m * d + r
  BY <1>1, DivMod
<1>3. e \in Int
  <2>1. k + m - 1 \in Int
    BY <1>1
  <2>2. QED
    BY <1>1, <2>1, DivMod, Zenon DEF DivUp
<1> HIDE DEF d, e, r
<1>4. /\ m * d \in Int /\ m * e \in Int
      /\ d * m = m * d /\ e * m = m * e
  BY <1>1, <1>2, <1>3, Z3
<1>5. e <= d => m * e <= m * d
  <2>1. e < d => m * e + m <= m * d
    BY <1>1, <1>2, <1>3, Monotone
  <2>2. QED
    BY <1>1, <1>2, <1>3, <1>4, <2>1
<1>6. d < e => m * d + m <= m * e
  BY <1>1, <1>2, <1>3, Monotone
<1> DEFINE x == m * d
           y == m * e
<1>7. /\ x \in Int /\ y \in Int /\ d * m = x /\ e * m = y
      /\ n = x + r /\ (e <= d => y <= x) /\ (d < e => x + m <= y)
  BY <1>2, <1>4, <1>5, <1>6
<1> HIDE DEF x, y
<1>8. /\ e \in Int /\ d \in Int /\ d * m \in Int /\ d * m <= n
      /\ e <= d => e * m <= d * m
      /\ d < e => n < e * m
  BY <1>1, <1>2, <1>3, <1>7
<1>9. QED
  BY <1>8 DEF m, d, e

(* What realloc does to the init bits: none is set out of the new room but *)
(* those of other blocks, and the bytes kept are those of the old block,   *)
(* with those that LeftSet names.                                          *)
LEMMA MovedBits ==
  ASSUME NEW p \in Nat, NEW q \in Nat, NEW old \in Nat, NEW n \in Nat
  PROVE  /\ \A x \in MovedInit(p, q, old, n) :
              x \in Room(q, n) \/ (x \in init /\ x \notin Room(p, old))
         /\ \A x \in init : x \notin Room(p, old) /\ x \notin Room(q, n)
              => x \in MovedInit(p, q, old, n)
         /\ q = p \/ init \cap Span(q, n) = {}
              => \A x \in Span(q, n) :
                   x \in MovedInit(p, q, old, n)
                     <=> (x - q < old /\ x - q + p \in init) \/ x \in LeftSet(p, q, old, n)
<1> DEFINE m == Min({n, old})
           keep == DivUp(m, CHAR_BIT) * CHAR_BIT
           gone == p + n .. p + ALLOC_SIZE(old) - 1
           shrunk == IF old > n THEN init \ gone ELSE init
           copied == IF q = p THEN shrunk
                     ELSE (shrunk \ (Room(p, old) \cup Span(q, keep)))
                            \cup {q + i : i \in {j \in 0 .. keep - 1 : p + j \in shrunk}}
           rounded == IF n > old THEN copied \ (q + old .. q + keep - 1) ELSE copied
           whole == (n \div CHAR_BIT) * CHAR_BIT
           bits == MovedInit(p, q, old, n)
<1>1. bits = IF n > old /\ q = p THEN rounded \ (q + keep .. q + whole - 1) ELSE rounded
  BY DEF MovedInit, Room
<1>2. CHAR_BIT \in Nat \ {0}
  BY SegmentAssumption
<1>3. m \in {n, old} /\ m <= n /\ m <= old /\ m \in Nat
  BY MinOfTwo
<1>4. keep \in Nat /\ m <= keep
  BY <1>2, <1>3, RoundedUp
<1>5. keep <= ALLOC_SIZE(n) /\ keep <= ALLOC_SIZE(old)
  BY <1>3, AllocSize
<1>6. /\ ALLOC_SIZE(n) \in Nat /\ ALLOC_SIZE(old) \in Nat /\ n <= ALLOC_SIZE(n)
      /\ old <= ALLOC_SIZE(old)
      /\ old <= n => ALLOC_SIZE(old) <= ALLOC_SIZE(n)
  BY AllocSize, AllocMonotone
<1>7. /\ whole \in Int /\ whole <= n
      /\ n > old /\ q = p /\ ~Overruns(p, q, old, n) => keep <= whole
      /\ Overruns(p, q, old, n) => n < keep
  <2>1. n > old => m = old
    BY <1>3
  <2> HIDE DEF m
  <2>2. /\ whole \in Int /\ whole <= n
        /\ DivUp(old, CHAR_BIT) <= n \div CHAR_BIT => DivUp(old, CHAR_BIT) * CHAR_BIT <= whole
        /\ n \div CHAR_BIT < DivUp(old, CHAR_BIT) => n < DivUp(old, CHAR_BIT) * CHAR_BIT
        /\ DivUp(old, CHAR_BIT) \in Int /\ n \div CHAR_BIT \in Int
    BY WholeBytes
  <2>3. Overruns(p, q, old, n) <=> n > old /\ q = p /\ n \div CHAR_BIT < DivUp(old, CHAR_BIT)
    BY DEF Overruns
  <2>4. ~(n \div CHAR_BIT < DivUp(old, CHAR_BIT)) => DivUp(old, CHAR_BIT) <= n \div CHAR_BIT
    BY <2>2
  <2>5. n > old => keep = DivUp(old, CHAR_BIT) * CHAR_BIT
    BY <2>1
  <2> HIDE DEF keep, whole
  <2>6. QED
    BY <2>2, <2>3, <2>4, <2>5
<1>8. \A x : /\ x \in Room(p, old) <=> x \in Int /\ p <= x /\ x < p + ALLOC_SIZE(old)
             /\ x \in Room(q, n) <=> x \in Int /\ q <= x /\ x < q + ALLOC_SIZE(n)
             /\ x \in Span(q, n) <=> x \in Int /\ q <= x /\ x < q + n
             /\ x \in Span(q, keep) <=> x \in Int /\ q <= x /\ x < q + keep
  BY <1>4, <1>6 DEF Room, Span
<1> HIDE DEF m, keep, whole, bits
<1>9. \A x : x \in shrunk <=> x \in init /\ (old > n => x \notin gone)
  OBVIOUS
<1>10. \A x : x \in gone <=> x \in Int /\ p + n <= x /\ x < p + ALLOC_SIZE(old)
  BY <1>6
<1> HIDE DEF gone, shrunk
<1>11. q = p => copied = shrunk
  OBVIOUS
<1>12. q # p => \A x : x \in copied <=>
         \/ x \in shrunk /\ x \notin Room(p, old) /\ x \notin Span(q, keep)
         \/ x \in Span(q, keep) /\ p + (x - q) \in shrunk
  <2> SUFFICES ASSUME q # p, NEW x
               PROVE  x \in copied <=>
                        \/ x \in shrunk /\ x \notin Room(p, old) /\ x \notin Span(q, keep)
                        \/ x \in Span(q, keep) /\ p + (x - q) \in shrunk
    OBVIOUS
  <2>1. ASSUME x \in Span(q, keep), p + (x - q) \in shrunk
        PROVE  x \in {q + i : i \in {j \in 0 .. keep - 1 : p + j \in shrunk}}
    <3>1. x - q \in 0 .. keep - 1 /\ x = q + (x - q)
      BY <1>4, <1>8, <2>1
    <3>2. QED
      BY <2>1, <3>1
  <2>2. ASSUME NEW i \in {j \in 0 .. keep - 1 : p + j \in shrunk}, x = q + i
        PROVE  x \in Span(q, keep) /\ p + (x - q) \in shrunk
    <3>1. x - q = i /\ x \in Span(q, keep)
      BY <1>4, <1>8, <2>2
    <3>2. QED
      BY <3>1
  <2>3. QED
    BY <2>1, <2>2
<1> HIDE DEF copied
<1>13. \A x : x \in rounded <=>
         x \in copied /\ (n > old => ~(x \in Int /\ q + old <= x /\ x < q + keep))
  BY <1>4
<1> HIDE DEF rounded
<1>14. whole \in Int
  BY <1>7
<1>15. \A x : x \in bits <=>
         x \in rounded /\ (n > old /\ q = p => ~(x \in Int /\ q + keep <= x /\ x < q + whole))
  BY <1>1, <1>4, <1>14
<1>16. ASSUME NEW x \in bits
       PROVE  x \in Room(q, n) \/ (x \in init /\ x \notin Room(p, old))
  <2>1. x \in copied
    BY <1>13, <1>15
  <2>2. CASE q = p
    BY <1>6, <1>8, <1>9, <1>10, <1>11, <2>1, <2>2
  <2>3. CASE q # p
    BY <1>4, <1>5, <1>6, <1>8, <1>9, <1>12, <2>1, <2>3
  <2>4. QED
    BY <2>2, <2>3
<1>17. ASSUME NEW x \in init, x \notin Room(p, old), x \notin Room(q, n)
       PROVE  x \in bits
  <2>1. x \in shrunk
    BY <1>6, <1>8, <1>9, <1>10, <1>17
  <2>2. x \in copied
    BY <1>4, <1>5, <1>6, <1>8, <1>11, <1>12, <1>17, <2>1
  <2>3. x \in rounded
    BY <1>4, <1>5, <1>6, <1>8, <1>13, <1>17, <2>2
  <2>4. whole <= n
    BY <1>7
  <2>5. QED
    BY <1>4, <1>6, <1>8, <1>14, <1>15, <1>17, <2>3, <2>4
<1>18. ASSUME q = p \/ init \cap Span(q, n) = {}, NEW x \in Span(q, n)
       PROVE  x \in bits <=> (x - q < old /\ x - q + p \in init) \/ x \in LeftSet(p, q, old, n)
  <2>1. x \in Int /\ q <= x /\ x < q + n /\ x - q + p = p + (x - q)
    BY <1>8
  <2>2. CASE q = p
    <3>1. x - q + p = x
      BY <2>1, <2>2
    <3>2. x \in shrunk <=> x \in init
      BY <1>9, <1>10, <2>1, <2>2
    <3>3. CASE n > old
      <4>1. m = old /\ old <= keep
        BY <1>3, <1>4, <3>3
      <4>2. x \in bits <=> /\ x \in init
                           /\ ~(q + old <= x /\ x < q + keep)
                           /\ ~(q + keep <= x /\ x < q + whole)
        BY <1>11, <1>13, <1>15, <2>1, <2>2, <3>2, <3>3
      <4>3. CASE Overruns(p, q, old, n)
        <5>1. n < keep /\ LeftSet(p, q, old, n) = {}
          BY <1>7, <4>3 DEF LeftSet
        <5>2. QED
          BY <1>4, <1>7, <2>1, <3>1, <4>1, <4>2, <5>1
      <4>4. CASE ~Overruns(p, q, old, n)
        <5>1. keep <= whole
          BY <1>7, <2>2, <3>3, <4>4
        <5>2. LeftSet(p, q, old, n) = init \cap (q + whole .. q + n - 1)
          BY <2>2, <3>3, <4>4 DEF LeftSet, whole
        <5>3. x \in LeftSet(p, q, old, n) <=> x \in init /\ q + whole <= x
          BY <1>7, <2>1, <5>2
        <5>4. QED
          BY <1>4, <1>7, <2>1, <3>1, <4>1, <4>2, <5>1, <5>3
      <4>5. QED
        BY <4>3, <4>4
    <3>4. CASE n <= old
      <4>1. LeftSet(p, q, old, n) = {}
        BY <3>4 DEF LeftSet
      <4>2. QED
        BY <1>11, <1>13, <1>15, <2>1, <2>2, <3>1, <3>2, <3>4, <4>1
    <3>5. QED
      BY <3>3, <3>4
  <2>3. CASE q # p
    <3>1. x \notin shrunk
      BY <1>9, <1>18, <2>3
    <3>2. p + (x - q) \in shrunk <=> p + (x - q) \in init
      BY <1>9, <1>10, <2>1
    <3>3. x \in bits <=> x \in rounded
      BY <1>15, <2>3
    <3>4. LeftSet(p, q, old, n) = {}
      BY <2>3 DEF LeftSet
    <3>5. CASE n > old
      <4>1. m = old
        BY <1>3, <3>5
      <4>2. QED
        BY <1>4, <1>8, <1>12, <1>13, <2>1, <2>3, <3>1, <3>2, <3>3, <3>4, <3>5, <4>1
    <3>6. CASE n <= old
      <4>1. m = n /\ x \in Span(q, keep)
        BY <1>3, <1>4, <1>8, <2>1, <3>6
      <4>2. QED
        BY <1>12, <1>13, <2>1, <2>3, <3>1, <3>2, <3>3, <3>4, <3>6, <4>1
    <3>7. QED
      BY <3>5, <3>6
  <2>4. QED
    BY <2>2, <2>3
<1>19. QED
  BY <1>16, <1>17, <1>18 DEF bits

(* The segments after realloc: those of the block are given back, and the  *)
(* new ones taken.                                                         *)
LEMMA ReallocSegments ==
  ASSUME ShadowInv, NEW p, NEW q \in HeapBases, NEW n \in Sizes, unsafe_realloc(p, q, n)
  PROVE  /\ p \in Starts(segment) /\ heap_length(p) = segment[p].length
         /\ HeapOK(segment')
         /\ Starts(segment') = (Starts(segment) \ {p}) \cup {q}
         /\ q = p \/ q \notin Starts(segment)
         /\ segment'[q].length = n
         /\ \A c \in Starts(segment) \ {p} :
              /\ segment'[c] = segment[c]
              /\ Room(c, segment[c].length) \cap Room(q, n) = {}
         /\ \A s \in Segments \ (Room(p, segment[p].length) \cup Room(q, n)) :
              segment'[s] = segment[s]
         /\ \A s \in Segments \cap Room(q, n) : segment'[s].base = q
         /\ q + ALLOC_SIZE(n) <= HeapEnd
         /\ q # p => \A s \in Segments \cap Room(q, n) : segment[s].base = NULL
<1> DEFINE R == Room(p, segment[p].length)
           sg1 == unset_heap_segment(segment, p)
<1>1. HeapOK(segment)
  BY DEF ShadowInv
<1>2. p \in Starts(segment) /\ heap_length(p) = segment[p].length
  BY FreeableIsStart DEF unsafe_realloc
<1>3. /\ HeapOK(sg1)
      /\ Starts(sg1) = Starts(segment) \ {p}
      /\ \A b \in Starts(segment) \ {p} : sg1[b] = segment[b]
      /\ \A s \in Segments \ R : sg1[s] = segment[s]
  BY <1>1, <1>2, UnsetEffect
<1>4. segment' = set_heap_segment(sg1, q, n)
  BY DEF unsafe_realloc
<1>5. Available(IF q = p THEN sg1 ELSE segment, q, n)
  BY DEF unsafe_realloc
<1> HIDE DEF sg1, R
<1>6. q # p => \A s \in Segments \cap Room(q, n) : segment[s].base = NULL
  BY <1>5 DEF Available, Room
<1>7. \A s \in Segments \cap R : segment[s].base = p /\ p # NULL
  BY <1>1, <1>2, HeapConstants, StartFacts DEF HeapOK, R, NULL
<1>8. Available(sg1, q, n)
  <2>1. CASE q = p
    BY <1>5, <2>1
  <2>2. CASE q # p
    <3>1. \A s \in Segments \cap Room(q, n) : sg1[s].base = NULL
      BY <1>3, <1>6, <1>7, <2>2
    <3>2. QED
      BY <1>5, <2>2, <3>1 DEF Available, Room
  <2>3. QED
    BY <2>1, <2>2
<1>9. /\ HeapOK(segment')
      /\ q \notin Starts(sg1) /\ Starts(segment') = Starts(sg1) \cup {q}
      /\ segment'[q].length = n
      /\ \A b \in Starts(sg1) : /\ segment'[b] = sg1[b]
                                /\ Room(b, sg1[b].length) \cap Room(q, n) = {}
      /\ \A s \in Segments \ Room(q, n) : segment'[s] = sg1[s]
      /\ \A s \in Segments \cap Room(q, n) : segment'[s].base = q
  BY <1>3, <1>4, <1>8, SetEffect
<1>10. q + ALLOC_SIZE(n) <= HeapEnd
  BY <1>5 DEF Available
<1>11. q = p \/ q \notin Starts(segment)
  BY <1>3, <1>9
<1>12. QED
  BY <1>2, <1>3, <1>6, <1>9, <1>10, <1>11 DEF R

\* realloc, in place or not; it crashes only where it overruns.
LEMMA ReallocStep ==
  ASSUME ShadowInv, NEW p \in HeapBases, NEW q \in HeapBases, NEW n \in Sizes,
         unsafe_realloc(p, q, n)
  PROVE  /\ ShadowInv'
         /\ status = "running" =>
              \E b \in Blocks : \E c \in Memory!Added \cup {b} : Memory!Realloc(b, c)
         /\ status = "running" /\ status' = "crashed" =>
              \E b \in HeapBlocks, c \in HeapBlocks' : Overruns(b.base, c.base, b.size, c.size)
<1> DEFINE old == segment[p].length
           b == HeapBlock(segment, p)
           c == HeapBlock(segment', q)
           moved == {a \in Span(q, n) : a - q + p \in written \cap Span(p, old)}
<1>1. /\ StaticOK(prim, sec) /\ HeapOK(segment)
      /\ \A x \in StaticAddr : prim[x].init <=> x \in written
      /\ init \subseteq HeapAddr /\ written \subseteq Addr
      /\ \A x \in init : segment[AlignLeft(x)].base # NULL
      /\ \A x \in written \cap HeapAddr :
           \E s \in Starts(segment) : x \in Span(s, segment[s].length)
  BY DEF ShadowInv
<1>2. /\ p \in Starts(segment) /\ heap_length(p) = old
      /\ HeapOK(segment')
      /\ Starts(segment') = (Starts(segment) \ {p}) \cup {q}
      /\ q = p \/ q \notin Starts(segment)
      /\ segment'[q].length = n
      /\ \A s \in Starts(segment) \ {p} :
           /\ segment'[s] = segment[s]
           /\ Room(s, segment[s].length) \cap Room(q, n) = {}
      /\ \A s \in Segments \ (Room(p, old) \cup Room(q, n)) : segment'[s] = segment[s]
      /\ \A s \in Segments \cap Room(q, n) : segment'[s].base = q
      /\ q + ALLOC_SIZE(n) <= HeapEnd
  BY ReallocSegments
<1>3. /\ init' = MovedInit(p, q, old, n)
      /\ written' = (written \ Span(p, old)) \cup moved
      /\ UNCHANGED <<prim, sec>>
  BY <1>2 DEF unsafe_realloc, Moved
<1>4. /\ old \in Sizes /\ p + ALLOC_SIZE(old) <= HeapEnd
      /\ old \in Nat \ {0} /\ p \in Nat \ {0} /\ p % HEAP_SEGMENT = 0
      /\ Span(p, old) \subseteq Room(p, old) /\ Room(p, old) \subseteq HeapAddr
  BY <1>1, <1>2, StartFacts, RoomFacts, HeapConstants
<1>5. /\ n \in Nat \ {0} /\ q \in Nat \ {0} /\ q % HEAP_SEGMENT = 0 /\ q \in Span(q, n)
      /\ Span(q, n) \subseteq Room(q, n) /\ Room(q, n) \subseteq HeapAddr
  BY <1>2, RoomFacts, HeapConstants
<1>6. \A x \in HeapAddr : /\ x \in Room(p, old) <=> AlignLeft(x) \in Room(p, old)
                          /\ x \in Room(q, n) <=> AlignLeft(x) \in Room(q, n)
                          /\ AlignLeft(x) \in Segments
  BY <1>4, <1>5, SegmentOfByte, InRoom
<1>7. \A x \in init' : x \in Room(q, n) \/ (x \in init /\ x \notin Room(p, old))
  BY <1>3, <1>4, <1>5, MovedBits
<1>8. moved \subseteq Span(q, n)
  OBVIOUS
<1>9. \A x \in StaticAddr : prim[x].init <=> x \in written'
  BY <1>1, <1>3, <1>4, <1>5, <1>8, BlockShapes
<1>10. init' \subseteq HeapAddr /\ written' \subseteq Addr
  BY <1>1, <1>3, <1>5, <1>7, <1>8, BlockShapes
<1> HIDE DEF moved
<1>11. \A x \in init' : segment'[AlignLeft(x)].base # NULL
  <2> TAKE x \in init'
  <2>1. CASE x \in Room(q, n)
    BY <1>2, <1>5, <1>6, <1>10, <2>1 DEF NULL
  <2>2. CASE x \notin Room(q, n)
    BY <1>1, <1>2, <1>6, <1>7, <1>10, <2>2
  <2>3. QED
    BY <2>1, <2>2
<1>12. \A x \in written' \cap HeapAddr :
         \E s \in Starts(segment') : x \in Span(s, segment'[s].length)
  <2> TAKE x \in written' \cap HeapAddr
  <2>1. CASE x \in moved
    BY <1>2, <1>8, <2>1
  <2>2. CASE x \notin moved
    <3>1. x \in written \cap HeapAddr /\ x \notin Span(p, old)
      BY <1>3, <2>2
    <3>2. PICK s \in Starts(segment) : x \in Span(s, segment[s].length)
      BY <1>1, <3>1
    <3>3. s # p
      BY <3>1, <3>2
    <3>4. QED
      BY <1>2, <3>2, <3>3
  <2>3. QED
    BY <2>1, <2>2
<1>13. ShadowInv'
  BY <1>1, <1>2, <1>3, <1>9, <1>10, <1>11, <1>12 DEF ShadowInv
<1>14. Blocks = BlocksOf(prim, sec, segment) /\ Blocks' = BlocksOf(prim, sec, segment')
  BY <1>3, <1>13, DecodedBlocks
<1>15. /\ Memory!Bytes(b) = Span(p, old) /\ b.heap /\ b.base = p
       /\ c \in Memory!Block /\ c.heap /\ ~c.readonly /\ c.size > 0 /\ c.base = q
       /\ Memory!Bytes(c) = Span(q, n) /\ Memory!Footprint(c) = Span(q, n)
  BY <1>2, <1>4, <1>5, BlockShapes DEF HeapBlock
<1>16. Blocks' = (Blocks \ {b}) \cup {c} /\ b \in Blocks
  <2>1. \A s \in Starts(segment) \ {p} : /\ HeapBlock(segment', s) = HeapBlock(segment, s)
                                         /\ HeapBlock(segment, s) # b
    BY <1>2 DEF HeapBlock
  <2>2. \A o \in LaidSet(prim, sec) : VarBlock(prim, o) # b
    BY DEF HeapBlock, VarBlock
  <2>3. QED
    BY <1>2, <1>14, <2>1, <2>2 DEF BlocksOf
<1>17. \A d \in Blocks \ {b} : Memory!Footprint(c) \cap Memory!Footprint(d) = {}
  <2> TAKE d \in Blocks \ {b}
  <2>1. CASE \E o \in LaidSet(prim, sec) : d = VarBlock(prim, o)
    <3>1. PICK o \in LaidSet(prim, sec) : d = VarBlock(prim, o)
      BY <2>1
    <3>2. o \in Objects /\ ObjSpan(o) \subseteq StaticAddr /\ prim \in PrimShadow
      BY <1>1, ObjectFacts DEF LaidSet, StaticOK
    <3>3. Memory!Footprint(d) = ObjSpan(o)
      BY <3>1, <3>2, BlockShapes
    <3>4. QED
      BY <1>5, <1>15, <3>2, <3>3, BlockShapes
  <2>2. CASE \E s \in Starts(segment) : d = HeapBlock(segment, s)
    <3>1. PICK s \in Starts(segment) : d = HeapBlock(segment, s)
      BY <2>2
    <3>2. s # p
      BY <3>1
    <3>3. /\ Memory!Footprint(d) = Span(s, segment[s].length)
          /\ Span(s, segment[s].length) \subseteq Room(s, segment[s].length)
      BY <1>1, <3>1, StartFacts, RoomFacts, BlockShapes
    <3>4. Room(s, segment[s].length) \cap Room(q, n) = {}
      BY <1>2, <3>2
    <3>5. Memory!Footprint(c) \subseteq Room(q, n)
      BY <1>5, <1>15
    <3> HIDE DEF c
    <3>6. QED
      BY <3>3, <3>4, <3>5
  <2>3. QED
    BY <1>14, <2>1, <2>2 DEF BlocksOf
<1>18. c \in Memory!Added \cup {b}
  <2>1. ASSUME c \in Blocks, c # b PROVE FALSE
    BY <1>5, <1>15, <1>17, <2>1
  <2>2. QED
    BY <1>16, <2>1 DEF Memory!Added
<1>19. Memory!Clear(c, Blocks \ {b})
  BY <1>5, <1>15, <1>17, BlockShapes DEF Memory!Clear
<1>20. Memory!Kept(b, c) = moved
  BY <1>15 DEF Memory!Kept, moved
<1>21. status = "running" => (status' = "aborted") = (status = "aborted")
  BY DEF unsafe_realloc
<1>22. status = "running" => Memory!Realloc(b, c)
  BY <1>3, <1>15, <1>16, <1>19, <1>20, <1>21 DEF Memory!Realloc
<1>23. b \in HeapBlocks /\ c \in HeapBlocks'
  <2>1. /\ HeapBlocks = {HeapBlock(segment, s) : s \in Starts(segment)}
        /\ HeapBlocks' = {HeapBlock(segment', s) : s \in Starts(segment')}
    BY DEF HeapBlocks, HeapBlockBases, HeapBlock, Starts
  <2>2. QED
    BY <1>2, <2>1
<1>24. status = "running" /\ status' = "crashed" => Overruns(b.base, c.base, b.size, c.size)
  <2>1. b.base = p /\ b.size = old /\ c.base = q /\ c.size = n
    BY <1>2 DEF HeapBlock
  <2>2. QED
    BY <1>2, <2>1 DEF unsafe_realloc
<1>25. QED
  BY <1>13, <1>16, <1>18, <1>22, <1>23, <1>24

-----------------------------------------------------------------------------
(* The theorems *)

\* No block at first.
LEMMA InitShadow ==
  Init => ShadowInv /\ Blocks = {}
<1> SUFFICES ASSUME Init PROVE ShadowInv /\ Blocks = {}
  OBVIOUS
<1>1. /\ prim = [a \in StaticAddr |-> Zero] /\ sec = [a \in StaticAddr |-> NoInfo]
      /\ segment = [a \in Segments |-> [base |-> NULL, length |-> 0]]
      /\ init = {} /\ written = {}
  BY DEF Init
<1>2. prim \in PrimShadow /\ sec \in SecShadow
  BY <1>1 DEF PrimShadow, SecShadow, Zero, NoInfo
<1>3. StaticOK(prim, sec)
  BY <1>1, <1>2 DEF StaticOK
<1>4. \A x \in StaticAddr : prim[x] = Zero /\ ~Zero.init /\ ~Zero.ro
  BY <1>1 DEF Zero
<1>5. Starts(segment) = {}
  <2>1. \A a \in Segments : a # NULL
    BY HeapConstants DEF Segments, HeapAddr, NULL
  <2>2. QED
    BY <1>1, <2>1 DEF Starts
<1>6. HeapOK(segment)
  BY <1>1, <1>5 DEF HeapOK, HeapShadow, NULL
<1>7. ShadowInv
  BY <1>1, <1>3, <1>4, <1>6 DEF ShadowInv
<1>8. LaidSet(prim, sec) = {}
  <2>1. ASSUME NEW o \in LaidSet(prim, sec) PROVE FALSE
    <3>1. o \in Objects /\ Laid(prim, sec, o) /\ o.base \in ObjSpan(o) /\ o.base \in StaticAddr
      BY ObjectFacts DEF LaidSet
    <3>2. prim[o.base] # Zero
      BY <1>2, <3>1, Decode
    <3>3. QED
      BY <1>4, <3>1, <3>2
  <2>2. QED
    BY <2>1
<1>9. Blocks = {}
  BY <1>5, <1>7, <1>8, DecodedBlocks DEF BlocksOf
<1>10. QED
  BY <1>7, <1>9

\* Every step keeps the shadows well formed.
LEMMA ShadowStep ==
  ShadowInv /\ [Next]_vars => ShadowInv'
<1> SUFFICES ASSUME ShadowInv, [Next]_vars PROVE ShadowInv'
  OBVIOUS
<1>1. CASE UNCHANGED vars
  BY <1>1 DEF vars, ShadowInv
<1>2. ASSUME NEW o \in Objects, shadow_alloca(o) PROVE ShadowInv'
  BY <1>2, AllocaStep
<1>3. ASSUME NEW o \in Objects, shadow_freea(o) PROVE ShadowInv'
  BY <1>3, FreeaStep
<1>4. ASSUME NEW o \in Objects, eacsl_store_block_duplicate(o) PROVE ShadowInv'
  BY <1>4, DuplicateStep
<1>5. ASSUME NEW o \in Objects, eacsl_mark_readonly(o) PROVE ShadowInv'
  BY <1>5, ReadonlyStep
<1>6. ASSUME NEW p \in Pointers,
             eacsl_full_init(p) \/ \E part \in Parts : eacsl_initialize(p, part)
      PROVE  ShadowInv'
  BY <1>6, InitializeSteps
<1>7. ASSUME NEW p \in Pointers, unsafe_free(p) PROVE ShadowInv'
  BY <1>7, FreeStep
<1>8. ASSUME NEW p \in Pointers, not_a_start_of_block(p) PROVE ShadowInv'
  BY <1>8, AbortStep
<1>9. ASSUME NEW p \in HeapBases, NEW n \in Sizes, NEW z \in BOOLEAN, unsafe_malloc(p, n, z)
      PROVE  ShadowInv'
  BY <1>9, MallocStep
<1>10. ASSUME NEW p \in HeapBases, NEW q \in HeapBases, NEW n \in Sizes, unsafe_realloc(p, q, n)
       PROVE  ShadowInv'
  BY <1>10, ReallocStep
<1>11. QED
  BY <1>1, <1>2, <1>3, <1>4, <1>5, <1>6, <1>7, <1>8, <1>9, <1>10 DEF Next

(* The shadows always are those of blocks: the codes of a variable, and    *)
(* its secondary shadow, are whole and its own, the segments of a heap     *)
(* block lead to its base, the flags of the bytes of variables are what    *)
(* the program has assigned.                                               *)
THEOREM ShadowIsWellFormed == Spec => []ShadowInv
<1>1. Init => ShadowInv
  BY InitShadow
<1>2. ShadowInv /\ [Next]_vars => ShadowInv'
  BY ShadowStep
<1>3. QED
  BY <1>1, <1>2, PTL DEF Spec

(* A byte of a segment, and the segment of the byte. *)
LEMMA BytesOfSegment ==
  ASSUME NEW a \in Segments, NEW x \in Span(a, HEAP_SEGMENT)
  PROVE  AlignLeft(x) = a
<1> DEFINE l == AlignLeft(x)
<1>1. /\ a \in Nat /\ a % HEAP_SEGMENT = 0 /\ HEAP_SEGMENT \in Nat \ {0}
      /\ x \in Nat /\ a <= x /\ x < a + HEAP_SEGMENT
  BY HeapConstants DEF Segments, HeapAddr, Span
<1>2. l \in Nat /\ l <= x /\ x < l + HEAP_SEGMENT /\ l % HEAP_SEGMENT = 0
  BY <1>1, LeftAligned
<1> HIDE DEF l
<1>3. l \in Int /\ a \in Int
  BY <1>1, <1>2
<1>4. l < a => l + HEAP_SEGMENT <= a
  BY <1>1, <1>2, <1>3, Multiples, Zenon
<1>5. a < l => a + HEAP_SEGMENT <= l
  BY <1>1, <1>2, <1>3, Multiples, Zenon
<1>6. l = a
  BY <1>1, <1>2, <1>4, <1>5
<1>7. QED
  BY <1>6 DEF l

(* The secondary shadow of what is in no variable is null, which           *)
(* static_info relies on, and so are the segments and the init bits of     *)
(* what is in no heap block: malloc takes them without clearing them.      *)
THEOREM FreeShadowIsNull == Spec => []FreeIsNullified
<1>1. ShadowInv => FreeIsNullified
  <2> SUFFICES ASSUME ShadowInv PROVE FreeIsNullified
    OBVIOUS
  <2>1. \A a \in StaticAddr : ~Tracked(a) => sec[a] = NoInfo
    BY DEF ShadowInv, StaticOK, Tracked
  <2>2. ASSUME NEW a \in Segments, segment[a].base = NULL
        PROVE  segment[a].length = 0 /\ init \cap Span(a, HEAP_SEGMENT) = {}
    <3>1. segment[a].length = 0
      BY <2>2 DEF ShadowInv, HeapOK
    <3>2. ASSUME NEW x \in init \cap Span(a, HEAP_SEGMENT) PROVE FALSE
      <4>1. AlignLeft(x) = a
        BY <3>2, BytesOfSegment
      <4>2. QED
        BY <2>2, <3>2, <4>1 DEF ShadowInv
    <3>3. QED
      BY <3>1, <3>2
  <2>3. QED
    BY <2>1, <2>2 DEF FreeIsNullified
<1>2. QED
  BY <1>1, ShadowIsWellFormed, PTL

\* Every step is one of BlockMap, or none.
LEMMA MemoryStep ==
  ASSUME ShadowInv, [Next]_vars
  PROVE  Memory!Next \/ UNCHANGED Memory!vars
<1>1. CASE UNCHANGED vars
  <2>1. UNCHANGED <<prim, sec, segment, written, status>>
    BY <1>1 DEF vars
  <2>2. UNCHANGED Blocks
    BY <2>1 DEF Blocks, StaticBlocks, HeapBlocks, StaticBlockBases, HeapBlockBases,
                static_info, Tracked
  <2>3. QED
    BY <2>1, <2>2 DEF Memory!vars
<1>2. ASSUME Next PROVE Memory!Next
  <2>1. ~(status # "running")
    BY <1>2 DEF Next
  <2>2. ASSUME NEW o \in Objects, shadow_alloca(o) PROVE Memory!Next
    BY <2>1, <2>2, AllocaStep DEF Memory!Next
  <2>3. ASSUME NEW o \in Objects, shadow_freea(o) PROVE Memory!Next
    BY <2>1, <2>3, FreeaStep DEF Memory!Next
  <2>4. ASSUME NEW o \in Objects, eacsl_store_block_duplicate(o) PROVE Memory!Next
    BY <2>1, <2>4, DuplicateStep DEF Memory!Next
  <2>5. ASSUME NEW o \in Objects, eacsl_mark_readonly(o) PROVE Memory!Next
    BY <2>1, <2>5, ReadonlyStep DEF Memory!Next
  <2>6. ASSUME NEW p \in Pointers,
               eacsl_full_init(p) \/ \E part \in Parts : eacsl_initialize(p, part)
        PROVE  Memory!Next
    BY <2>1, <2>6, InitializeSteps DEF Memory!Next
  <2>7. ASSUME NEW p \in Pointers, unsafe_free(p) PROVE Memory!Next
    BY <2>1, <2>7, FreeStep DEF Memory!Next
  <2>8. ASSUME NEW p \in Pointers, not_a_start_of_block(p) PROVE Memory!Next
    BY <2>1, <2>8, AbortStep DEF Memory!Next
  <2>9. ASSUME NEW p \in HeapBases, NEW n \in Sizes, NEW z \in BOOLEAN, unsafe_malloc(p, n, z)
        PROVE  Memory!Next
    <3>1. PICK b \in Memory!Added : Memory!Malloc(b, z)
      BY <2>9, MallocStep
    <3>2. z = TRUE \/ z = FALSE
      OBVIOUS
    <3>3. Memory!Malloc(b, TRUE) \/ Memory!Malloc(b, FALSE)
      BY <3>1, <3>2, Zenon
    <3>4. QED
      BY <2>1, <3>3 DEF Memory!Next
  <2>10. ASSUME NEW p \in HeapBases, NEW q \in HeapBases, NEW n \in Sizes,
                unsafe_realloc(p, q, n)
         PROVE  Memory!Next
    <3>1. \E b \in Blocks : \E c \in Memory!Added \cup {b} : Memory!Realloc(b, c)
      BY <2>1, <2>10, ReallocStep
    <3>2. QED
      BY <2>1, <3>1 DEF Memory!Next
  <2>11. QED
    BY <1>2, <2>2, <2>3, <2>4, <2>5, <2>6, <2>7, <2>8, <2>9, <2>10 DEF Next
<1>3. QED
  BY <1>1, <1>2

\* Only realloc loses the process.
LEMMA LostStep ==
  ASSUME ShadowInv, Next, status' = "crashed"
  PROVE  \E b \in HeapBlocks, c \in HeapBlocks' : Overruns(b.base, c.base, b.size, c.size)
<1>1. status = "running"
  BY DEF Next
<1>2. ASSUME NEW p \in HeapBases, NEW q \in HeapBases, NEW n \in Sizes, unsafe_realloc(p, q, n)
      PROVE  \E b \in HeapBlocks, c \in HeapBlocks' : Overruns(b.base, c.base, b.size, c.size)
  BY <1>1, <1>2, ReallocStep
<1>3. ASSUME NEW o \in Objects,
             \/ shadow_alloca(o) \/ shadow_freea(o)
             \/ eacsl_store_block_duplicate(o) \/ eacsl_mark_readonly(o)
      PROVE  status' = status
  BY <1>3 DEF shadow_alloca, shadow_freea, eacsl_store_block_duplicate, eacsl_mark_readonly
<1>4. ASSUME NEW p \in Pointers,
             \/ eacsl_full_init(p) \/ \E part \in Parts : eacsl_initialize(p, part)
             \/ unsafe_free(p) \/ not_a_start_of_block(p)
      PROVE  status' \in {status, "aborted"}
  BY <1>4 DEF eacsl_full_init, eacsl_initialize, Initialize, unsafe_free, not_a_start_of_block
<1>5. ASSUME NEW p \in HeapBases, NEW n \in Sizes, NEW z \in BOOLEAN, unsafe_malloc(p, n, z)
      PROVE  status' = status
  BY <1>5 DEF unsafe_malloc
<1>6. QED
  BY <1>1, <1>2, <1>3, <1>4, <1>5 DEF Next

(* The shadow memory implements the specification of the observation       *)
(* models: each call, whatever codes, segments and init bits it changes,   *)
(* does to the blocks that the shadows stand for what the contract of the  *)
(* call says, and nothing to others; and the process is lost in a realloc  *)
(* in place only, to a size in the last byte of the init shadow that the   *)
(* block had (Overruns).                                                   *)
THEOREM ShadowKeepsTheBlocks == Spec => KeepsTheBlocks
<1> DEFINE Lost == status' = "crashed" =>
             \E b \in HeapBlocks, c \in HeapBlocks' : Overruns(b.base, c.base, b.size, c.size)
<1>1. Init => Memory!Init
  BY InitShadow DEF Init, Memory!Init
<1>2. ShadowInv /\ [Next]_vars => [Memory!Next]_(Memory!vars)
  BY MemoryStep
<1>3. ShadowInv /\ [Next]_vars => [Lost]_vars
  BY LostStep
<1>4. QED
  BY <1>1, <1>2, <1>3, ShadowIsWellFormed, PTL DEF Spec, KeepsTheBlocks, Memory!Spec

-----------------------------------------------------------------------------
(* The answers to the annotations *)

(* The contracts of the predicates, of the blocks that the shadows hold. *)
LEMMA RegionContracts ==
  ASSUME NEW p, NEW n, NEW base
  PROVE  /\ Abstract(Blocks)!valid(p, n, base) <=>
              \/ n = 0
              \/ \E b \in Blocks : /\ Span(p, n) \subseteq Memory!Bytes(b)
                                   /\ base \in Memory!Footprint(b)
                                   /\ ~b.readonly
         /\ Abstract(Blocks)!valid_read(p, n, base) <=>
              \/ n = 0
              \/ \E b \in Blocks : /\ Span(p, n) \subseteq Memory!Bytes(b)
                                   /\ base \in Memory!Footprint(b)
BY Zenon DEF Abstract!valid, Abstract!valid_read, Abstract!Span, Abstract!Bytes,
   Abstract!Footprint, Memory!Bytes, Memory!Footprint, Memory!Span, Span

\* The contracts of the predicates of an address, of which at most one block decides.
LEMMA AddressContracts ==
  ASSUME NEW p
  PROVE  LET H == {b \in Blocks : p \in Memory!Footprint(b)} IN
         /\ Abstract(Blocks)!freeable(p) <=> \E b \in Blocks : b.heap /\ b.base = p
         /\ Abstract(Blocks)!Holders(p) = H
         /\ Abstract(Blocks)!base_addr(p) = (CHOOSE b \in H : TRUE).base
         /\ Abstract(Blocks)!block_length(p) = (CHOOSE b \in H : TRUE).size
         /\ Abstract(Blocks)!offset(p) = p - (CHOOSE b \in H : TRUE).base
BY Zenon DEF Abstract!freeable, Abstract!Holders, Abstract!base_addr, Abstract!block_length,
   Abstract!offset, Abstract!Span, Abstract!Bytes, Abstract!Footprint,
   Memory!Bytes, Memory!Footprint, Memory!Span

(* The block of a byte of a variable, and of a byte of the heap. *)
LEMMA VarOfByte ==
  ASSUME ShadowInv, NEW p \in StaticAddr
  PROVE  /\ ~Tracked(p) => \A b \in Blocks : p \notin Memory!Footprint(b)
         /\ Tracked(p) => \E o \in LaidSet(prim, sec) :
              /\ p \in ObjSpan(o)
              /\ static_info(p) = [length |-> o.size, offset |-> p - o.base]
              /\ VarBlock(prim, o) \in Blocks /\ prim[p].ro = prim[o.base].ro
              /\ \A b \in Blocks : p \in Memory!Footprint(b) <=> b = VarBlock(prim, o)
<1>1. /\ StaticOK(prim, sec) /\ prim \in PrimShadow /\ HeapOK(segment)
      /\ Blocks = BlocksOf(prim, sec, segment)
  BY DecodedBlocks DEF ShadowInv, StaticOK
<1>2. ASSUME NEW b \in Blocks, p \in Memory!Footprint(b)
      PROVE  \E o \in LaidSet(prim, sec) : b = VarBlock(prim, o) /\ p \in ObjSpan(o)
  <2>1. CASE \E o \in LaidSet(prim, sec) : b = VarBlock(prim, o)
    BY <1>1, <1>2, <2>1, BlockShapes DEF LaidSet
  <2>2. CASE \E s \in Starts(segment) : b = HeapBlock(segment, s)
    <3>1. PICK s \in Starts(segment) : b = HeapBlock(segment, s)
      BY <2>2
    <3>2. /\ Memory!Footprint(b) = Span(s, segment[s].length)
          /\ Span(s, segment[s].length) \subseteq HeapAddr
      BY <1>1, <3>1, StartFacts, RoomFacts, BlockShapes
    <3>3. QED
      BY <1>2, <3>2, BlockShapes
  <2>3. QED
    BY <1>1, <2>1, <2>2 DEF BlocksOf
<1>3. ASSUME ~Tracked(p), NEW o \in LaidSet(prim, sec), p \in ObjSpan(o)
      PROVE  FALSE
  <2>1. o \in Objects /\ Laid(prim, sec, o)
    BY DEF LaidSet
  <2>2. prim[p] # Zero
    BY <1>1, <1>3, <2>1, Decode
  <2>3. QED
    BY <1>3, <2>2 DEF Tracked
<1>4. ASSUME Tracked(p)
      PROVE  \E o \in LaidSet(prim, sec) :
               /\ p \in ObjSpan(o)
               /\ static_info(p) = [length |-> o.size, offset |-> p - o.base]
               /\ VarBlock(prim, o) \in Blocks /\ prim[p].ro = prim[o.base].ro
               /\ \A b \in Blocks : p \in Memory!Footprint(b) <=> b = VarBlock(prim, o)
  <2>1. PICK o \in LaidSet(prim, sec) : p \in ObjSpan(o)
    BY <1>1, <1>4 DEF StaticOK, Tracked
  <2>2. o \in Objects /\ Laid(prim, sec, o)
    BY DEF LaidSet
  <2>3. static_info(p) = [length |-> o.size, offset |-> p - o.base]
    BY <1>1, <2>1, <2>2, Decode DEF static_info, Info
  <2>4. VarBlock(prim, o) \in Blocks
    BY <1>1 DEF BlocksOf
  <2>5. prim[p].ro = prim[o.base].ro
    BY <2>1, <2>2 DEF Laid
  <2>6. p \in Memory!Footprint(VarBlock(prim, o))
    BY <1>1, <2>1, <2>2, BlockShapes
  <2>7. ASSUME NEW b \in Blocks, p \in Memory!Footprint(b) PROVE b = VarBlock(prim, o)
    <3>1. PICK o2 \in LaidSet(prim, sec) : b = VarBlock(prim, o2) /\ p \in ObjSpan(o2)
      BY <1>2, <2>7
    <3>2. o2 \in Objects /\ Laid(prim, sec, o2)
      BY DEF LaidSet
    <3>3. o2 = o
      BY <1>1, <2>1, <2>2, <3>1, <3>2, LaidApart
    <3>4. QED
      BY <3>1, <3>3
  <2>8. QED
    BY <2>1, <2>3, <2>4, <2>5, <2>6, <2>7
<1>5. QED
  BY <1>2, <1>3, <1>4

\* The segment of a byte of the heap leads to the one block that may hold it.
LEMMA HeapOfByte ==
  ASSUME ShadowInv, NEW p \in HeapAddr
  PROVE  LET s == heap_base(p) IN
         /\ s = NULL => \A b \in Blocks : p \notin Memory!Footprint(b)
         /\ s # NULL => /\ s \in Starts(segment) /\ s \in Nat /\ p \in Nat /\ s <= p
                        /\ heap_length(p) = segment[s].length
                        /\ heap_length(p) \in Nat
                        /\ HeapBlock(segment, s) \in Blocks
                        /\ \A x \in Span(s, heap_length(p)) : x \in HeapAddr /\ heap_base(x) = s
                        /\ Memory!Footprint(HeapBlock(segment, s)) = Span(s, heap_length(p))
                        /\ Memory!Bytes(HeapBlock(segment, s)) = Span(s, heap_length(p))
                        /\ \A b \in Blocks : p \in Memory!Footprint(b) =>
                             b = HeapBlock(segment, s)
<1> DEFINE s == heap_base(p)
<1>1. HeapOK(segment) /\ Blocks = BlocksOf(prim, sec, segment) /\ prim \in PrimShadow
  BY DecodedBlocks DEF ShadowInv, StaticOK
<1>2. p \in Nat /\ AlignLeft(p) \in Segments /\ s = segment[AlignLeft(p)].base
  BY SegmentOfByte DEF heap_base
<1>3. ASSUME NEW b \in Blocks, p \in Memory!Footprint(b)
      PROVE  s \in Starts(segment) /\ b = HeapBlock(segment, s)
  <2>1. CASE \E o \in LaidSet(prim, sec) : b = VarBlock(prim, o)
    <3>1. PICK o \in LaidSet(prim, sec) : b = VarBlock(prim, o)
      BY <2>1
    <3>2. Memory!Footprint(b) = ObjSpan(o) /\ ObjSpan(o) \subseteq StaticAddr
      BY <1>1, <3>1, ObjectFacts, BlockShapes DEF LaidSet
    <3>3. QED
      BY <1>3, <3>2, BlockShapes
  <2>2. CASE \E c \in Starts(segment) : b = HeapBlock(segment, c)
    <3>1. PICK c \in Starts(segment) : b = HeapBlock(segment, c)
      BY <2>2
    <3>2. /\ Memory!Footprint(b) = Span(c, segment[c].length)
          /\ Span(c, segment[c].length) \subseteq Room(c, segment[c].length)
      BY <1>1, <3>1, StartFacts, RoomFacts, BlockShapes
    <3>3. s = c
      BY <1>1, <1>2, <1>3, <3>2, StartFacts
    <3>4. QED
      BY <3>1, <3>3
  <2>3. QED
    BY <1>1, <2>1, <2>2 DEF BlocksOf
<1>4. ASSUME s # NULL
      PROVE  /\ s \in Starts(segment) /\ s \in Nat /\ p \in Nat /\ s <= p
             /\ heap_length(p) = segment[s].length
             /\ heap_length(p) \in Nat
             /\ HeapBlock(segment, s) \in Blocks
             /\ \A x \in Span(s, heap_length(p)) : x \in HeapAddr /\ heap_base(x) = s
             /\ Memory!Footprint(HeapBlock(segment, s)) = Span(s, heap_length(p))
             /\ Memory!Bytes(HeapBlock(segment, s)) = Span(s, heap_length(p))
  <2>1. s \in Starts(segment)
    BY <1>1, <1>2, <1>4 DEF HeapOK
  <2> HIDE DEF s
  <2>2. /\ s \in HeapBases /\ segment[s].length \in Sizes
        /\ s + ALLOC_SIZE(segment[s].length) <= HeapEnd /\ s \in Nat
        /\ \A x \in HeapAddr : x \in Room(s, segment[s].length) <=> segment[AlignLeft(x)].base = s
    BY <1>1, <2>1, StartFacts
  <2>3. /\ segment[s].length \in Nat
        /\ Span(s, segment[s].length) \subseteq Room(s, segment[s].length)
        /\ Room(s, segment[s].length) \subseteq HeapAddr
    BY <2>2, RoomFacts
  <2>4. p \in Room(s, segment[s].length)
    BY <1>2, <2>2
  <2>5. s <= p
    BY <1>2, <2>2, <2>4 DEF Room, Span
  <2>6. heap_length(p) = segment[s].length
    BY DEF heap_length, s
  <2>7. HeapBlock(segment, s) \in Blocks
    BY <1>1, <2>1 DEF BlocksOf
  <2>8. \A x \in Span(s, segment[s].length) : x \in HeapAddr /\ heap_base(x) = s
    BY <2>2, <2>3 DEF heap_base
  <2>9. /\ Memory!Footprint(HeapBlock(segment, s)) = Span(s, segment[s].length)
        /\ Memory!Bytes(HeapBlock(segment, s)) = Span(s, segment[s].length)
    BY <2>2, BlockShapes
  <2>10. QED
    BY <1>2, <2>1, <2>2, <2>3, <2>5, <2>6, <2>7, <2>8, <2>9
<1>5. s = NULL => s \notin Starts(segment)
  BY HeapConstants DEF Starts, Segments, HeapAddr, NULL
<1>6. QED
  BY <1>3, <1>4, <1>5

(* The region of n bytes at p, with its base, is in the block of p. *)
LEMMA VarRegion ==
  ASSUME ShadowInv, NEW p \in StaticAddr, NEW n \in Sizes, NEW base
  PROVE  /\ static_allocated(p, n, base) <=>
              \E b \in Blocks : /\ Span(p, n) \subseteq Memory!Bytes(b)
                                /\ base \in Memory!Footprint(b) \cup {p}
         /\ \A b \in Blocks : p \in Memory!Footprint(b) => (b.readonly <=> readonly(p))
<1>1. n \in Nat \ {0} /\ p \in Nat /\ p \in Span(p, n)
  BY SegmentAssumption DEF StaticAddr, Span
<1>2. \A b : Memory!Bytes(b) \subseteq Memory!Footprint(b)
  BY DEF Memory!Footprint
<1>3. CASE ~Tracked(p)
  <2>1. \A b \in Blocks : p \notin Memory!Footprint(b)
    BY <1>3, VarOfByte
  <2>2. QED
    BY <1>1, <1>2, <1>3, <2>1 DEF static_allocated
<1>4. CASE Tracked(p)
  <2>1. PICK o \in LaidSet(prim, sec) :
          /\ p \in ObjSpan(o)
          /\ static_info(p) = [length |-> o.size, offset |-> p - o.base]
          /\ VarBlock(prim, o) \in Blocks /\ prim[p].ro = prim[o.base].ro
          /\ \A b \in Blocks : p \in Memory!Footprint(b) <=> b = VarBlock(prim, o)
    BY <1>4, VarOfByte
  <2> DEFINE d == VarBlock(prim, o)
  <2>2. o \in Objects /\ prim \in PrimShadow
    BY DEF LaidSet, ShadowInv, StaticOK
  <2>3. /\ Memory!Bytes(d) = ObjSpan(o) /\ Memory!Footprint(d) = ObjSpan(o)
        /\ d.readonly = prim[o.base].ro
    BY <2>2, BlockShapes DEF VarBlock
  <2>4. /\ o.base \in Nat /\ o.size \in Nat /\ p \in Nat
        /\ ObjSpan(o) = Span(p - (p - o.base), o.size)
    <3>1. o.base \in Nat /\ o.size \in Nat /\ p \in Nat
      BY <1>1, <2>2, ObjectFacts
    <3>2. p - (p - o.base) = o.base
      BY <3>1
    <3>3. QED
      BY <3>1, <3>2 DEF ObjSpan
  <2>5. Span(p, n) \subseteq ObjSpan(o) <=> p - o.base + n <= o.size
    <3>1. \A x : x \in Span(p, n) <=> x \in Int /\ p <= x /\ x < p + n
      BY <1>1 DEF Span
    <3>2. \A x : x \in ObjSpan(o) <=> x \in Nat /\ o.base <= x /\ x < o.base + o.size
      BY <2>2, ObjectFacts
    <3>3. p + n - 1 \in Span(p, n)
      BY <1>1, <3>1
    <3>4. QED
      BY <1>1, <2>1, <2>4, <3>1, <3>2, <3>3
  <2>6. static_allocated(p, n, base) <=>
          /\ p # base => base \in ObjSpan(o)
          /\ Span(p, n) \subseteq ObjSpan(o)
    BY <1>4, <2>1, <2>4, <2>5 DEF static_allocated
  <2>7. \A b \in Blocks : Span(p, n) \subseteq Memory!Bytes(b) => b = d
    BY <1>1, <1>2, <2>1
  <2>8. prim[p].ro <=> readonly(p)
    BY DEF readonly, ShadowInv
  <2>9. prim[p].ro \in BOOLEAN
    BY <2>2 DEF PrimShadow
  <2>10. \A b \in Blocks : p \in Memory!Footprint(b) => (b.readonly <=> readonly(p))
    BY <2>1, <2>3, <2>8, <2>9
  <2> HIDE DEF d
  <2>11. QED
    BY <2>1, <2>3, <2>6, <2>7, <2>10 DEF d
<1>5. QED
  BY <1>3, <1>4

\* heap_allocated is the contract of a region, for a base of the heap, not in the padding.
LEMMA HeapRegion ==
  ASSUME ShadowInv, NEW p \in HeapAddr, NEW n \in Sizes, NEW base,
         ~Padding(base), ~ReadsOutside(p, base)
  PROVE  /\ heap_allocated(p, n, base) <=>
              \E b \in Blocks : /\ Span(p, n) \subseteq Memory!Bytes(b)
                                /\ base \in Memory!Footprint(b)
         /\ \A b \in Blocks : p \in Memory!Footprint(b) => ~b.readonly
<1> DEFINE s == heap_base(p)
           d == HeapBlock(segment, s)
<1>1. n \in Nat \ {0} /\ p \in Nat /\ p \in Span(p, n)
  BY SegmentAssumption, SegmentOfByte DEF Span
<1>2. \A b : Memory!Bytes(b) \subseteq Memory!Footprint(b)
  BY DEF Memory!Footprint
<1>3. CASE s = NULL
  <2>1. \A b \in Blocks : p \notin Memory!Footprint(b)
    BY <1>3, HeapOfByte
  <2>2. QED
    BY <1>1, <1>2, <1>3, <2>1 DEF heap_allocated
<1>4. CASE s # NULL
  <2>1. /\ s \in Nat /\ s <= p
        /\ heap_length(p) = segment[s].length
        /\ heap_length(p) \in Nat
        /\ d \in Blocks
        /\ \A x \in Span(s, heap_length(p)) : x \in HeapAddr /\ heap_base(x) = s
        /\ Memory!Footprint(d) = Span(s, heap_length(p))
        /\ Memory!Bytes(d) = Span(s, heap_length(p))
        /\ \A b \in Blocks : p \in Memory!Footprint(b) => b = d
    BY <1>4, HeapOfByte
  <2>2. ~d.readonly
    BY DEF HeapBlock
  <2> DEFINE len == heap_length(p)
  <2> HIDE DEF d, len
  <2>3. Span(p, n) \subseteq Span(s, len) <=> p - s + n <= len
    <3> HIDE DEF s
    <3>1. \A x : /\ x \in Span(p, n) <=> x \in Int /\ p <= x /\ x < p + n
                 /\ x \in Span(s, len) <=> x \in Int /\ s <= x /\ x < s + len
      BY <1>1, <2>1 DEF Span, len
    <3>2. p + n - 1 \in Span(p, n) /\ len \in Nat
      BY <1>1, <2>1, <3>1 DEF len
    <3>3. QED
      BY <1>1, <2>1, <3>1, <3>2
  <2>4. base \in HeapAddr
    BY <1>4 DEF ReadsOutside
  <2>5. base \in Span(s, len) <=> heap_base(base) = s
    <3>1. ASSUME heap_base(base) = s PROVE base \in Span(s, len)
      <4>1. /\ base \in Nat /\ s <= base /\ heap_length(base) = len /\ len \in Nat
        BY <1>4, <2>1, <2>4, <3>1, HeapOfByte DEF len
      <4>2. base - s < len
        BY <1>4, <2>1, <2>4, <3>1, <4>1 DEF Padding
      <4>3. QED
        BY <2>1, <4>1, <4>2 DEF Span
    <3>2. QED
      BY <2>1, <3>1 DEF len
  <2>6. heap_allocated(p, n, base) <=> base \in Span(s, len) /\ Span(p, n) \subseteq Span(s, len)
    BY <1>4, <2>3, <2>5 DEF heap_allocated, len
  <2>7. \A b \in Blocks : Span(p, n) \subseteq Memory!Bytes(b) => b = d
    BY <1>1, <1>2, <2>1
  <2>8. QED
    BY <2>1, <2>2, <2>6, <2>7 DEF len
<1>5. QED
  BY <1>3, <1>4

\* valid and valid_read of a region.
LEMMA RegionAnswers ==
  ASSUME ShadowInv, NEW p \in Addr, NEW n \in Sizes, NEW base,
         ~Padding(base), ~ReadsOutside(p, base)
  PROVE  /\ eacsl_valid(p, n, base) <=> Abstract(Blocks)!valid(p, n, base)
         /\ eacsl_valid_read(p, n, base) <=> Abstract(Blocks)!valid_read(p, n, base)
<1>1. n \in Nat \ {0} /\ n # 0
  BY SegmentAssumption
<1>2. \A b : Memory!Bytes(b) \subseteq Memory!Footprint(b)
  BY DEF Memory!Footprint
<1>3. p \in Span(p, n)
  BY <1>1, BlockShapes, SegmentOfByte DEF StaticAddr, Span
<1>4. allocated(p, n, base) <=>
        \E b \in Blocks : Span(p, n) \subseteq Memory!Bytes(b) /\ base \in Memory!Footprint(b)
  <2>1. CASE p \in HeapAddr
    BY <2>1, HeapRegion DEF allocated
  <2>2. CASE p \notin HeapAddr
    <3>1. p \in StaticAddr
      BY <2>2, BlockShapes
    <3>2. \A b : Span(p, n) \subseteq Memory!Bytes(b) => p \in Memory!Footprint(b)
      BY <1>2, <1>3
    <3>3. static_allocated(p, n, base) <=>
            \E b \in Blocks : /\ Span(p, n) \subseteq Memory!Bytes(b)
                              /\ base \in Memory!Footprint(b) \cup {p}
      BY <3>1, VarRegion
    <3>4. QED
      BY <2>2, <3>2, <3>3 DEF allocated
  <2>3. QED
    BY <2>1, <2>2
<1>5. \A b \in Blocks : p \in Memory!Footprint(b) => (b.readonly <=> readonly(p))
  <2>1. CASE p \in HeapAddr
    BY <2>1, HeapRegion, BlockShapes DEF readonly
  <2>2. CASE p \notin HeapAddr
    BY <2>2, VarRegion, BlockShapes
  <2>3. QED
    BY <2>1, <2>2
<1>6. \A b \in Blocks : Span(p, n) \subseteq Memory!Bytes(b) => (b.readonly <=> readonly(p))
  BY <1>2, <1>3, <1>5
<1>7. /\ Abstract(Blocks)!valid(p, n, base) <=>
             \/ n = 0
             \/ \E b \in Blocks : /\ Span(p, n) \subseteq Memory!Bytes(b)
                                  /\ base \in Memory!Footprint(b)
                                  /\ ~b.readonly
      /\ Abstract(Blocks)!valid_read(p, n, base) <=>
             \/ n = 0
             \/ \E b \in Blocks : /\ Span(p, n) \subseteq Memory!Bytes(b)
                                  /\ base \in Memory!Footprint(b)
  BY RegionContracts, Zenon
<1>8. eacsl_valid(p, n, base) <=> Abstract(Blocks)!valid(p, n, base)
  BY <1>1, <1>4, <1>6, <1>7 DEF eacsl_valid
<1>9. eacsl_valid_read(p, n, base) <=> Abstract(Blocks)!valid_read(p, n, base)
  BY <1>1, <1>4, <1>7 DEF eacsl_valid_read
<1>10. QED
  BY <1>8, <1>9

\* The predicates of an address.
LEMMA AddressAnswers ==
  ASSUME ShadowInv, NEW p \in Addr
  PROVE  /\ eacsl_freeable(p) <=> Abstract(Blocks)!freeable(p)
         /\ Abstract(Blocks)!Holders(p) # {} =>
              /\ eacsl_base_addr(p) = Abstract(Blocks)!base_addr(p)
              /\ eacsl_block_length(p) = Abstract(Blocks)!block_length(p)
              /\ eacsl_offset(p) = Abstract(Blocks)!offset(p)
<1> DEFINE H == {b \in Blocks : p \in Memory!Footprint(b)}
           d == CHOOSE b \in H : TRUE
<1>1. /\ Abstract(Blocks)!Holders(p) = H
      /\ Abstract(Blocks)!freeable(p) <=> \E b \in Blocks : b.heap /\ b.base = p
      /\ Abstract(Blocks)!base_addr(p) = d.base
      /\ Abstract(Blocks)!block_length(p) = d.size
      /\ Abstract(Blocks)!offset(p) = p - d.base
  BY AddressContracts, Zenon
<1>2. H # {} => d \in H
  OBVIOUS
<1> HIDE DEF d
<1>3. eacsl_freeable(p) <=> Abstract(Blocks)!freeable(p)
  <2>1. eacsl_freeable(p) <=> p \in Starts(segment)
    BY FreeableIsStart DEF eacsl_freeable
  <2>2. p \in Starts(segment) <=> \E b \in Blocks : b.heap /\ b.base = p
    <3>1. Blocks = BlocksOf(prim, sec, segment)
      BY DecodedBlocks
    <3>2. \A o : ~VarBlock(prim, o).heap
      BY DEF VarBlock
    <3>3. \A s : HeapBlock(segment, s).heap /\ HeapBlock(segment, s).base = s
      BY DEF HeapBlock
    <3>4. QED
      BY <3>1, <3>2, <3>3 DEF BlocksOf
  <2>3. QED
    BY <1>1, <2>1, <2>2
<1>4. ASSUME H # {}
      PROVE  /\ eacsl_base_addr(p) = d.base
             /\ eacsl_block_length(p) = d.size
             /\ eacsl_offset(p) = p - d.base
  <2>1. d \in Blocks /\ p \in Memory!Footprint(d)
    BY <1>1, <1>2, <1>4
  <2>2. CASE p \in HeapAddr
    <3> DEFINE s == heap_base(p)
    <3>1. s # NULL
      BY <2>1, <2>2, HeapOfByte
    <3>2. d = HeapBlock(segment, s) /\ heap_length(p) = segment[s].length
      BY <2>1, <2>2, <3>1, HeapOfByte
    <3>3. d.base = s /\ d.size = heap_length(p)
      BY <3>2 DEF HeapBlock
    <3>4. QED
      BY <2>2, <3>3 DEF eacsl_base_addr, eacsl_block_length, eacsl_offset
  <2>3. CASE p \notin HeapAddr
    <3>1. p \in StaticAddr
      BY <2>3, BlockShapes
    <3>2. Tracked(p)
      BY <2>1, <3>1, VarOfByte
    <3>3. PICK o \in LaidSet(prim, sec) :
            /\ p \in ObjSpan(o)
            /\ static_info(p) = [length |-> o.size, offset |-> p - o.base]
            /\ \A b \in Blocks : p \in Memory!Footprint(b) <=> b = VarBlock(prim, o)
      BY <3>1, <3>2, VarOfByte
    <3>4. d.base = o.base /\ d.size = o.size
      BY <2>1, <3>3 DEF VarBlock
    <3>5. p - (p - o.base) = o.base
      BY <3>3, ObjectFacts DEF LaidSet
    <3>6. QED
      BY <2>3, <3>3, <3>4, <3>5 DEF eacsl_base_addr, eacsl_block_length, eacsl_offset
  <2>4. QED
    BY <2>2, <2>3
<1>5. QED
  BY <1>1, <1>3, <1>4

(* The answers that the shadow memory gives to \valid, \valid_read,        *)
(* \freeable, \base_addr, \block_length and \offset are those of their     *)
(* contracts, for any region, in a block or over its end.  Not so for two  *)
(* base pointers of a region of the heap: one in the padding of a block,   *)
(* which segments cannot tell from the block, and one that is not in the   *)
(* heap, for which heap_allocated reads a place outside of its shadow.     *)
THEOREM ShadowAnswers == Spec => []AnswersAgree
<1>1. ShadowInv => AnswersAgree
  <2> SUFFICES ASSUME ShadowInv PROVE AnswersAgree
    OBVIOUS
  <2>1. \A p \in Addr : \A n \in Sizes, base \in {p} \cup Bases :
          ~Padding(base) /\ ~ReadsOutside(p, base) =>
          /\ eacsl_valid(p, n, base) <=> Abstract(Blocks)!valid(p, n, base)
          /\ eacsl_valid_read(p, n, base) <=> Abstract(Blocks)!valid_read(p, n, base)
    BY RegionAnswers, Zenon
  <2>2. \A p \in Addr :
          /\ eacsl_freeable(p) <=> Abstract(Blocks)!freeable(p)
          /\ Abstract(Blocks)!Holders(p) # {} =>
               /\ eacsl_base_addr(p) = Abstract(Blocks)!base_addr(p)
               /\ eacsl_block_length(p) = Abstract(Blocks)!block_length(p)
               /\ eacsl_offset(p) = Abstract(Blocks)!offset(p)
    BY AddressAnswers, Zenon
  <2>3. QED
    BY <2>1, <2>2, Zenon DEF AnswersAgree
<1>2. QED
  BY <1>1, ShadowIsWellFormed, PTL

-----------------------------------------------------------------------------
(* The init bits of the heap.  With ShadowInv, which says that there is no *)
(* bit out of the rooms of the blocks: in a block the bits are those of    *)
(* the bytes that have a value, and of those that realloc left.  In the    *)
(* padding they may be any.                                                *)
Marked == written \cup uncleared

BitsInv ==
  /\ \A b \in Starts(segment) : \A x \in Span(b, segment[b].length) :
       x \in init <=> x \in Marked
  /\ \A x \in uncleared : \E b \in Starts(segment) : x \in Span(b, segment[b].length)

\* No byte is marked but in a block.
LEMMA MarkedInBlocks ==
  ASSUME ShadowInv, BitsInv
  PROVE  \A x \in Marked \cap HeapAddr : \E b \in Starts(segment) : x \in Span(b, segment[b].length)
BY DEF ShadowInv, BitsInv, Marked

\* Every block of the heap is in the heap.
LEMMA UnclearedOnHeap ==
  ASSUME ShadowInv, BitsInv
  PROVE  uncleared \subseteq HeapAddr
<1>1. ASSUME NEW b \in Starts(segment), NEW x \in Span(b, segment[b].length)
      PROVE  x \in HeapAddr
  BY StartFacts, RoomFacts DEF ShadowInv
<1>2. QED
  BY <1>1 DEF BitsInv

\* What LeftSet names is in the new block.
LEMMA LeftInBlock ==
  ASSUME NEW p, NEW q \in Nat, NEW old, NEW n \in Nat
  PROVE  LeftSet(p, q, old, n) \subseteq Span(q, n)
<1>1. CHAR_BIT \in Nat \ {0} /\ n \div CHAR_BIT \in Nat
  BY SegmentAssumption
<1>2. (n \div CHAR_BIT) * CHAR_BIT \in Nat
  BY <1>1, Z3
<1>3. QED
  BY <1>2 DEF LeftSet, Span

\* An assignment sets the bits of its bytes.
LEMMA InitializeBits ==
  ASSUME ShadowInv, BitsInv, SameOnHeap
  PROVE  BitsInv'
<1>1. ASSUME NEW b \in Starts(segment), NEW x \in Span(b, segment[b].length)
      PROVE  x \in HeapAddr
  BY StartFacts, RoomFacts DEF ShadowInv
<1>2. QED
  BY <1>1 DEF BitsInv, SameOnHeap, Marked

(* The calls on a variable. *)
LEMMA VariableBits ==
  ASSUME ShadowInv, BitsInv, UNCHANGED <<segment, init, uncleared>>, NEW o \in Objects,
         written' \in {written, written \ ObjSpan(o)}
  PROVE  BitsInv'
<1>1. \A x \in HeapAddr : x \in written' <=> x \in written
  BY ObjectFacts, BlockShapes
<1>2. SameOnHeap
  BY <1>1 DEF SameOnHeap
<1>3. QED
  BY <1>2, InitializeBits

\* malloc takes bits that are null, calloc sets all of them.
LEMMA MallocBits ==
  ASSUME ShadowInv, BitsInv, NEW p \in HeapBases, NEW n \in Sizes, NEW zeroed \in BOOLEAN,
         unsafe_malloc(p, n, zeroed)
  PROVE  BitsInv'
<1>1. /\ HeapOK(segment)
      /\ init \subseteq HeapAddr
      /\ \A x \in init : segment[AlignLeft(x)].base # NULL
      /\ \A x \in Marked \cap HeapAddr :
           \E c \in Starts(segment) : x \in Span(c, segment[c].length)
  BY MarkedInBlocks DEF ShadowInv
<1>2. /\ Available(segment, p, n)
      /\ segment' = set_heap_segment(segment, p, n)
      /\ init' = IF zeroed THEN init \cup Room(p, n) ELSE init
      /\ Marked' = IF zeroed THEN Marked \cup Span(p, n) ELSE Marked
      /\ uncleared' = uncleared
  BY DEF unsafe_malloc, Room, Marked
<1>3. /\ p \in Nat /\ n \in Nat /\ p % HEAP_SEGMENT = 0
      /\ Span(p, n) \subseteq Room(p, n) /\ Room(p, n) \subseteq HeapAddr
  BY <1>2, RoomFacts, HeapConstants DEF Available
<1>4. /\ Starts(segment') = Starts(segment) \cup {p}
      /\ segment'[p].length = n
      /\ \A c \in Starts(segment) : /\ segment'[c] = segment[c]
                                    /\ Room(c, segment[c].length) \cap Room(p, n) = {}
  BY <1>1, <1>2, SetEffect
<1>5. \A c \in Starts(segment) : Span(c, segment[c].length) \subseteq Room(c, segment[c].length)
  BY <1>1, StartFacts, RoomFacts
<1>6. init \cap Room(p, n) = {}
  <2>1. ASSUME NEW x \in init \cap Room(p, n) PROVE FALSE
    <3>1. AlignLeft(x) \in Segments /\ AlignLeft(x) \in Room(p, n)
      BY <1>1, <1>3, SegmentOfByte, InRoom
    <3>2. segment[AlignLeft(x)].base = NULL
      BY <1>2, <3>1 DEF Available, Room
    <3>3. QED
      BY <1>1, <3>2
  <2>2. QED
    BY <2>1
<1>7. Marked \cap Span(p, n) = {}
  BY <1>1, <1>3, <1>4, <1>5
<1>8. ASSUME NEW c \in Starts(segment'), NEW x \in Span(c, segment'[c].length)
      PROVE  x \in init' <=> x \in Marked'
  <2>1. CASE c = p
    BY <1>2, <1>3, <1>4, <1>6, <1>7, <1>8, <2>1
  <2>2. CASE c \in Starts(segment)
    <3>1. x \in Span(c, segment[c].length) /\ x \notin Room(p, n)
      BY <1>4, <1>5, <1>8, <2>2
    <3>2. x \in init <=> x \in Marked
      BY <2>2, <3>1 DEF BitsInv
    <3>3. QED
      BY <1>2, <1>3, <3>1, <3>2
  <2>3. QED
    BY <1>4, <2>1, <2>2
<1>9. \A x \in uncleared' : \E c \in Starts(segment') : x \in Span(c, segment'[c].length)
  BY <1>2, <1>4 DEF BitsInv
<1>10. QED
  BY <1>8, <1>9 DEF BitsInv

\* free leaves none.
LEMMA FreeBits ==
  ASSUME ShadowInv, BitsInv, NEW p, unsafe_free(p)
  PROVE  BitsInv'
<1> DEFINE n == segment[p].length
<1>1. HeapOK(segment)
  BY DEF ShadowInv
<1>2. p \in Starts(segment) /\ heap_length(p) = n
  BY FreeableIsStart DEF unsafe_free
<1>3. /\ segment' = unset_heap_segment(segment, p)
      /\ init' = init \ Room(p, n)
      /\ Marked' = Marked \ Span(p, n)
      /\ uncleared' = uncleared \ Span(p, n)
  BY <1>2 DEF unsafe_free, Room, Marked
<1>4. Span(p, n) \subseteq Room(p, n)
  BY <1>1, <1>2, StartFacts, RoomFacts
<1>5. /\ Starts(segment') = Starts(segment) \ {p}
      /\ \A c \in Starts(segment) \ {p} : segment'[c] = segment[c]
  BY <1>1, <1>2, <1>3, UnsetEffect
<1>6. ASSUME NEW c \in Starts(segment'), NEW x \in Span(c, segment'[c].length)
      PROVE  x \in init' <=> x \in Marked'
  <2>1. c \in Starts(segment) /\ c # p /\ x \in Span(c, segment[c].length)
    BY <1>5, <1>6
  <2>2. x \in Room(c, segment[c].length)
    BY <1>1, <2>1, StartFacts, RoomFacts
  <2>3. x \notin Room(p, n)
    BY <1>1, <1>2, <2>1, <2>2, RoomsApart
  <2>4. x \in init <=> x \in Marked
    BY <2>1 DEF BitsInv
  <2>5. QED
    BY <1>3, <1>4, <2>3, <2>4
<1>7. \A x \in uncleared' : \E c \in Starts(segment') : x \in Span(c, segment'[c].length)
  BY <1>3, <1>5 DEF BitsInv
<1>8. QED
  BY <1>6, <1>7 DEF BitsInv

\* realloc keeps those of the bytes that it keeps, and leaves those that LeftSet names.
LEMMA ReallocBits ==
  ASSUME ShadowInv, BitsInv, NEW p \in HeapBases, NEW q \in HeapBases,
         NEW n \in Sizes, unsafe_realloc(p, q, n)
  PROVE  BitsInv'
<1> DEFINE old == segment[p].length
           moved == {a \in Span(q, n) : a - q + p \in Marked \cap Span(p, old)}
           left == LeftSet(p, q, old, n)
<1>1. /\ HeapOK(segment)
      /\ init \subseteq HeapAddr
      /\ \A x \in init : segment[AlignLeft(x)].base # NULL
      /\ \A x \in Marked \cap HeapAddr :
           \E c \in Starts(segment) : x \in Span(c, segment[c].length)
  BY MarkedInBlocks DEF ShadowInv
<1>2. /\ p \in Starts(segment) /\ heap_length(p) = old
      /\ Starts(segment') = (Starts(segment) \ {p}) \cup {q}
      /\ segment'[q].length = n
      /\ \A c \in Starts(segment) \ {p} :
           /\ segment'[c] = segment[c]
           /\ Room(c, segment[c].length) \cap Room(q, n) = {}
      /\ q + ALLOC_SIZE(n) <= HeapEnd
      /\ q # p => \A s \in Segments \cap Room(q, n) : segment[s].base = NULL
  BY ReallocSegments
<1>3. /\ init' = MovedInit(p, q, old, n)
      /\ Marked' = (Marked \ Span(p, old)) \cup moved \cup left
      /\ left \subseteq Span(q, n)
      /\ uncleared' \subseteq (uncleared \ Span(p, old)) \cup Span(q, n)
  <2>1. /\ init' = MovedInit(p, q, old, n)
        /\ written' = Moved(written, p, q, old, n)
        /\ uncleared' = Moved(uncleared, p, q, old, n) \cup left
    BY <1>2 DEF unsafe_realloc
  <2>2. left \subseteq Span(q, n)
    BY LeftInBlock, SegmentAssumption, HeapConstants
  <2> HIDE DEF left
  <2>3. Marked' = (Marked \ Span(p, old)) \cup moved \cup left
    BY <2>1 DEF Marked, Moved
  <2>4. QED
    BY <2>1, <2>2, <2>3 DEF Moved
<1>4. /\ old \in Nat \ {0} /\ p \in Nat
      /\ Span(p, old) \subseteq Room(p, old)
  BY <1>1, <1>2, StartFacts, RoomFacts
<1>5. /\ n \in Nat \ {0} /\ q \in Nat /\ q % HEAP_SEGMENT = 0
      /\ Span(q, n) \subseteq Room(q, n) /\ Room(q, n) \subseteq HeapAddr
  BY <1>2, RoomFacts, HeapConstants
<1>6. \A c \in Starts(segment) : Span(c, segment[c].length) \subseteq Room(c, segment[c].length)
  BY <1>1, StartFacts, RoomFacts
<1>7. q # p => init \cap Room(q, n) = {}
  <2>1. ASSUME q # p, NEW x \in init \cap Room(q, n) PROVE FALSE
    <3>1. AlignLeft(x) \in Segments /\ AlignLeft(x) \in Room(q, n)
      BY <1>1, <1>5, <2>1, SegmentOfByte, InRoom
    <3>2. QED
      BY <1>1, <1>2, <2>1, <3>1
  <2>2. QED
    BY <2>1
<1>8. q = p \/ init \cap Span(q, n) = {}
  BY <1>5, <1>7
<1>9. /\ \A x \in init' : x \in Room(q, n) \/ (x \in init /\ x \notin Room(p, old))
      /\ \A x \in init : x \notin Room(p, old) /\ x \notin Room(q, n) => x \in init'
      /\ \A x \in Span(q, n) :
           x \in init' <=> (x - q < old /\ x - q + p \in init) \/ x \in left
  BY <1>3, <1>4, <1>5, <1>8, MovedBits
<1> HIDE DEF left
<1>10. moved \subseteq Span(q, n) /\ left \subseteq Span(q, n)
  BY <1>3
<1>11. ASSUME NEW x \in Span(q, n)
       PROVE  x \in init' <=> x \in Marked'
  <2>1. x \in Int /\ q <= x /\ x < q + n
    BY <1>5 DEF Span
  <2>2. x - q + p \in Span(p, old) <=> x - q < old
    BY <1>4, <1>5, <2>1 DEF Span
  <2>3. x \notin Marked \ Span(p, old)
    <3>1. ASSUME x \in Marked, x \notin Span(p, old) PROVE FALSE
      <4>1. PICK c \in Starts(segment) : x \in Span(c, segment[c].length)
        BY <1>1, <1>5, <3>1
      <4>2. c # p
        BY <3>1, <4>1
      <4>3. QED
        BY <1>2, <1>5, <1>6, <4>1, <4>2
    <3>2. QED
      BY <3>1
  <2>4. x \in Marked' <=> x - q + p \in Marked \cap Span(p, old) \/ x \in left
    BY <1>3, <2>3
  <2>5. \A y \in Span(p, old) : y \in init <=> y \in Marked
    BY <1>2 DEF BitsInv
  <2>6. QED
    BY <1>9, <2>2, <2>4, <2>5
<1> HIDE DEF moved
<1>12. ASSUME NEW c \in Starts(segment) \ {p}, NEW x \in Span(c, segment[c].length)
       PROVE  x \in init' <=> x \in Marked'
  <2>1. x \in Room(c, segment[c].length) /\ x \notin Room(q, n)
    BY <1>2, <1>6
  <2>2. x \notin Room(p, old)
    BY <1>1, <1>2, <2>1, RoomsApart
  <2>3. x \in init <=> x \in Marked
    BY DEF BitsInv
  <2>4. x \in Marked' <=> x \in Marked
    BY <1>3, <1>4, <1>5, <1>10, <2>1, <2>2
  <2>5. QED
    BY <1>9, <2>1, <2>2, <2>3, <2>4
<1>13. ASSUME NEW c \in Starts(segment'), NEW x \in Span(c, segment'[c].length)
       PROVE  x \in init' <=> x \in Marked'
  <2>1. CASE c = q
    BY <1>2, <1>11, <1>13, <2>1
  <2>2. CASE c # q
    BY <1>2, <1>12, <1>13, <2>2
  <2>3. QED
    BY <2>1, <2>2
<1>14. \A x \in uncleared' : \E c \in Starts(segment') : x \in Span(c, segment'[c].length)
  <2> TAKE x \in uncleared'
  <2>1. CASE x \in Span(q, n)
    BY <1>2, <2>1
  <2>2. CASE x \in uncleared /\ x \notin Span(p, old)
    <3>1. PICK c \in Starts(segment) : x \in Span(c, segment[c].length)
      BY <2>2 DEF BitsInv
    <3>2. c # p
      BY <2>2, <3>1
    <3>3. QED
      BY <1>2, <3>1, <3>2
  <2>3. QED
    BY <1>3, <2>1, <2>2
<1>15. QED
  BY <1>13, <1>14 DEF BitsInv

\* Every step keeps the init bits of a block those of its bytes that are marked.
LEMMA BitsStep ==
  ASSUME ShadowInv, BitsInv, [Next]_vars
  PROVE  BitsInv'
<1>1. CASE UNCHANGED vars
  BY <1>1 DEF vars, BitsInv, Marked
<1>2. ASSUME NEW o \in Objects,
             \/ shadow_alloca(o) \/ shadow_freea(o)
             \/ eacsl_store_block_duplicate(o) \/ eacsl_mark_readonly(o)
      PROVE  BitsInv'
  <2>1. UNCHANGED <<segment, init, uncleared>> /\ written' \in {written, written \ ObjSpan(o)}
    BY <1>2 DEF shadow_alloca, shadow_freea, eacsl_store_block_duplicate,
                eacsl_mark_readonly, ObjSpan
  <2>2. QED
    BY <2>1, VariableBits
<1>3. ASSUME NEW p \in Pointers,
             eacsl_full_init(p) \/ \E part \in Parts : eacsl_initialize(p, part)
      PROVE  BitsInv'
  BY <1>3, InitializeSteps, InitializeBits
<1>4. ASSUME NEW p \in Pointers, unsafe_free(p) PROVE BitsInv'
  BY <1>4, FreeBits
<1>5. ASSUME NEW p \in Pointers, not_a_start_of_block(p) PROVE BitsInv'
  BY <1>5 DEF not_a_start_of_block, BitsInv, Marked
<1>6. ASSUME NEW p \in HeapBases, NEW n \in Sizes, NEW z \in BOOLEAN, unsafe_malloc(p, n, z)
      PROVE  BitsInv'
  BY <1>6, MallocBits
<1>7. ASSUME NEW p \in HeapBases, NEW q \in HeapBases, NEW n \in Sizes, unsafe_realloc(p, q, n)
      PROVE  BitsInv'
  BY <1>7, ReallocBits
<1>8. QED
  BY <1>1, <1>2, <1>3, <1>4, <1>5, <1>6, <1>7 DEF Next

\* heap_initialized and static_initialized of a region that they read right.
LEMMA RegionInitialized ==
  ASSUME ShadowInv, BitsInv, NEW p \in Addr, NEW n \in Sizes,
         LET skip == (p - HEAP_START) % CHAR_BIT IN
         p \in StaticAddr \/ skip = 0 \/ skip + n <= CHAR_BIT,
         NEW b \in Blocks, Span(p, n) \subseteq Memory!Bytes(b)
  PROVE  eacsl_initialized(p, n) <=> Span(p, n) \subseteq Marked
<1>1. n \in Nat \ {0} /\ p \in Nat /\ p \in Span(p, n)
  BY SegmentAssumption, BlockShapes, SegmentOfByte DEF StaticAddr, Span
<1>2. p \in Memory!Footprint(b)
  BY <1>1 DEF Memory!Footprint
<1>3. CASE p \in StaticAddr
  <2>1. p \notin HeapAddr
    BY <1>3, BlockShapes
  <2>2. static_allocated(p, n, p)
    BY <1>3, VarRegion
  <2>3. Tracked(p)
    BY <1>2, <1>3, VarOfByte
  <2>4. PICK o \in LaidSet(prim, sec) :
          \A d \in Blocks : p \in Memory!Footprint(d) <=> d = VarBlock(prim, o)
    BY <1>3, <2>3, VarOfByte
  <2>5. o \in Objects /\ prim \in PrimShadow
    BY DEF LaidSet, ShadowInv, StaticOK
  <2>6. Memory!Bytes(b) = ObjSpan(o)
    BY <1>2, <2>4, <2>5, BlockShapes
  <2>7. Span(p, n) \subseteq StaticAddr
    BY <2>5, <2>6, ObjectFacts
  <2>8. \A x \in Span(p, n) : prim[x].init <=> x \in Marked
    BY <2>7, UnclearedOnHeap, BlockShapes DEF ShadowInv, Marked
  <2>9. QED
    BY <2>1, <2>2, <2>8 DEF eacsl_initialized, static_initialized
<1>4. CASE p \in HeapAddr
  <2> DEFINE s == heap_base(p)
             skip == (p - HEAP_START) % CHAR_BIT
             m == IF skip = 0 THEN 0 ELSE Min({n, CHAR_BIT - skip})
  <2>1. s # NULL
    BY <1>2, <1>4, HeapOfByte
  <2>2. b = HeapBlock(segment, s) /\ Memory!Bytes(b) = Span(s, heap_length(p))
        /\ s \in Starts(segment) /\ heap_length(p) = segment[s].length
    BY <1>2, <1>4, <2>1, HeapOfByte
  <2>3. \A x \in Span(p, n) : x \in init <=> x \in Marked
    BY <2>2 DEF BitsInv
  <2>4. CHAR_BIT \in Nat \ {0} /\ HEAP_START \in Nat
    BY SegmentAssumption, HeapConstants
  <2>5. skip \in 0 .. CHAR_BIT - 1
    <3>1. p - HEAP_START \in Int
      BY <1>1, <2>4
    <3>2. QED
      BY <2>4, <3>1, DivMod
  <2>6. skip = 0 \/ skip + n <= CHAR_BIT
    BY <1>4, BlockShapes
  <2>7. heap_initialized(p, n) <=> Span(p, m) \cup Span(p - skip, n - m) \subseteq init
    BY DEF heap_initialized
  <2> HIDE DEF skip
  <2>8. CASE skip = 0
    <3>1. m = 0 /\ p - skip = p /\ n - m = n
      BY <1>1, <2>8
    <3>2. Span(p, 0) = {}
      BY <1>1 DEF Span
    <3>3. QED
      BY <1>4, <2>3, <2>7, <3>1, <3>2 DEF eacsl_initialized
  <2>9. CASE skip # 0
    <3>1. CHAR_BIT - skip \in Nat /\ n <= CHAR_BIT - skip
      BY <1>1, <2>4, <2>5, <2>6, <2>9
    <3>2. Min({n, CHAR_BIT - skip}) = n
      BY <1>1, <3>1, MinOfTwo
    <3>3. m = n /\ n - m = 0
      BY <1>1, <2>9, <3>2
    <3>4. Span(p - skip, 0) = {}
      BY <1>1, <2>4, <2>5 DEF Span
    <3>5. QED
      BY <1>4, <2>3, <2>7, <3>3, <3>4 DEF eacsl_initialized
  <2>10. QED
    BY <2>8, <2>9
<1>5. QED
  BY <1>3, <1>4, BlockShapes

(* Of a region of a block that starts on a byte of the init shadow, or     *)
(* stays in it, __e_acsl_initialized answers that it is initialized when   *)
(* the program has given a value to all of its bytes, and only then: not   *)
(* from what a block that was there before has left.  The exception is     *)
(* exactly what LeftSet names: the bits past the end of a block of calloc  *)
(* that realloc leaves set when the block grows in place.                  *)
THEOREM ShadowInitialized == Spec => []InitializedIffWritten
<1>1. Init => BitsInv
  BY HeapConstants DEF Init, BitsInv, Marked, Starts, Segments, HeapAddr, NULL
<1>2. ShadowInv /\ BitsInv /\ [Next]_vars => BitsInv'
  BY BitsStep
<1>3. ShadowInv /\ BitsInv => InitializedIffWritten
  <2> SUFFICES ASSUME ShadowInv, BitsInv PROVE InitializedIffWritten
    OBVIOUS
  <2>1. ASSUME NEW p \in Addr, NEW n \in Sizes,
               LET skip == (p - HEAP_START) % CHAR_BIT IN
               p \in StaticAddr \/ skip = 0 \/ skip + n <= CHAR_BIT
        PROVE  InBlock(Blocks, p, n) =>
                 (eacsl_initialized(p, n) <=> Span(p, n) \subseteq written \cup uncleared)
    <3>1. \A b : Abstract(Blocks)!Bytes(b) = Memory!Bytes(b)
      BY DEF Abstract!Bytes, Abstract!Span, Memory!Bytes, Memory!Span
    <3>2. ASSUME NEW b \in Blocks, Span(p, n) \subseteq Memory!Bytes(b)
          PROVE  eacsl_initialized(p, n) <=> Span(p, n) \subseteq Marked
      BY <2>1, <3>2, RegionInitialized, Zenon
    <3>3. QED
      BY <3>1, <3>2, Zenon DEF InBlock, Marked
  <2>2. QED
    BY <2>1, Zenon DEF InitializedIffWritten
<1>4. QED
  BY <1>1, <1>2, <1>3, ShadowIsWellFormed, PTL DEF Spec

-----------------------------------------------------------------------------
(* The linked program *)

(* The library that was not chosen does nothing. *)
LEMMA ShadowRuns == LinkedSpec => Spec
<1>1. LinkedInit => Init
  BY DEF LinkedInit
<1>2. [LinkedNext]_<<library, vars, bvars>> => [Next]_vars
  BY DEF LinkedNext
<1> QED BY <1>1, <1>2, PTL DEF LinkedSpec, Spec

\* ... and what is left is a run of the other one.
LEMMA BittreeRuns == LinkedSpec => Bittree!Spec
<1>1. LinkedInit => Bittree!Init
  BY DEF LinkedInit
<1>2. [LinkedNext]_<<library, vars, bvars>> => [Bittree!Next]_(Bittree!vars)
  BY DEF LinkedNext, bvars, Bittree!vars
<1> QED BY <1>1, <1>2, PTL DEF LinkedSpec, Bittree!Spec

(* A linked program keeps the trie of the bittree exact: whatever was      *)
(* stored, freed, moved and stored again, it has a leaf for each bt_block  *)
(* and nothing else, and its nodes are twice as many but one.              *)
THEOREM LinkedBittreeIsExact ==
  ASSUME LookupReturns = "leaf"
  PROVE  LinkedSpec => []BittreeIsExact
<1>1. Bittree!Spec => []Bittree!TrieHoldsBlocks
  BY BittreeConstants, Bittree!TrieHoldsTheBlocks
<1> QED BY <1>1, BittreeRuns, PTL DEF BittreeIsExact

(* Its bt_block structures are at each step the blocks of a C program that *)
(* makes the same calls: the bittree implements BlockMap.                  *)
THEOREM LinkedBittreeKeepsTheBlocks ==
  ASSUME LookupReturns = "leaf"
  PROVE  LinkedSpec => BittreeKeepsTheBlocks
<1>1. Bittree!Spec => Bittree!KeepsTheBlocks
  BY BittreeConstants, Bittree!BittreeKeepsTheBlocks
<1> QED BY <1>1, BittreeRuns, PTL DEF BittreeKeepsTheBlocks

(* Every predicate of the annotations has, through the search of the trie, *)
(* the answer of its contract at every address.                            *)
THEOREM LinkedBittreeAnswers ==
  ASSUME LookupReturns = "leaf"
  PROVE  LinkedSpec => []BittreeAnswers
<1>1. Bittree!Spec => []Bittree!AnswersAgree
  BY BittreeConstants, Bittree!BittreeAnswers
<1> QED BY <1>1, BittreeRuns, PTL DEF BittreeAnswers

(* What the bittree says to be initialized was written, or kept by         *)
(* realloc, where no block shrinks that is partly written.                 *)
THEOREM LinkedBittreeInitialized ==
  ASSUME LookupReturns = "leaf", ~ShrinksPartly
  PROVE  LinkedSpec => []BittreeInitialized
<1>1. Bittree!Spec => []Bittree!OnlyWrittenIsInitialized
  BY BittreeConstants, Bittree!BittreeInitialized
<1> QED BY <1>1, BittreeRuns, PTL DEF BittreeInitialized

(* The counters of the heap, in the shadow memory as in the bittree: they  *)
(* are those of the heap blocks of the invariant of BittreeModelProofs.    *)
Counted == Bittree!HeapCounted(heap, HeapBlocks)

(* What BittreeModelProofs takes from FiniteSets is what is taken here.    *)
LEMMA SameSizes ==
  ASSUME NEW S
  PROVE  /\ Bittree!IsFiniteSet(S) <=> IsFiniteSet(S)
         /\ Bittree!Cardinality(S) = Cardinality(S)
<1>1. Bittree!IsFiniteSet(S) <=> IsFiniteSet(S)
  BY Zenon DEF Bittree!IsFiniteSet, IsFiniteSet
<1>2. Bittree!Cardinality(S) = Cardinality(S)
  BY Zenon DEF Bittree!Cardinality, Cardinality
<1> QED BY <1>1, <1>2

(* Both libraries have the function.                                       *)
LEMMA SameCount ==
  ASSUME NEW h, NEW n
  PROVE  Bittree!update_heap_allocation(h, n) = update_heap_allocation(h, n)
BY DEF Bittree!update_heap_allocation, update_heap_allocation

(* HeapBlocks, read off the segments. *)
LEMMA HeapBlocksAre ==
  /\ HeapBlocks = {HeapBlock(segment, s) : s \in Starts(segment)}
  /\ HeapBlocks' = {HeapBlock(segment', s) : s \in Starts(segment')}
  /\ Bittree!HeapPart(HeapBlocks) = HeapBlocks
BY DEF HeapBlocks, HeapBlockBases, HeapBlock, Starts, Bittree!HeapPart

\* Counters of the same segments.
LEMMA CountUnchanged ==
  ASSUME Counted, UNCHANGED <<segment, heap>>
  PROVE  Counted'
<1>1. HeapBlocks' = HeapBlocks
  BY HeapBlocksAre
<1> QED BY <1>1, Zenon DEF Counted

\* malloc and calloc count their block in.
LEMMA CountMalloc ==
  ASSUME ShadowInv, Counted, NEW p \in HeapBases, NEW n \in Sizes, NEW zeroed \in BOOLEAN,
         unsafe_malloc(p, n, zeroed)
  PROVE  Counted'
<1>. DEFINE c == HeapBlock(segment', p)
<1>1. HeapOK(segment) /\ Available(segment, p, n) /\ n \in Nat \ {0}
  BY SegmentAssumption DEF ShadowInv, unsafe_malloc
<1>2. segment' = set_heap_segment(segment, p, n) /\ heap' = update_heap_allocation(heap, n)
  BY DEF unsafe_malloc
<1>3. /\ p \notin Starts(segment) /\ Starts(segment') = Starts(segment) \cup {p}
      /\ segment'[p].length = n
      /\ \A s \in Starts(segment) : segment'[s] = segment[s]
  BY <1>1, <1>2, SetEffect
<1>4. \A s \in Starts(segment) : HeapBlock(segment', s) = HeapBlock(segment, s)
  BY <1>3 DEF HeapBlock
<1>5. HeapBlocks' = HeapBlocks \cup {c}
  BY <1>3, <1>4, HeapBlocksAre
<1>6. c \notin HeapBlocks /\ c.heap /\ c.size = n
  BY <1>3, HeapBlocksAre DEF HeapBlock
<1>. HIDE DEF c
<1>7. Bittree!HeapCounted(Bittree!update_heap_allocation(heap, c.size), HeapBlocks \cup {c})
  BY <1>1, <1>6, BittreeConstants, Bittree!CountedIn DEF Counted
<1>8. Bittree!update_heap_allocation(heap, c.size) = heap'
  BY <1>2, <1>6, SameCount
<1> QED BY <1>5, <1>7, <1>8 DEF Counted

\* free counts it out.
LEMMA CountFree ==
  ASSUME ShadowInv, Counted, NEW p, unsafe_free(p)
  PROVE  Counted'
<1>. DEFINE c == HeapBlock(segment, p)
<1>1. HeapOK(segment) /\ p \in Starts(segment) /\ heap_length(p) = segment[p].length
  BY FreeableIsStart DEF ShadowInv, unsafe_free
<1>2. /\ segment' = unset_heap_segment(segment, p)
      /\ heap' = update_heap_allocation(heap, -segment[p].length)
  BY <1>1 DEF unsafe_free
<1>3. /\ Starts(segment') = Starts(segment) \ {p}
      /\ \A s \in Starts(segment) \ {p} : segment'[s] = segment[s]
  BY <1>1, <1>2, UnsetEffect
<1>4. \A s \in Starts(segment) \ {p} :
        HeapBlock(segment', s) = HeapBlock(segment, s) /\ HeapBlock(segment, s) # c
  BY <1>3 DEF HeapBlock
<1>5. HeapBlocks' = HeapBlocks \ {c} /\ c \in HeapBlocks
  BY <1>1, <1>3, <1>4, HeapBlocksAre
<1>6. c.heap /\ c.size = segment[p].length
  BY DEF HeapBlock
<1>. HIDE DEF c
<1>7. Bittree!HeapCounted(Bittree!update_heap_allocation(heap, -c.size), HeapBlocks \ {c})
  BY <1>5, <1>6, BittreeConstants, Bittree!CountedOut DEF Counted
<1>8. Bittree!update_heap_allocation(heap, -c.size) = heap'
  BY <1>2, <1>6, SameCount
<1> QED BY <1>5, <1>7, <1>8 DEF Counted

\* realloc counts out, then in.
LEMMA CountRealloc ==
  ASSUME ShadowInv, Counted, NEW p \in HeapBases, NEW q \in HeapBases, NEW n \in Sizes,
         unsafe_realloc(p, q, n)
  PROVE  Counted'
<1>. DEFINE b == HeapBlock(segment, p)
            c == HeapBlock(segment', q)
            less == update_heap_allocation(heap, -b.size)
<1>1. /\ p \in Starts(segment) /\ heap_length(p) = segment[p].length
      /\ Starts(segment') = (Starts(segment) \ {p}) \cup {q}
      /\ q = p \/ q \notin Starts(segment)
      /\ segment'[q].length = n
      /\ \A s \in Starts(segment) \ {p} : segment'[s] = segment[s]
  BY ReallocSegments
<1>2. n \in Nat \ {0}
  BY SegmentAssumption
<1>3. \A s \in Starts(segment) \ {p} :
        HeapBlock(segment', s) = HeapBlock(segment, s) /\ HeapBlock(segment, s) # b
  BY <1>1 DEF HeapBlock
<1>4. b.heap /\ b.size = segment[p].length /\ c.heap /\ c.size = n
  BY <1>1 DEF HeapBlock
<1>5. HeapBlocks' = (HeapBlocks \ {b}) \cup {c} /\ b \in HeapBlocks
  BY <1>1, <1>3, HeapBlocksAre
<1>6. c \notin HeapBlocks \ {b}
  <2>1. ASSUME NEW s \in Starts(segment) \ {p}, c = HeapBlock(segment, s) PROVE FALSE
    BY <1>1, <2>1 DEF HeapBlock
  <2> QED BY <2>1, HeapBlocksAre
<1>7. heap' = update_heap_allocation(less, n)
  BY <1>1, <1>4 DEF unsafe_realloc
<1>8. Bittree!update_heap_allocation(heap, -b.size) = less
  BY SameCount
<1>. HIDE DEF b, c, less
<1>9. Bittree!HeapCounted(less, HeapBlocks \ {b})
  BY <1>4, <1>5, <1>8, BittreeConstants, Bittree!CountedOut DEF Counted
<1>10. Bittree!HeapCounted(Bittree!update_heap_allocation(less, c.size),
                           (HeapBlocks \ {b}) \cup {c})
  BY <1>2, <1>4, <1>6, <1>9, BittreeConstants, Bittree!CountedIn
<1>11. Bittree!update_heap_allocation(less, c.size) = heap'
  BY <1>4, <1>7, SameCount
<1> QED BY <1>5, <1>10, <1>11 DEF Counted

\* Every step keeps the counters those of the heap.
LEMMA CountStep == ASSUME ShadowInv, Counted, [Next]_vars PROVE Counted'
<1>1. CASE UNCHANGED <<segment, heap>>
  BY <1>1, CountUnchanged
<1>2. ASSUME NEW o \in Objects,
             \/ shadow_alloca(o) \/ shadow_freea(o)
             \/ eacsl_store_block_duplicate(o) \/ eacsl_mark_readonly(o)
      PROVE  Counted'
  BY <1>1, <1>2 DEF shadow_alloca, shadow_freea, eacsl_store_block_duplicate,
                    eacsl_mark_readonly
<1>3. ASSUME NEW p \in Pointers,
             eacsl_full_init(p) \/ \E part \in Parts : eacsl_initialize(p, part)
      PROVE  Counted'
  BY <1>1, <1>3 DEF eacsl_full_init, eacsl_initialize, Initialize
<1>4. ASSUME NEW p \in Pointers, not_a_start_of_block(p) PROVE Counted'
  BY <1>1, <1>4 DEF not_a_start_of_block
<1>5. ASSUME NEW p \in Pointers, unsafe_free(p) PROVE Counted'
  BY <1>5, CountFree
<1>6. ASSUME NEW p \in HeapBases, NEW n \in Sizes, NEW z \in BOOLEAN, unsafe_malloc(p, n, z)
      PROVE  Counted'
  BY <1>6, CountMalloc
<1>7. ASSUME NEW p \in HeapBases, NEW q \in HeapBases, NEW n \in Sizes, unsafe_realloc(p, q, n)
      PROVE  Counted'
  BY <1>7, CountRealloc
<1>8. CASE UNCHANGED vars
  BY <1>1, <1>8 DEF vars
<1> QED BY <1>2, <1>3, <1>4, <1>5, <1>6, <1>7, <1>8 DEF Next

(* The fold of CountersMatch goes through a block of HeapBlocks after the  *)
(* other, which SumsAreWeights weighs.                                     *)
LEMMA CountIsSum ==
  ASSUME Counted
  PROVE  CountersMatch
<1>. DEFINE S == HeapBlocks
            same == [b \in S |-> b]
            Sum(g) == [s \in SUBSET S |->
                         IF s = {} THEN 0
                         ELSE (CHOOSE x \in s : TRUE).size + g[s \ {CHOOSE x \in s : TRUE}]]
            iter == CHOOSE g : g = Sum(g)
            W == Bittree!Weighing(S, same)
<1>1. /\ IsFiniteSet(S) /\ \A b \in S : b.size \in Nat \ {0}
      /\ heap = [size |-> Bittree!Weight(S), blocks |-> Cardinality(S)]
  BY HeapBlocksAre, SameSizes DEF Counted, Bittree!HeapCounted
<1>2. /\ \A x \in S : same[x].size = same[x].size /\ same[x].size \in Nat
      /\ \A x, y \in S : same[x] = same[y] => x = y
  BY <1>1
<1>3. Bittree!BlocksAt(same, S) = S
  BY DEF Bittree!BlocksAt
<1>4. \A g : Bittree!SumFrom(S, same, g) = Sum(g)
  <2>1. ASSUME NEW g, NEW s \in SUBSET S, s # {}
        PROVE  same[CHOOSE x \in s : TRUE] = CHOOSE x \in s : TRUE
    BY <2>1
  <2> QED BY <2>1 DEF Bittree!SumFrom
<1>5. FoldSet(LAMBDA b, sum : b.size + sum, 0, S) = iter[S]
  BY Zenon DEF FoldSet, MapThenFoldSet
<1>. HIDE DEF S, same
<1>6. Bittree!SumsToWeight(S, same, same)
  BY <1>1, <1>2, SameSizes, BittreeConstants, Bittree!SumsAreWeights
<1>. HIDE DEF Sum, W
<1>7. W = Sum(W)
  BY <1>4, <1>6 DEF Bittree!SumsToWeight, W
<1>8. iter = Sum(iter)
  BY <1>7
<1>. HIDE DEF iter
<1>9. iter[S] = Bittree!Weight(S)
  BY <1>3, <1>4, <1>6, <1>8 DEF Bittree!SumsToWeight
<1>10. heap.size = Bittree!Weight(S) /\ heap.blocks = Cardinality(S)
  BY <1>1
<1> QED BY <1>5, <1>9, <1>10, Zenon DEF CountersMatch, S

(* Whichever the library, the counters of the leak report and of           *)
(* __e_acsl_heap_allocation_size are the number and the bytes of the heap  *)
(* blocks, whatever malloc, calloc, realloc and free did before: realloc   *)
(* counts the old block out and the new one in, in an order of its own in  *)
(* each library, and no order loses or gains a byte.                       *)
THEOREM LinkedHeapIsCounted ==
  ASSUME LookupReturns = "leaf"
  PROVE  LinkedSpec => []HeapIsCounted
<1>1. Init => Counted
  <2> SUFFICES ASSUME Init PROVE Counted
    OBVIOUS
  <2>1. Starts(segment) = {}
    BY HeapConstants DEF Init, Starts, Segments, HeapAddr, NULL
  <2>2. HeapBlocks = {} /\ Bittree!HeapPart(HeapBlocks) = {}
    BY <2>1, HeapBlocksAre
  <2>3. IsFiniteSet({}) /\ Cardinality({}) = 0 /\ Bittree!Weight({}) = 0
    BY FS_EmptySet, SameSizes, BittreeConstants, Bittree!Weights
  <2>4. heap = [size |-> 0, blocks |-> 0]
    BY DEF Init
  <2> QED BY <2>2, <2>3, <2>4, SameSizes DEF Counted, Bittree!HeapCounted
<1>2. ShadowInv /\ Counted /\ [Next]_vars => Counted'
  BY CountStep
<1>3. Counted => CountersMatch
  BY CountIsSum
<1>4. Spec => []CountersMatch
  BY <1>1, <1>2, <1>3, ShadowIsWellFormed, PTL DEF Spec
<1>5. Bittree!Spec => []Bittree!CountersMatch
  BY BittreeConstants, Bittree!BittreeCounts
<1> QED BY <1>4, <1>5, ShadowRuns, BittreeRuns, PTL DEF HeapIsCounted

(* The theorems on the shadow memory are theorems on the program linked    *)
(* with it.                                                                *)
THEOREM LinkedShadow ==
  LinkedSpec => /\ KeepsTheBlocks
                /\ [](AnswersAgree /\ InitializedIffWritten /\ FreeIsNullified)
BY ShadowRuns, ShadowKeepsTheBlocks, ShadowAnswers, ShadowInitialized, FreeShadowIsNull, PTL

-----------------------------------------------------------------------------
(* The abstract memory: what it guarantees for any addresses and sizes.    *)
(* The bittree and the shadow memory implement it, by the theorems above:  *)
(* these are facts about both.                                             *)
CONSTANTS Places, Lengths
VARIABLES memory, valued, stopped

Map == INSTANCE BlockMap
  WITH Addr <- Places, Size <- Lengths,
       blocks <- memory, init <- valued, aborted <- stopped

(* A block stays where its program has addresses. *)
MapPlaced == \A b \in memory : Map!Footprint(b) \subseteq Places

MapInv ==
  Map!TypeOK /\ MapPlaced /\ Map!Disjoint /\ Map!ValuesInBlocks /\ Map!HeapIsWritable

MapCalls(b) ==
  \/ Map!Delete(b) \/ Map!StoreAgain(b) \/ Map!MarkReadonly(b) \/ Map!Free(b)
  \/ \E p \in Map!Bytes(b), n \in 1 .. b.size : Map!Initialize(b, p, n)

-----------------------------------------------------------------------------
\* No block at first.
LEMMA MapAtInit == Map!Init => MapInv
BY DEF Map!Init, MapInv, Map!TypeOK, MapPlaced, Map!Disjoint, Map!ValuesInBlocks,
       Map!HeapIsWritable

(* A block that is put where there is none keeps the blocks apart. *)
LEMMA AddedIsApart ==
  ASSUME MapInv, NEW old \in SUBSET memory, NEW b \in Map!Block, Map!Clear(b, old),
         memory' = old \cup {b}, b.heap => ~b.readonly
  PROVE  (MapPlaced /\ Map!Disjoint /\ Map!HeapIsWritable)' /\ memory' \subseteq Map!Block
<1>1. MapPlaced' /\ memory' \subseteq Map!Block
  BY DEF MapInv, Map!TypeOK, MapPlaced, Map!Clear, Map!Footprint, Map!Bytes, Map!Span
<1>2. Map!Disjoint'
  <2> SUFFICES ASSUME NEW c \in old \cup {b}, NEW d \in old \cup {b}, c # d
               PROVE  Map!Footprint(c) \cap Map!Footprint(d) = {}
    BY DEF Map!Disjoint, Map!Footprint, Map!Bytes, Map!Span
  <2>1. CASE c \in old /\ d \in old
    BY <2>1 DEF MapInv, Map!Disjoint
  <2>2. CASE c = b \/ d = b
    BY <2>2 DEF Map!Clear
  <2> QED  BY <2>1, <2>2
<1>3. Map!HeapIsWritable'
  BY DEF MapInv, Map!HeapIsWritable
<1> QED  BY <1>1, <1>2, <1>3

(* A block that keeps its place can change its flags. *)
LEMMA SamePlace ==
  ASSUME MapInv, NEW b \in memory, NEW c \in Map!Block, c.base = b.base, c.size = b.size
  PROVE  /\ Map!Clear(c, memory \ {b})
         /\ Map!Footprint(c) = Map!Footprint(b) /\ Map!Bytes(c) = Map!Bytes(b)
BY DEF MapInv, MapPlaced, Map!Disjoint, Map!Clear, Map!Footprint, Map!Bytes, Map!Span

\* A block less, with its values.
LEMMA RemovedIsApart ==
  ASSUME MapInv, NEW b \in memory, memory' = memory \ {b}, valued' = valued \ Map!Bytes(b)
  PROVE  (MapPlaced /\ Map!Disjoint /\ Map!HeapIsWritable /\ Map!ValuesInBlocks)'
           /\ memory' \subseteq Map!Block /\ valued' \subseteq Places
BY DEF MapInv, Map!TypeOK, MapPlaced, Map!Disjoint, Map!HeapIsWritable,
       Map!ValuesInBlocks, Map!Footprint, Map!Bytes, Map!Span

(* What has a value after b was replaced by c. *)
LEMMA ValuesFollow ==
  ASSUME MapInv, NEW b \in memory, NEW c \in Map!Block, NEW kept \in SUBSET Map!Bytes(c),
         Map!Clear(c, memory \ {b}),
         memory' = (memory \ {b}) \cup {c},
         valued' = (valued \ Map!Bytes(b)) \cup kept
  PROVE  Map!ValuesInBlocks' /\ valued' \subseteq Places
<1>1. valued' \subseteq Places
  BY DEF MapInv, Map!TypeOK, Map!Clear, Map!Footprint
<1>2. Map!ValuesInBlocks'
  BY DEF MapInv, Map!ValuesInBlocks, Map!Bytes, Map!Span
<1> QED  BY <1>1, <1>2

-----------------------------------------------------------------------------
\* Each call keeps the invariant: the store of a variable.
LEMMA StoreKeeps == ASSUME MapInv, NEW b, Map!Store(b) PROVE MapInv'
<1> USE DEF Map!Store
<1>1. (MapPlaced /\ Map!Disjoint /\ Map!HeapIsWritable)' /\ memory' \subseteq Map!Block
  BY AddedIsApart
<1>2. Map!ValuesInBlocks' /\ (valued \subseteq Places)' /\ (stopped \in BOOLEAN)'
  BY DEF MapInv, Map!TypeOK, Map!ValuesInBlocks, Map!Bytes, Map!Span
<1> QED  BY <1>1, <1>2 DEF MapInv, Map!TypeOK

\* malloc and calloc.
LEMMA MallocKeeps ==
  ASSUME MapInv, NEW b, NEW zeroed \in BOOLEAN, Map!Malloc(b, zeroed) PROVE MapInv'
<1> USE DEF Map!Malloc
<1>1. (MapPlaced /\ Map!Disjoint /\ Map!HeapIsWritable)' /\ memory' \subseteq Map!Block
  BY AddedIsApart
<1>2. valued' \subseteq valued \cup Map!Bytes(b) /\ (stopped \in BOOLEAN)'
  BY DEF MapInv, Map!TypeOK
<1>3. Map!ValuesInBlocks' /\ (valued \subseteq Places)'
  BY <1>2 DEF MapInv, Map!TypeOK, Map!ValuesInBlocks, Map!Clear, Map!Footprint,
              Map!Bytes, Map!Span
<1> QED  BY <1>1, <1>2, <1>3 DEF MapInv, Map!TypeOK

\* realloc, which needs all of the invariant for the block that moves.
LEMMA ReallocKeeps ==
  ASSUME MapInv, NEW b \in memory, NEW c, Map!Realloc(b, c) PROVE MapInv'
<1> USE DEF Map!Realloc
<1>1. (MapPlaced /\ Map!Disjoint /\ Map!HeapIsWritable)' /\ memory' \subseteq Map!Block
  BY AddedIsApart
<1>2. Map!Kept(b, c) \in SUBSET Map!Bytes(c)
  BY DEF Map!Kept
<1>3. Map!ValuesInBlocks' /\ (valued \subseteq Places)'
  BY <1>2, ValuesFollow
<1>4. (stopped \in BOOLEAN)'
  BY DEF MapInv, Map!TypeOK
<1> QED  BY <1>1, <1>3, <1>4 DEF MapInv, Map!TypeOK

(* The calls on a block that do not make another one of it. *)
LEMMA CallsKeep == ASSUME MapInv, NEW b \in memory, MapCalls(b) PROVE MapInv'
<1>1. CASE Map!Delete(b) \/ Map!Free(b)
  <2>1. (MapPlaced /\ Map!Disjoint /\ Map!HeapIsWritable /\ Map!ValuesInBlocks)'
           /\ memory' \subseteq Map!Block /\ valued' \subseteq Places
    BY <1>1, RemovedIsApart DEF Map!Delete, Map!Free
  <2>2. (stopped \in BOOLEAN)'
    BY <1>1 DEF MapInv, Map!TypeOK, Map!Delete, Map!Free
  <2> QED  BY <2>1, <2>2 DEF MapInv, Map!TypeOK
<1>2. CASE Map!StoreAgain(b)
  <2> DEFINE c == [b EXCEPT !.readonly = FALSE]
  <2>1. c \in Map!Block /\ c.base = b.base /\ c.size = b.size /\ ~c.readonly
    BY DEF MapInv, Map!TypeOK, Map!Block
  <2>2. /\ Map!Clear(c, memory \ {b})
        /\ Map!Footprint(c) = Map!Footprint(b) /\ Map!Bytes(c) = Map!Bytes(b)
    BY <2>1, SamePlace
  <2>3. memory' = (memory \ {b}) \cup {c} /\ valued' = valued \ Map!Bytes(b)
    BY <1>2 DEF Map!StoreAgain
  <2> HIDE DEF c
  <2>4. (MapPlaced /\ Map!Disjoint /\ Map!HeapIsWritable)' /\ memory' \subseteq Map!Block
    BY <2>1, <2>2, <2>3, AddedIsApart
  <2>5. Map!ValuesInBlocks' /\ (valued \subseteq Places)'
    BY <2>2, <2>3 DEF MapInv, Map!TypeOK, Map!ValuesInBlocks, Map!Bytes, Map!Span
  <2>6. (stopped \in BOOLEAN)'
    BY <1>2 DEF MapInv, Map!TypeOK, Map!StoreAgain
  <2> QED  BY <2>4, <2>5, <2>6 DEF MapInv, Map!TypeOK
<1>3. CASE Map!MarkReadonly(b)
  <2> DEFINE c == [b EXCEPT !.readonly = TRUE]
  <2>1. c \in Map!Block /\ c.base = b.base /\ c.size = b.size /\ ~c.heap
    BY <1>3 DEF MapInv, Map!TypeOK, Map!Block, Map!MarkReadonly
  <2>2. /\ Map!Clear(c, memory \ {b})
        /\ Map!Footprint(c) = Map!Footprint(b) /\ Map!Bytes(c) = Map!Bytes(b)
    BY <2>1, SamePlace
  <2>3. memory' = (memory \ {b}) \cup {c} /\ valued' = valued
    BY <1>3 DEF Map!MarkReadonly
  <2> HIDE DEF c
  <2>4. (MapPlaced /\ Map!Disjoint /\ Map!HeapIsWritable)' /\ memory' \subseteq Map!Block
    BY <2>1, <2>2, <2>3, AddedIsApart
  <2>5. (valued \subseteq Places)' /\ (stopped \in BOOLEAN)'
    BY <1>3 DEF MapInv, Map!TypeOK, Map!MarkReadonly
  <2>6. Map!ValuesInBlocks'
    BY <2>2, <2>3 DEF MapInv, Map!ValuesInBlocks, Map!Bytes, Map!Span
  <2> QED  BY <2>4, <2>5, <2>6 DEF MapInv, Map!TypeOK
<1>4. CASE \E p \in Map!Bytes(b), n \in 1 .. b.size : Map!Initialize(b, p, n)
  BY <1>4 DEF MapInv, Map!TypeOK, MapPlaced, Map!Disjoint, Map!ValuesInBlocks,
              Map!HeapIsWritable, Map!Initialize,
              Map!Footprint, Map!Bytes, Map!Span
<1> QED  BY <1>1, <1>2, <1>3, <1>4 DEF MapCalls

\* Every step keeps the invariant.
LEMMA MapAtNext == MapInv /\ [Map!Next]_(Map!vars) => MapInv'
<1> SUFFICES ASSUME MapInv, [Map!Next]_(Map!vars) PROVE MapInv'
  OBVIOUS
<1>1. CASE \E b \in Map!Added : Map!Store(b) \/ Map!Malloc(b, TRUE) \/ Map!Malloc(b, FALSE)
  BY <1>1, StoreKeeps, MallocKeeps
<1>2. CASE \E b \in memory : MapCalls(b)
  BY <1>2, CallsKeep
<1>3. CASE \E b \in memory : \E c \in Map!Added \cup {b} : Map!Realloc(b, c)
  BY <1>3, ReallocKeeps
<1>4. CASE (\E p \in Places : Map!Abort(p)) \/ UNCHANGED Map!vars
  BY <1>4 DEF MapInv, Map!TypeOK, MapPlaced, Map!Disjoint, Map!ValuesInBlocks,
              Map!HeapIsWritable, Map!Abort, Map!vars,
              Map!Footprint, Map!Bytes, Map!Span
<1> QED  BY <1>1, <1>2, <1>3, <1>4 DEF Map!Next, MapCalls

\* The invariant of the abstract memory.
LEMMA MapInvariant == Map!Spec => []MapInv
<1> QED  BY MapAtInit, MapAtNext, PTL DEF Map!Spec

-----------------------------------------------------------------------------
(* What the runtime knows are blocks of the program and addresses in it.   *)
THEOREM BlocksAreTyped == Map!Spec => []Map!TypeOK
BY MapInvariant, PTL DEF MapInv

(* Whatever is allocated, moved and freed, an address is in one block at   *)
(* most, so that the answers of \base_addr and \block_length are unique.   *)
THEOREM BlocksAreDisjoint == Map!Spec => []Map!Disjoint
BY MapInvariant, PTL DEF MapInv

(* No value outlives its block: memory that a new block gets back was      *)
(* never written, for any sequence of free, realloc and function returns.  *)
THEOREM ValuesDieWithBlocks == Map!Spec => []Map!ValuesInBlocks
BY MapInvariant, PTL DEF MapInv

(* A read-only block is never one that the program may free. *)
THEOREM HeapStaysWritable == Map!Spec => []Map!HeapIsWritable
BY MapInvariant, PTL DEF MapInv

-----------------------------------------------------------------------------
(* The memory of the threads.  The invariants are those of ThreadShadowInv: *)
(* they hold as long as no thread starts at a place where pt_remove_if, or *)
(* a canceled thread, has left a partition (EachPlaceOnce).                *)
\* Words are an initial segment of the naturals.
LEMMA WordsBelow ==
  ASSUME Thread!ThreadAssumption
  PROVE  \A p \in Thread!Word, q \in Nat : q \in Nat /\ q <= p => q \in Thread!Word
<1>1. Thread!Unit(0) \in Nat \ {0}
  BY BittreeConstants, Thread!Units DEF Thread!Masks
<1> QED BY <1>1 DEF Thread!Word

\* The area of a thread is in the memory, its thread-local storage in it, and apart from
\* those of other threads, but for the threads that are gone and were at the same place.
LEMMA AreaIsApart ==
  ASSUME Thread!ThreadAssumption, Thread!AreasInv, NEW t \in Thread!Created
  PROVE  /\ t \in Thread!Threads /\ t \in Nat \ {0}
         /\ area[t] \in Nat \ {0} /\ STACK_SIZE \in Nat /\ TLS_OFFSET \in Nat \ {0}
         /\ TLS_SIZE \in Nat \ {0} /\ TLS_OFFSET + TLS_SIZE <= STACK_SIZE
         /\ \A p \in Thread!StackOf(t) : p \in Thread!Word \ {0}
         /\ \A u \in Thread!Created :
              \/ area[u] = area[t]
              \/ area[t] + STACK_SIZE <= area[u]
              \/ area[u] + STACK_SIZE <= area[t]
<1>1. /\ MaxThreads \in Nat /\ Areas \subseteq Nat \ {0}
      /\ STACK_SIZE \in Nat /\ TLS_OFFSET \in Nat \ {0} /\ TLS_SIZE \in Nat \ {0}
      /\ TLS_OFFSET + TLS_SIZE <= STACK_SIZE
      /\ \A a, b \in Areas : a < b => a + STACK_SIZE <= b
      /\ \A a \in Areas : a + STACK_SIZE - 1 \in Thread!Word
  BY DEF Thread!ThreadAssumption
<1>2. /\ t \in Thread!Threads /\ t \in Nat \ {0} /\ area[t] \in Areas
      /\ \A u \in Thread!Created : area[u] \in Areas
  BY <1>1 DEF Thread!AreasInv, Thread!Created, Thread!Threads
<1>3. area[t] \in Nat \ {0} /\ \A u \in Thread!Created : area[u] \in Nat \ {0}
  BY <1>1, <1>2
<1>4. ASSUME NEW p \in Thread!StackOf(t) PROVE p \in Thread!Word \ {0}
  <2>1. p \in Nat \ {0} /\ p <= area[t] + STACK_SIZE - 1
    BY <1>1, <1>3, <1>4 DEF Thread!StackOf
  <2> QED BY <1>1, <1>2, <2>1, WordsBelow
<1>5. ASSUME NEW u \in Thread!Created, area[u] # area[t]
      PROVE  area[t] + STACK_SIZE <= area[u] \/ area[u] + STACK_SIZE <= area[t]
  <2>1. area[u] < area[t] \/ area[t] < area[u]
    BY <1>3, <1>5
  <2> QED BY <1>1, <1>2, <2>1
<1> QED BY <1>1, <1>2, <1>3, <1>4, <1>5

\* Leaves of threads are told apart by their addresses.
LEMMA LeavesDiffer ==
  ASSUME Thread!ThreadAssumption, NEW t \in Thread!Threads, NEW u \in Thread!Threads
  PROVE  /\ Thread!StackLeaf(t) \in Nat \ {0} /\ Thread!TlsLeaf(t) \in Nat \ {0}
         /\ Thread!StackLeaf(t) # Thread!TlsLeaf(u)
         /\ Thread!StackLeaf(t) = Thread!StackLeaf(u) => t = u
         /\ Thread!TlsLeaf(t) = Thread!TlsLeaf(u) => t = u
<1>1. t \in Nat \ {0} /\ u \in Nat \ {0}
  BY DEF Thread!ThreadAssumption, Thread!Threads
<1> QED BY <1>1 DEF Thread!StackLeaf, Thread!TlsLeaf

\* Where a partition is: in the area of its thread.
LEMMA PartitionPlace ==
  ASSUME Thread!ThreadAssumption, Thread!AreasInv, Thread!PartitionsInv, NEW l \in DOMAIN partition
  PROVE  \E u \in Thread!Created :
           /\ partition[l].id = area[u] /\ l \in Nat \ {0}
           /\ partition[l].start \in Thread!StackOf(u)
           /\ \/ l = Thread!StackLeaf(u) /\ partition[l].start = area[u]
              \/ l = Thread!TlsLeaf(u) /\ partition[l].start = area[u] + TLS_OFFSET
<1>1. PICK u \in Thread!Created :
        \/ l = Thread!StackLeaf(u) /\ partition[l] = Thread!StackPartition(u)
        \/ l = Thread!TlsLeaf(u) /\ partition[l] = Thread!TlsPartition(u)
  BY DEF Thread!PartitionsInv
<1>2. /\ u \in Thread!Threads /\ area[u] \in Nat \ {0} /\ STACK_SIZE \in Nat
      /\ TLS_OFFSET \in Nat /\ TLS_SIZE \in Nat \ {0} /\ TLS_OFFSET + TLS_SIZE <= STACK_SIZE
  BY AreaIsApart
<1>3. l \in Nat \ {0}
  BY <1>1, <1>2, LeavesDiffer
<1>4. area[u] \in Thread!StackOf(u) /\ area[u] + TLS_OFFSET \in Thread!StackOf(u)
  BY <1>2 DEF Thread!StackOf
<1>5. CASE l = Thread!StackLeaf(u) /\ partition[l] = Thread!StackPartition(u)
  <2>1. partition[l].id = area[u] /\ partition[l].start = area[u]
    BY <1>5 DEF Thread!StackPartition, Thread!Partition
  <2> QED BY <1>3, <1>4, <1>5, <2>1
<1>6. CASE l = Thread!TlsLeaf(u) /\ partition[l] = Thread!TlsPartition(u)
  <2>1. partition[l].id = area[u] /\ partition[l].start = area[u] + TLS_OFFSET
    BY <1>6 DEF Thread!TlsPartition, Thread!Partition
  <2> QED BY <1>3, <1>4, <1>6, <2>1
<1> QED BY <1>1, <1>5, <1>6

\* What starts in the area of a thread starts where its stack does, or its thread-local
\* storage.
LEMMA StartsInArea ==
  ASSUME Thread!ThreadAssumption, Thread!AreasInv, Thread!PartitionsInv,
         NEW t \in Thread!Created, NEW l \in DOMAIN partition, partition[l].start \in Thread!StackOf(t)
  PROVE  partition[l].start = area[t] \/ partition[l].start = area[t] + TLS_OFFSET
<1>1. PICK u \in Thread!Created :
        /\ partition[l].start \in Thread!StackOf(u)
        /\ partition[l].start = area[u] \/ partition[l].start = area[u] + TLS_OFFSET
  BY PartitionPlace
<1>2. /\ area[u] \in Nat \ {0} /\ area[t] \in Nat \ {0} /\ STACK_SIZE \in Nat
      /\ area[u] = area[t] \/ area[t] + STACK_SIZE <= area[u] \/ area[u] + STACK_SIZE <= area[t]
  BY AreaIsApart
<1>3. area[u] = area[t]
  BY <1>1, <1>2 DEF Thread!StackOf
<1> QED BY <1>1, <1>3

\* The entries of the trie, and the partitions.
LEMMA EntriesArePartitions ==
  ASSUME Thread!TrieKeepsInv
  PROVE  /\ \A e \in Thread!Entries(thread_partitions) :
              e[2] \in DOMAIN partition /\ e = <<partition[e[2]].start, e[2]>> /\ e[1] = partition[e[2]].start
         /\ \A l \in DOMAIN partition : <<partition[l].start, l>> \in Thread!Entries(thread_partitions)
  BY DEF Thread!TrieKeepsInv

\* The search for an address considers the partition with no other between them.
LEMMA FoundIn ==
  ASSUME Thread!ThreadAssumption, Thread!TrieKeepsInv,
         NEW p \in Thread!Word \ {0}, NEW l \in DOMAIN partition, partition[l].start <= p,
         \A k \in DOMAIN partition : partition[k].start <= p => partition[k].start <= partition[l].start
  PROVE  Thread!find_thread_partition(p) = IF Thread!tp_contains_ptr(l, p) THEN l ELSE Thread!NULL
<1>. DEFINE E == Thread!Entries(thread_partitions)
            holders == {k \in DOMAIN partition : Thread!tp_contains_ptr(k, p)}
            e == <<partition[l].start, l>>
<1>1. e \in E /\ e[1] = partition[l].start /\ e[2] = l
  BY EntriesArePartitions
<1>2. e[1] <= p /\ (l \in holders <=> Thread!tp_contains_ptr(l, p))
  BY <1>1
<1>3. \A f \in E : f[1] <= p => f[1] <= e[1]
  BY <1>1, EntriesArePartitions
<1>4. Thread!find_thread_partition(p) = Thread!pt_find(thread_partitions, holders, p)
  BY DEF Thread!find_thread_partition
<1>5. Thread!TrieInv(thread_partitions) /\ p \in Thread!Word \ {Thread!NULL}
  BY DEF Thread!TrieKeepsInv, Thread!NULL
<1>. HIDE DEF E, holders, e
<1>6. Thread!pt_find(thread_partitions, holders, p) = IF e[2] \in holders THEN e[2] ELSE Thread!NULL
  <2>1. \A g \in Thread!Entries(thread_partitions) :
              g[1] <= p /\ (\A f \in Thread!Entries(thread_partitions) : f[1] <= p => f[1] <= g[1])
              => Thread!pt_find(thread_partitions, holders, p) = IF g[2] \in holders THEN g[2] ELSE Thread!NULL
    BY <1>5, BittreeConstants, Thread!FindIsExact
  <2> QED BY <1>1, <1>2, <1>3, <2>1 DEF E
<1> QED BY <1>1, <1>2, <1>4, <1>6

\* The partitions of a thread that runs, and no other at their places.
LEMMA OwnPartitions ==
  ASSUME Thread!ThreadAssumption, Thread!ThreadInv, Thread!EachPlaceOnce, NEW t \in Thread!Running
  PROVE  /\ t \in Thread!Created
         /\ Thread!StackLeaf(t) \in DOMAIN partition /\ Thread!TlsLeaf(t) \in DOMAIN partition
         /\ partition[Thread!StackLeaf(t)].start = area[t]
         /\ partition[Thread!StackLeaf(t)].end = area[t] + STACK_SIZE - 1
         /\ partition[Thread!TlsLeaf(t)].start = area[t] + TLS_OFFSET
         /\ partition[Thread!TlsLeaf(t)].end = area[t] + TLS_OFFSET + TLS_SIZE - 1
         /\ Thread!StartsAt(area[t]) = {Thread!StackLeaf(t)}
         /\ Thread!StartsAt(area[t] + TLS_OFFSET) = {Thread!TlsLeaf(t)}
<1>1. Thread!AreasInv /\ Thread!PartitionsInv
  BY DEF Thread!ThreadInv
<1>2. /\ t \in Thread!Threads /\ phase[t] = "running" /\ t \in Thread!Created
      /\ Thread!StackLeaf(t) \in DOMAIN partition /\ Thread!TlsLeaf(t) \in DOMAIN partition
  BY <1>1 DEF Thread!Running, Thread!Created, Thread!PartitionsInv
<1>3. \A u \in Thread!Created : u \in Thread!Threads
  BY DEF Thread!Created
<1>4. partition[Thread!StackLeaf(t)] = Thread!StackPartition(t)
  BY <1>1, <1>2, <1>3, LeavesDiffer DEF Thread!PartitionsInv
<1>5. partition[Thread!TlsLeaf(t)] = Thread!TlsPartition(t)
  BY <1>1, <1>2, <1>3, LeavesDiffer DEF Thread!PartitionsInv
<1>6. /\ partition[Thread!StackLeaf(t)].start = area[t]
      /\ partition[Thread!StackLeaf(t)].end = area[t] + STACK_SIZE - 1
      /\ partition[Thread!TlsLeaf(t)].start = area[t] + TLS_OFFSET
      /\ partition[Thread!TlsLeaf(t)].end = area[t] + TLS_OFFSET + TLS_SIZE - 1
  BY <1>4, <1>5 DEF Thread!StackPartition, Thread!TlsPartition, Thread!Partition
<1>7. /\ Thread!StartsAt(area[t]) = {Thread!StackLeaf(t)}
      /\ Thread!StartsAt(area[t] + TLS_OFFSET) = {Thread!TlsLeaf(t)}
  BY <1>2, <1>6 DEF Thread!StartsAt, Thread!EachPlaceOnce
<1> QED BY <1>2, <1>6, <1>7

\* What the search gives for the addresses of a thread that runs.
LEMMA OwnIsFound ==
  ASSUME Thread!ThreadAssumption, Thread!ThreadInv, Thread!EachPlaceOnce,
         NEW t \in Thread!Running, NEW p \in Thread!StackOf(t)
  PROVE  /\ p < area[t] + TLS_OFFSET => Thread!find_thread_partition(p) = Thread!StackLeaf(t)
         /\ p \in Thread!TlsOf(t) => Thread!find_thread_partition(p) = Thread!TlsLeaf(t)
         /\ ~(p < area[t] + TLS_OFFSET + TLS_SIZE) => Thread!find_thread_partition(p) = Thread!NULL
<1>. DEFINE stack == Thread!StackLeaf(t)
            tls == Thread!TlsLeaf(t)
<1>1. Thread!AreasInv /\ Thread!PartitionsInv /\ Thread!TrieKeepsInv
  BY DEF Thread!ThreadInv
<1>2. /\ t \in Thread!Created /\ stack \in DOMAIN partition /\ tls \in DOMAIN partition
      /\ partition[stack].start = area[t] /\ partition[stack].end = area[t] + STACK_SIZE - 1
      /\ partition[tls].start = area[t] + TLS_OFFSET
      /\ partition[tls].end = area[t] + TLS_OFFSET + TLS_SIZE - 1
  BY OwnPartitions
<1>3. /\ area[t] \in Nat \ {0} /\ STACK_SIZE \in Nat /\ TLS_OFFSET \in Nat \ {0}
      /\ TLS_SIZE \in Nat \ {0} /\ TLS_OFFSET + TLS_SIZE <= STACK_SIZE
      /\ p \in Thread!Word \ {0}
  BY <1>1, <1>2, AreaIsApart
<1>4. p \in Nat /\ area[t] <= p /\ p <= area[t] + STACK_SIZE - 1
  BY <1>3 DEF Thread!StackOf
<1>5. ASSUME NEW k \in DOMAIN partition, partition[k].start <= p
      PROVE  /\ partition[k].start <= area[t] + TLS_OFFSET
             /\ p < area[t] + TLS_OFFSET => partition[k].start <= area[t]
  <2>1. PICK u \in Thread!Created : partition[k].start \in Thread!StackOf(u)
    BY <1>1, PartitionPlace
  <2>2. partition[k].start \in Thread!Word
    BY <1>1, <2>1, AreaIsApart
  <2>3. partition[k].start \in Nat
    BY <2>2 DEF Thread!Word
  <2>4. CASE partition[k].start \in Thread!StackOf(t)
    <3>1. partition[k].start = area[t] \/ partition[k].start = area[t] + TLS_OFFSET
      BY <1>1, <1>2, <2>4, StartsInArea
    <3> QED BY <1>3, <1>4, <1>5, <3>1
  <2>5. CASE partition[k].start \notin Thread!StackOf(t)
    <3>1. partition[k].start < area[t]
      BY <1>3, <1>4, <1>5, <2>3, <2>5 DEF Thread!StackOf
    <3> QED BY <1>3, <2>3, <3>1
  <2> QED BY <2>4, <2>5
<1>. HIDE DEF stack, tls
<1>6. ASSUME p < area[t] + TLS_OFFSET PROVE Thread!find_thread_partition(p) = stack
  <2>1. Thread!tp_contains_ptr(stack, p)
    BY <1>2, <1>4 DEF Thread!tp_contains_ptr
  <2> QED BY <1>1, <1>2, <1>3, <1>4, <1>5, <1>6, <2>1, FoundIn
<1>7. ASSUME ~(p < area[t] + TLS_OFFSET)
      PROVE  Thread!find_thread_partition(p) = IF Thread!tp_contains_ptr(tls, p) THEN tls ELSE Thread!NULL
  <2>1. partition[tls].start <= p
    BY <1>2, <1>3, <1>4, <1>7
  <2> QED BY <1>1, <1>2, <1>3, <1>5, <2>1, FoundIn
<1>8. ASSUME p \in Thread!TlsOf(t) PROVE Thread!find_thread_partition(p) = tls
  <2>1. area[t] + TLS_OFFSET <= p /\ p <= area[t] + TLS_OFFSET + TLS_SIZE - 1
    BY <1>3, <1>8 DEF Thread!TlsOf
  <2>2. Thread!tp_contains_ptr(tls, p) /\ ~(p < area[t] + TLS_OFFSET)
    BY <1>2, <1>3, <1>4, <2>1 DEF Thread!tp_contains_ptr
  <2> QED BY <1>7, <2>2
<1>9. ASSUME ~(p < area[t] + TLS_OFFSET + TLS_SIZE) PROVE Thread!find_thread_partition(p) = Thread!NULL
  <2>1. ~Thread!tp_contains_ptr(tls, p) /\ ~(p < area[t] + TLS_OFFSET)
    BY <1>2, <1>3, <1>4, <1>9 DEF Thread!tp_contains_ptr
  <2> QED BY <1>7, <2>1
<1> QED BY <1>6, <1>8, <1>9 DEF stack, tls

-----------------------------------------------------------------------------
\* Nothing of a thread yet.
LEMMA ThreadInvAtInit ==
  ASSUME Thread!ThreadAssumption, Thread!Init
  PROVE  Thread!ThreadInv /\ Thread!AccessInv
<1>1. /\ thread_partitions = Thread!EmptyTrie /\ partition = <<>> /\ DOMAIN partition = {}
      /\ phase = [t \in Thread!Threads |-> "none"] /\ area = [t \in Thread!Threads |-> Thread!NULL]
      /\ access = [t \in Thread!Threads \cup {Thread!Main} |-> Thread!Idle]
  BY DEF Thread!Init
<1>2. Thread!Created = {}
  BY <1>1 DEF Thread!Created
<1>3. Thread!AreasInv
  BY <1>1, <1>2 DEF Thread!AreasInv, Thread!Phases
<1>4. Thread!PartitionsInv
  BY <1>1 DEF Thread!PartitionsInv
<1>5. Thread!TrieKeepsInv
  <2>1. Thread!TrieInv(Thread!EmptyTrie) /\ Thread!Entries(Thread!EmptyTrie) = {} /\ Thread!Counted(Thread!EmptyTrie)
    BY BittreeConstants, Thread!EmptyTrieIsTrie
  <2>2. Thread!LeafEnds(Thread!EmptyTrie)
    BY BittreeConstants, Thread!EmptyTrieEnds
  <2> QED BY <1>1, <2>1, <2>2 DEF Thread!TrieKeepsInv
<1>6. Thread!AccessInv
  BY <1>1 DEF Thread!AccessInv
<1> QED BY <1>3, <1>4, <1>5, <1>6 DEF Thread!ThreadInv

\* A thread is created at an area that no thread has, but for those that are gone.
LEMMA CreateThread ==
  ASSUME Thread!ThreadAssumption, Thread!ThreadInv,
         NEW t \in Thread!Threads, NEW a \in Areas, Thread!eacsl_pthread_create(t, a)
  PROVE  Thread!ThreadInv'
<1>1. /\ phase[t] = "none" /\ Thread!Free(a)
      /\ phase' = [phase EXCEPT ![t] = "created"] /\ area' = [area EXCEPT ![t] = a]
      /\ UNCHANGED <<thread_partitions, partition, access, fault>>
  BY DEF Thread!eacsl_pthread_create
<1>2. Thread!AreasInv /\ Thread!PartitionsInv /\ Thread!TrieKeepsInv
  BY DEF Thread!ThreadInv
<1>3. \A u \in Thread!Created \ Thread!Gone : area[u] # a
  BY <1>1 DEF Thread!Free
<1>4. /\ phase \in [Thread!Threads -> Thread!Phases] /\ area \in [Thread!Threads -> Areas \cup {Thread!NULL}]
      /\ \A u \in Thread!Created : area[u] \in Areas
      /\ \A u, v \in Thread!Created \ Thread!Gone : area[u] = area[v] => u = v
  BY <1>2 DEF Thread!AreasInv
<1>5. /\ \A u \in Thread!Threads : u # t => phase'[u] = phase[u] /\ area'[u] = area[u]
      /\ phase'[t] = "created" /\ area'[t] = a
  BY <1>1, <1>4
<1>6. Thread!Created' = Thread!Created \cup {t} /\ t \notin Thread!Created
  BY <1>1, <1>5 DEF Thread!Created
<1>7. Thread!AreasInv'
  <2>1. /\ phase' \in [Thread!Threads -> Thread!Phases]
        /\ area' \in [Thread!Threads -> Areas \cup {Thread!NULL}]
    BY <1>1, <1>4 DEF Thread!Phases
  <2>2. \A u \in Thread!Created' : area'[u] \in Areas
    BY <1>4, <1>5, <1>6 DEF Thread!Created
  <2>3. \A u \in Thread!Created' \ Thread!Gone' : u = t \/ u \in Thread!Created \ Thread!Gone
    BY <1>5, <1>6 DEF Thread!Created, Thread!Gone
  <2>4. \A u, v \in Thread!Created' \ Thread!Gone' : area'[u] = area'[v] => u = v
    BY <1>3, <1>4, <1>5, <2>3 DEF Thread!Created
  <2> QED BY <2>1, <2>2, <2>4 DEF Thread!AreasInv
<1>8. Thread!PartitionsInv'
  <2>1. ASSUME NEW l \in DOMAIN partition
        PROVE  \E u \in Thread!Created' :
         \/ l = Thread!StackLeaf(u) /\ partition'[l] = (Thread!StackPartition(u))' /\ phase'[u] # "created"
         \/ l = Thread!TlsLeaf(u) /\ partition'[l] = (Thread!TlsPartition(u))' /\ phase'[u] \in {"running", "ended"}
    <3>1. PICK u \in Thread!Created :
             \/ l = Thread!StackLeaf(u) /\ partition[l] = Thread!StackPartition(u) /\ phase[u] # "created"
             \/ l = Thread!TlsLeaf(u) /\ partition[l] = Thread!TlsPartition(u) /\ phase[u] \in {"running", "ended"}
      BY <1>2, <2>1 DEF Thread!PartitionsInv
    <3>2. u # t /\ u \in Thread!Threads
      BY <1>6 DEF Thread!Created
    <3>3. (Thread!StackPartition(u))' = Thread!StackPartition(u) /\ (Thread!TlsPartition(u))' = Thread!TlsPartition(u)
      BY <1>5, <3>2 DEF Thread!StackPartition, Thread!TlsPartition
    <3> QED BY <1>1, <1>5, <1>6, <3>1, <3>2, <3>3
  <2>2. \A u \in Thread!Threads :
          /\ phase'[u] \in {"on_stack", "running"} => Thread!StackLeaf(u) \in DOMAIN partition
          /\ phase'[u] = "running" => Thread!TlsLeaf(u) \in DOMAIN partition
    BY <1>2, <1>5 DEF Thread!PartitionsInv
  <2> QED BY <1>1, <2>1, <2>2 DEF Thread!PartitionsInv
<1>9. Thread!TrieKeepsInv'
  BY <1>1, <1>2 DEF Thread!TrieKeepsInv
<1> QED BY <1>7, <1>8, <1>9 DEF Thread!ThreadInv

\* A thread goes on: it stays where it is.
LEMMA ThreadGoesOn ==
  ASSUME Thread!ThreadAssumption, Thread!AreasInv, NEW t \in Thread!Created \ Thread!Gone,
         NEW x \in Thread!Phases \ {"none"}, phase' = [phase EXCEPT ![t] = x], area' = area
  PROVE  /\ Thread!AreasInv' /\ Thread!Created' = Thread!Created
         /\ \A u \in Thread!Threads : phase'[u] = IF u = t THEN x ELSE phase[u]
         /\ \A u \in Thread!Threads : (Thread!StackPartition(u))' = Thread!StackPartition(u)
         /\ \A u \in Thread!Threads : (Thread!TlsPartition(u))' = Thread!TlsPartition(u)
<1>1. /\ t \in Thread!Threads /\ phase[t] # "none" /\ phase \in [Thread!Threads -> Thread!Phases]
  BY DEF Thread!Created, Thread!AreasInv
<1>2. \A u \in Thread!Threads : phase'[u] = IF u = t THEN x ELSE phase[u]
  BY <1>1
<1>3. Thread!Created' = Thread!Created
  BY <1>1, <1>2 DEF Thread!Created
<1>4. phase' \in [Thread!Threads -> Thread!Phases]
  BY <1>1
<1>5. Thread!AreasInv'
  <2>1. Thread!Created' \ Thread!Gone' \subseteq Thread!Created \ Thread!Gone
    BY <1>2, <1>3 DEF Thread!Created, Thread!Gone
  <2> QED BY <1>3, <1>4, <2>1 DEF Thread!AreasInv
<1> QED BY <1>2, <1>3, <1>5 DEF Thread!StackPartition, Thread!TlsPartition

\* A partition more, where none starts.
LEMMA TrieGetsPartition ==
  ASSUME Thread!ThreadAssumption, Thread!TrieKeepsInv,
         NEW l \in Nat \ {0}, l \notin DOMAIN partition, NEW new, new.start \in Thread!Word,
         Thread!EachPlaceOnce',
         thread_partitions' = Thread!pt_insert(thread_partitions, l, new.start),
         partition' = Thread!With(partition, l, new)
  PROVE  /\ Thread!TrieKeepsInv'
         /\ DOMAIN partition' = DOMAIN partition \cup {l} /\ partition'[l] = new
         /\ \A k \in DOMAIN partition : partition'[k] = partition[k]
<1>. DEFINE t == thread_partitions
            u == Thread!pt_insert(t, l, new.start)
<1>1. Thread!TrieInv(t) /\ Thread!Counted(t) /\ Thread!LeafEnds(t)
  BY DEF Thread!TrieKeepsInv
<1>2. /\ DOMAIN partition' = DOMAIN partition \cup {l} /\ partition'[l] = new
      /\ \A k \in DOMAIN partition : partition'[k] = partition[k]
  BY DEF Thread!With
<1>3. \A e \in Thread!Entries(t) : e[1] # new.start
  <2>1. \A k \in DOMAIN partition : partition[k].start # new.start
    BY <1>2 DEF Thread!EachPlaceOnce
  <2> QED BY <2>1, EntriesArePartitions
<1>4. Thread!NoLeafAt(t, new.start)
  BY <1>3, BittreeConstants, Thread!NoEntryNoLeaf
<1>5. Thread!TrieInv(u) /\ Thread!Counted(u) /\ Thread!Entries(u) = Thread!Entries(t) \cup {<<new.start, l>>}
  <2>. HIDE DEF t
  <2> QED BY <1>1, <1>4, BittreeConstants, Thread!InsertKeepsTrie
<1>6. Thread!LeafEnds(u)
  BY <1>1, <1>4, BittreeConstants, Thread!InsertKeepsEnds
<1>7. Thread!Entries(t) = {<<partition[k].start, k>> : k \in DOMAIN partition}
  BY DEF Thread!TrieKeepsInv
<1>8. Thread!Entries(thread_partitions') = {<<partition'[k].start, k>> : k \in DOMAIN partition'}
  <2>. HIDE DEF u, t
  <2>1. Thread!Entries(thread_partitions') = {<<partition[k].start, k>> : k \in DOMAIN partition} \cup {<<new.start, l>>}
    BY <1>5, <1>7 DEF t, u
  <2> QED BY <1>2, <2>1
<1>9. Thread!TrieInv(thread_partitions') /\ Thread!Counted(thread_partitions') /\ Thread!LeafEnds(thread_partitions')
  BY <1>5, <1>6
<1>10. Thread!TrieKeepsInv'
  BY <1>8, <1>9 DEF Thread!TrieKeepsInv
<1> QED BY <1>2, <1>10

\* A thread adds the partition of its stack.
LEMMA InsertStack ==
  ASSUME Thread!ThreadAssumption, Thread!ThreadInv, Thread!EachPlaceOnce',
         NEW t \in Thread!Threads, Thread!insert_stack(t)
  PROVE  Thread!ThreadInv'
<1>. DEFINE l == Thread!StackLeaf(t)
            new == Thread!StackPartition(t)
<1>1. Thread!AreasInv /\ Thread!PartitionsInv /\ Thread!TrieKeepsInv
  BY DEF Thread!ThreadInv
<1>2. /\ phase[t] = "created"
      /\ thread_partitions' = Thread!pt_insert(thread_partitions, l, area[t])
      /\ partition' = Thread!With(partition, l, new)
      /\ phase' = [phase EXCEPT ![t] = "on_stack"] /\ area' = area
  BY DEF Thread!insert_stack, Thread!StackPartition
<1>3. t \in Thread!Created \ Thread!Gone
  BY <1>2 DEF Thread!Created, Thread!Gone
<1>4. /\ area[t] \in Nat \ {0} /\ STACK_SIZE \in Nat \ {0}
      /\ \A p \in Thread!StackOf(t) : p \in Thread!Word \ {0}
  BY <1>1, <1>3, AreaIsApart
<1>5. area[t] \in Thread!StackOf(t) /\ new.start = area[t]
  BY <1>4 DEF Thread!StackOf, Thread!StackPartition, Thread!Partition
<1>6. l \notin DOMAIN partition /\ l \in Nat \ {0}
  <2>1. \A u \in Thread!Created : u \in Thread!Threads
    BY DEF Thread!Created
  <2>2. l \notin DOMAIN partition
    BY <1>1, <1>2, <2>1, LeavesDiffer DEF Thread!PartitionsInv
  <2> QED BY <2>2, LeavesDiffer
<1>. HIDE DEF l, new
<1>7. /\ Thread!TrieKeepsInv'
      /\ DOMAIN partition' = DOMAIN partition \cup {l} /\ partition'[l] = new
      /\ \A k \in DOMAIN partition : partition'[k] = partition[k]
  BY <1>1, <1>2, <1>4, <1>5, <1>6, TrieGetsPartition
<1>8. /\ Thread!AreasInv' /\ Thread!Created' = Thread!Created
      /\ \A u \in Thread!Threads : phase'[u] = IF u = t THEN "on_stack" ELSE phase[u]
      /\ \A u \in Thread!Threads : (Thread!StackPartition(u))' = Thread!StackPartition(u)
      /\ \A u \in Thread!Threads : (Thread!TlsPartition(u))' = Thread!TlsPartition(u)
  BY <1>1, <1>2, <1>3, ThreadGoesOn DEF Thread!Phases
<1>9. Thread!PartitionsInv'
  <2>1. ASSUME NEW k \in DOMAIN partition'
        PROVE  \E u \in Thread!Created' :
         \/ k = Thread!StackLeaf(u) /\ partition'[k] = (Thread!StackPartition(u))' /\ phase'[u] # "created"
         \/ k = Thread!TlsLeaf(u) /\ partition'[k] = (Thread!TlsPartition(u))' /\ phase'[u] \in {"running", "ended"}
    <3>1. CASE k = l
      BY <1>3, <1>7, <1>8, <3>1 DEF l, new
    <3>2. CASE k \in DOMAIN partition
      <4>1. PICK u \in Thread!Created :
             \/ k = Thread!StackLeaf(u) /\ partition[k] = Thread!StackPartition(u) /\ phase[u] # "created"
             \/ k = Thread!TlsLeaf(u) /\ partition[k] = Thread!TlsPartition(u) /\ phase[u] \in {"running", "ended"}
        BY <1>1, <3>2 DEF Thread!PartitionsInv
      <4>2. u \in Thread!Threads /\ u # t
        BY <1>2, <1>6, <3>2, <4>1 DEF Thread!Created, l
      <4> QED BY <1>7, <1>8, <3>2, <4>1, <4>2
    <3> QED BY <1>7, <3>1, <3>2
  <2>2. \A u \in Thread!Threads :
          /\ phase'[u] \in {"on_stack", "running"} => Thread!StackLeaf(u) \in DOMAIN partition'
          /\ phase'[u] = "running" => Thread!TlsLeaf(u) \in DOMAIN partition'
    BY <1>1, <1>7, <1>8 DEF Thread!PartitionsInv, l
  <2> QED BY <2>1, <2>2 DEF Thread!PartitionsInv
<1> QED BY <1>7, <1>8, <1>9 DEF Thread!ThreadInv

\* A thread adds the partition of its thread-local storage, and runs.
LEMMA InsertTls ==
  ASSUME Thread!ThreadAssumption, Thread!ThreadInv, Thread!EachPlaceOnce',
         NEW t \in Thread!Threads, Thread!insert_tls(t)
  PROVE  Thread!ThreadInv'
<1>. DEFINE l == Thread!TlsLeaf(t)
            new == Thread!TlsPartition(t)
<1>1. Thread!AreasInv /\ Thread!PartitionsInv /\ Thread!TrieKeepsInv
  BY DEF Thread!ThreadInv
<1>2. /\ phase[t] = "on_stack"
      /\ thread_partitions' = Thread!pt_insert(thread_partitions, l, area[t] + TLS_OFFSET)
      /\ partition' = Thread!With(partition, l, new)
      /\ phase' = [phase EXCEPT ![t] = "running"] /\ area' = area
  BY DEF Thread!insert_tls, Thread!TlsPartition
<1>3. t \in Thread!Created \ Thread!Gone
  BY <1>2 DEF Thread!Created, Thread!Gone
<1>4. /\ area[t] \in Nat \ {0} /\ TLS_OFFSET \in Nat /\ TLS_SIZE \in Nat \ {0}
      /\ STACK_SIZE \in Nat /\ TLS_OFFSET + TLS_SIZE <= STACK_SIZE
      /\ \A p \in Thread!StackOf(t) : p \in Thread!Word \ {0}
  BY <1>1, <1>3, AreaIsApart
<1>5. area[t] + TLS_OFFSET \in Thread!StackOf(t) /\ new.start = area[t] + TLS_OFFSET
  BY <1>4 DEF Thread!StackOf, Thread!TlsPartition, Thread!Partition
<1>6. l \notin DOMAIN partition /\ l \in Nat \ {0}
  <2>1. \A u \in Thread!Created : u \in Thread!Threads
    BY DEF Thread!Created
  <2>2. l \notin DOMAIN partition
    BY <1>1, <1>2, <2>1, LeavesDiffer DEF Thread!PartitionsInv
  <2> QED BY <2>2, LeavesDiffer
<1>. HIDE DEF l, new
<1>7. /\ Thread!TrieKeepsInv'
      /\ DOMAIN partition' = DOMAIN partition \cup {l} /\ partition'[l] = new
      /\ \A k \in DOMAIN partition : partition'[k] = partition[k]
  BY <1>1, <1>2, <1>4, <1>5, <1>6, TrieGetsPartition
<1>8. /\ Thread!AreasInv' /\ Thread!Created' = Thread!Created
      /\ \A u \in Thread!Threads : phase'[u] = IF u = t THEN "running" ELSE phase[u]
      /\ \A u \in Thread!Threads : (Thread!StackPartition(u))' = Thread!StackPartition(u)
      /\ \A u \in Thread!Threads : (Thread!TlsPartition(u))' = Thread!TlsPartition(u)
  BY <1>1, <1>2, <1>3, ThreadGoesOn DEF Thread!Phases
<1>9. Thread!PartitionsInv'
  <2>1. ASSUME NEW k \in DOMAIN partition'
        PROVE  \E u \in Thread!Created' :
         \/ k = Thread!StackLeaf(u) /\ partition'[k] = (Thread!StackPartition(u))' /\ phase'[u] # "created"
         \/ k = Thread!TlsLeaf(u) /\ partition'[k] = (Thread!TlsPartition(u))' /\ phase'[u] \in {"running", "ended"}
    <3>1. CASE k = l
      BY <1>3, <1>7, <1>8, <3>1 DEF l, new, Thread!Created
    <3>2. CASE k \in DOMAIN partition
      <4>1. PICK u \in Thread!Created :
             \/ k = Thread!StackLeaf(u) /\ partition[k] = Thread!StackPartition(u) /\ phase[u] # "created"
             \/ k = Thread!TlsLeaf(u) /\ partition[k] = Thread!TlsPartition(u) /\ phase[u] \in {"running", "ended"}
        BY <1>1, <3>2 DEF Thread!PartitionsInv
      <4>2. u \in Thread!Threads
        BY DEF Thread!Created
      <4> QED BY <1>7, <1>8, <3>2, <4>1, <4>2
    <3> QED BY <1>7, <3>1, <3>2
  <2>2. \A u \in Thread!Threads :
          /\ phase'[u] \in {"on_stack", "running"} => Thread!StackLeaf(u) \in DOMAIN partition'
          /\ phase'[u] = "running" => Thread!TlsLeaf(u) \in DOMAIN partition'
    BY <1>1, <1>2, <1>7, <1>8 DEF Thread!PartitionsInv, l
  <2> QED BY <2>1, <2>2 DEF Thread!PartitionsInv
<1> QED BY <1>7, <1>8, <1>9 DEF Thread!ThreadInv

\* A thread is canceled before it runs: what it has inserted stays.
LEMMA CanceledThread ==
  ASSUME Thread!ThreadAssumption, Thread!ThreadInv, NEW t \in Thread!Threads, Thread!canceled(t)
  PROVE  Thread!ThreadInv'
<1>1. Thread!AreasInv /\ Thread!PartitionsInv /\ Thread!TrieKeepsInv
  BY DEF Thread!ThreadInv
<1>2. /\ phase[t] \in {"created", "on_stack"} /\ phase' = [phase EXCEPT ![t] = "canceled"]
      /\ area' = area /\ partition' = partition /\ thread_partitions' = thread_partitions
  BY DEF Thread!canceled
<1>3. t \in Thread!Created \ Thread!Gone
  BY <1>2 DEF Thread!Created, Thread!Gone
<1>4. /\ Thread!AreasInv' /\ Thread!Created' = Thread!Created
      /\ \A u \in Thread!Threads : phase'[u] = IF u = t THEN "canceled" ELSE phase[u]
      /\ \A u \in Thread!Threads : (Thread!StackPartition(u))' = Thread!StackPartition(u)
      /\ \A u \in Thread!Threads : (Thread!TlsPartition(u))' = Thread!TlsPartition(u)
  BY <1>1, <1>2, <1>3, ThreadGoesOn DEF Thread!Phases
<1>5. Thread!PartitionsInv'
  <2>1. ASSUME NEW l \in DOMAIN partition
        PROVE  \E u \in Thread!Created' :
         \/ l = Thread!StackLeaf(u) /\ partition[l] = (Thread!StackPartition(u))' /\ phase'[u] # "created"
         \/ l = Thread!TlsLeaf(u) /\ partition[l] = (Thread!TlsPartition(u))' /\ phase'[u] \in {"running", "ended"}
    <3>1. PICK u \in Thread!Created :
             \/ l = Thread!StackLeaf(u) /\ partition[l] = Thread!StackPartition(u) /\ phase[u] # "created"
             \/ l = Thread!TlsLeaf(u) /\ partition[l] = Thread!TlsPartition(u) /\ phase[u] \in {"running", "ended"}
      BY <1>1, <2>1 DEF Thread!PartitionsInv
    <3>2. u \in Thread!Threads
      BY DEF Thread!Created
    <3> QED BY <1>2, <1>4, <3>1, <3>2
  <2>2. \A u \in Thread!Threads :
          /\ phase'[u] \in {"on_stack", "running"} => Thread!StackLeaf(u) \in DOMAIN partition
          /\ phase'[u] = "running" => Thread!TlsLeaf(u) \in DOMAIN partition
    BY <1>1, <1>4 DEF Thread!PartitionsInv
  <2> QED BY <1>2, <2>1, <2>2 DEF Thread!PartitionsInv
<1>6. Thread!TrieKeepsInv'
  BY <1>1, <1>2 DEF Thread!TrieKeepsInv
<1> QED BY <1>4, <1>5, <1>6 DEF Thread!ThreadInv

\* A thread ends: only partitions of its area go, and the entries of the trie with them.
LEMMA CleanThread ==
  ASSUME Thread!ThreadAssumption, Thread!ThreadInv, NEW t \in Thread!Threads,
         Thread!clean_thread_shadow_layout(t)
  PROVE  Thread!ThreadInv'
<1>. DEFINE chosen == Thread!tp_is_same_thread(t)
            old == thread_partitions
            after == Thread!pt_remove_if(old, chosen)
<1>1. Thread!AreasInv /\ Thread!PartitionsInv /\ Thread!TrieKeepsInv
  BY DEF Thread!ThreadInv
<1>2. /\ phase[t] = "running" /\ thread_partitions' = after
      /\ partition' = [l \in DOMAIN partition \cap Thread!Leaves(after) |-> partition[l]]
      /\ phase' = [phase EXCEPT ![t] = "ended"] /\ area' = area
  BY DEF Thread!clean_thread_shadow_layout
<1>3. t \in Thread!Created \ Thread!Gone
  BY <1>2 DEF Thread!Created, Thread!Gone
<1>4. chosen = {l \in DOMAIN partition : partition[l].id = area[t]}
  BY DEF Thread!tp_is_same_thread
<1>5. Thread!TrieInv(old) /\ Thread!Counted(old) /\ Thread!LeafEnds(old)
  BY <1>1 DEF Thread!TrieKeepsInv
<1>. HIDE DEF chosen, old
<1>6. /\ Thread!TrieInv(after) /\ Thread!Counted(after) /\ Thread!LeafEnds(after)
      /\ Thread!Entries(after) \subseteq Thread!Entries(old)
      /\ \A e \in Thread!Entries(old) : e[2] \notin chosen => e \in Thread!Entries(after)
  BY <1>5, BittreeConstants, Thread!RemoveIfKeepsTrie
<1>7. Thread!Leaves(after) = {e[2] : e \in Thread!Entries(after)}
  BY BittreeConstants, Thread!LeavesOfEntries
<1>. HIDE DEF after
<1>8. /\ \A e \in Thread!Entries(old) :
              e[2] \in DOMAIN partition /\ e = <<partition[e[2]].start, e[2]>>
      /\ \A l \in DOMAIN partition : <<partition[l].start, l>> \in Thread!Entries(old)
  BY <1>1, EntriesArePartitions DEF old
<1>9. /\ DOMAIN partition' \subseteq DOMAIN partition
      /\ \A l \in DOMAIN partition' : partition'[l] = partition[l] /\ l \in Thread!Leaves(after)
      /\ \A l \in DOMAIN partition : l \in Thread!Leaves(after) => l \in DOMAIN partition'
  BY <1>2
<1>10. ASSUME NEW l \in DOMAIN partition, partition[l].id # area[t] PROVE l \in DOMAIN partition'
  <2>. DEFINE e == <<partition[l].start, l>>
  <2>1. e \in Thread!Entries(old) /\ e[2] = l
    BY <1>8
  <2>2. l \notin chosen
    BY <1>4, <1>10
  <2>. HIDE DEF e
  <2>3. e \in Thread!Entries(after)
    BY <1>6, <2>1, <2>2
  <2> QED BY <1>7, <1>9, <2>1, <2>3
<1>11. Thread!Entries(after) = {<<partition'[l].start, l>> : l \in DOMAIN partition'}
  <2>1. ASSUME NEW e \in Thread!Entries(after)
        PROVE  e \in {<<partition'[l].start, l>> : l \in DOMAIN partition'}
    <3>1. e \in Thread!Entries(old)
      BY <1>6
    <3>2. e[2] \in DOMAIN partition /\ e = <<partition[e[2]].start, e[2]>>
      BY <1>8, <3>1
    <3>3. e[2] \in Thread!Leaves(after)
      BY <1>7
    <3>4. e[2] \in DOMAIN partition' /\ partition'[e[2]] = partition[e[2]]
      BY <1>9, <3>2, <3>3
    <3> QED BY <3>2, <3>4
  <2>2. ASSUME NEW l \in DOMAIN partition'
        PROVE  <<partition'[l].start, l>> \in Thread!Entries(after)
    <3>1. PICK e \in Thread!Entries(after) : l = e[2]
      BY <1>7, <1>9
    <3>2. e \in Thread!Entries(old)
      BY <1>6
    <3>3. e = <<partition[l].start, l>>
      BY <1>8, <3>1, <3>2
    <3> QED BY <1>9, <3>1, <3>3
  <2> QED BY <2>1, <2>2
<1>12. Thread!TrieKeepsInv'
  <2>1. thread_partitions' = after
    BY <1>2
  <2> QED BY <1>6, <1>11, <2>1 DEF Thread!TrieKeepsInv
<1>13. /\ Thread!AreasInv' /\ Thread!Created' = Thread!Created
       /\ \A u \in Thread!Threads : phase'[u] = IF u = t THEN "ended" ELSE phase[u]
       /\ \A u \in Thread!Threads : (Thread!StackPartition(u))' = Thread!StackPartition(u)
       /\ \A u \in Thread!Threads : (Thread!TlsPartition(u))' = Thread!TlsPartition(u)
  BY <1>1, <1>2, <1>3, ThreadGoesOn DEF Thread!Phases
<1>14. ASSUME NEW u \in Thread!Created \ Thread!Gone, u # t, NEW l \in {Thread!StackLeaf(u), Thread!TlsLeaf(u)},
              l \in DOMAIN partition
       PROVE  l \in DOMAIN partition'
  <2>1. PICK v \in Thread!Created :
           /\ partition[l].id = area[v]
           /\ l = Thread!StackLeaf(v) \/ l = Thread!TlsLeaf(v)
    BY <1>1, <1>14, PartitionPlace
  <2>2. v \in Thread!Threads /\ u \in Thread!Threads
    BY DEF Thread!Created
  <2>3. v = u
    BY <1>14, <2>1, <2>2, LeavesDiffer
  <2>4. area[u] # area[t]
    BY <1>1, <1>3, <1>14 DEF Thread!AreasInv
  <2> QED BY <1>10, <1>14, <2>1, <2>3, <2>4
<1>15. Thread!PartitionsInv'
  <2>1. ASSUME NEW l \in DOMAIN partition'
        PROVE  \E u \in Thread!Created' :
         \/ l = Thread!StackLeaf(u) /\ partition'[l] = (Thread!StackPartition(u))' /\ phase'[u] # "created"
         \/ l = Thread!TlsLeaf(u) /\ partition'[l] = (Thread!TlsPartition(u))' /\ phase'[u] \in {"running", "ended"}
    <3>1. PICK u \in Thread!Created :
             \/ l = Thread!StackLeaf(u) /\ partition[l] = Thread!StackPartition(u) /\ phase[u] # "created"
             \/ l = Thread!TlsLeaf(u) /\ partition[l] = Thread!TlsPartition(u) /\ phase[u] \in {"running", "ended"}
      BY <1>1, <1>9 DEF Thread!PartitionsInv
    <3>2. u \in Thread!Threads
      BY DEF Thread!Created
    <3> QED BY <1>9, <1>13, <3>1, <3>2
  <2>2. ASSUME NEW u \in Thread!Threads
        PROVE  /\ phase'[u] \in {"on_stack", "running"} => Thread!StackLeaf(u) \in DOMAIN partition'
               /\ phase'[u] = "running" => Thread!TlsLeaf(u) \in DOMAIN partition'
    <3>1. CASE u = t
      BY <1>13, <3>1
    <3>2. ASSUME u # t, phase[u] \in {"on_stack", "running"} PROVE u \in Thread!Created \ Thread!Gone
      BY <3>2 DEF Thread!Created, Thread!Gone
    <3>3. CASE u # t
      BY <1>1, <1>13, <1>14, <3>2, <3>3 DEF Thread!PartitionsInv
    <3> QED BY <3>1, <3>3
  <2> QED BY <2>1, <2>2 DEF Thread!PartitionsInv
<1> QED BY <1>12, <1>13, <1>15 DEF Thread!ThreadInv

\* A step keeps the areas, the partitions and the trie.
LEMMA ThreadInvStep ==
  ASSUME Thread!ThreadAssumption, Thread!ThreadInv, Thread!EachPlaceOnce', [Thread!Next]_(Thread!vars)
  PROVE  Thread!ThreadInv'
<1>1. ASSUME UNCHANGED <<thread_partitions, partition, phase, area>> PROVE Thread!ThreadInv'
  <2>1. Thread!Created' = Thread!Created
    BY <1>1 DEF Thread!Created
  <2>2. Thread!AreasInv'
    BY <1>1, <2>1 DEF Thread!ThreadInv, Thread!AreasInv, Thread!Gone
  <2>3. Thread!PartitionsInv'
    BY <1>1, <2>1 DEF Thread!ThreadInv, Thread!PartitionsInv, Thread!StackPartition, Thread!TlsPartition
  <2>4. Thread!TrieKeepsInv'
    BY <1>1 DEF Thread!ThreadInv, Thread!TrieKeepsInv
  <2> QED BY <2>2, <2>3, <2>4 DEF Thread!ThreadInv
<1>2. ASSUME NEW t \in Thread!Threads, NEW a \in Areas, Thread!eacsl_pthread_create(t, a)
      PROVE  Thread!ThreadInv'
  BY <1>2, CreateThread
<1>3. ASSUME NEW t \in Thread!Threads, Thread!insert_stack(t) PROVE Thread!ThreadInv'
  BY <1>3, InsertStack
<1>4. ASSUME NEW t \in Thread!Threads, Thread!insert_tls(t) PROVE Thread!ThreadInv'
  BY <1>4, InsertTls
<1>0. ASSUME NEW t \in Thread!Threads, Thread!canceled(t) PROVE Thread!ThreadInv'
  BY <1>0, CanceledThread
<1>5. ASSUME NEW t \in Thread!Threads, Thread!clean_thread_shadow_layout(t) PROVE Thread!ThreadInv'
  BY <1>5, CleanThread
<1>6. ASSUME NEW u, NEW t, NEW p, Thread!is_on_thread(u, t, p) PROVE Thread!ThreadInv'
  BY <1>1, <1>6 DEF Thread!is_on_thread
<1>7. ASSUME NEW u, Thread!primary_thread_shadow(u) PROVE Thread!ThreadInv'
  BY <1>1, <1>7 DEF Thread!primary_thread_shadow
<1>8. ASSUME NEW u, Thread!SHADOW_ACCESS(u) PROVE Thread!ThreadInv'
  BY <1>1, <1>8 DEF Thread!SHADOW_ACCESS
<1>9. CASE UNCHANGED Thread!vars
  BY <1>1, <1>9 DEF Thread!vars
<1> QED BY <1>2, <1>3, <1>4, <1>0, <1>5, <1>6, <1>7, <1>8, <1>9 DEF Thread!Next

\* Threads that run, or have ended, stay where they are, and end or go on: what an access
\* holds is as good as it was.
LEMMA AccessGoesOn ==
  ASSUME Thread!AccessInv, access' = access,
         \A t \in Thread!Threads : phase[t] \in {"running", "ended"} =>
            phase'[t] \in {phase[t], "ended"} /\ area'[t] = area[t]
  PROVE  Thread!AccessInv'
<1>1. ASSUME NEW u, Thread!AccessOf(u) PROVE Thread!AccessOf(u)'
  <2>1. PICK t \in Thread!Threads :
          /\ phase[t] \in {"running", "ended"}
          /\ \/ \E p \in Thread!StackOf(t) :
                  /\ access[u] = [step |-> "shadow", of |-> t, addr |-> p]
                  /\ phase[t] = "running" => p < area[t] + TLS_OFFSET + TLS_SIZE
             \/ /\ access[u] = [step |-> "offset", of |-> t, leaf |-> access[u].leaf]
                /\ phase[t] = "running" =>
                     access[u].leaf \in {Thread!StackLeaf(t), Thread!TlsLeaf(t)}
    BY <1>1 DEF Thread!AccessOf
  <2>2. phase'[t] \in {phase[t], "ended"} /\ area'[t] = area[t]
    BY <2>1
  <2>3. Thread!StackOf(t)' = Thread!StackOf(t)
    BY <2>2 DEF Thread!StackOf
  <2> QED BY <2>1, <2>2, <2>3 DEF Thread!AccessOf, Thread!Threads, Thread!StackLeaf, Thread!TlsLeaf
<1> QED BY <1>1 DEF Thread!AccessInv, Thread!Idle, Thread!Threads, Thread!Main

\* An access goes on, and the others stay as they are.
LEMMA AccessSteps ==
  ASSUME Thread!AccessInv, UNCHANGED <<phase, area>>, NEW v \in Thread!Threads \cup {Thread!Main},
         NEW x, access' = [access EXCEPT ![v] = x], x = Thread!Idle \/ Thread!AccessOf(v)'
  PROVE  Thread!AccessInv'
<1>. DEFINE Users == Thread!Threads \cup {Thread!Main}
<1>1. /\ access = [u \in Users |-> access[u]]
      /\ \A u \in Users : access[u] = Thread!Idle \/ Thread!AccessOf(u)
  BY DEF Thread!AccessInv
<1>2. \A u \in Users : access'[u] = IF u = v THEN x ELSE access[u]
  BY <1>1, Zenon
<1>3. access' = [u \in Users |-> access'[u]]
  BY <1>1, Zenon
<1>4. ASSUME NEW u \in Users, u # v, Thread!AccessOf(u) PROVE Thread!AccessOf(u)'
  <2>1. access'[u] = access[u]
    BY <1>2, <1>4
  <2> QED BY <1>4, <2>1
      DEF Thread!AccessOf, Thread!Threads, Thread!StackOf, Thread!StackLeaf, Thread!TlsLeaf
<1>5. \A u \in Users : access'[u] = Thread!Idle \/ Thread!AccessOf(u)'
  BY <1>1, <1>2, <1>4
<1> QED BY <1>3, <1>5 DEF Thread!AccessInv, Thread!Idle, Thread!Threads, Thread!Main

\* What an access holds, by its step.
LEMMA AccessHolds ==
  ASSUME NEW v, Thread!AccessOf(v)
  PROVE  /\ access[v].step = "shadow" =>
              \E t \in Thread!Threads : \E p \in Thread!StackOf(t) :
                /\ phase[t] \in {"running", "ended"} /\ access[v].of = t /\ access[v].addr = p
                /\ phase[t] = "running" => p < area[t] + TLS_OFFSET + TLS_SIZE
         /\ access[v].step = "offset" =>
              \E t \in Thread!Threads :
                /\ phase[t] \in {"running", "ended"} /\ access[v].of = t
                /\ phase[t] = "running" =>
                     access[v].leaf \in {Thread!StackLeaf(t), Thread!TlsLeaf(t)}
<1>1. PICK t \in Thread!Threads :
        /\ phase[t] \in {"running", "ended"}
        /\ \/ \E p \in Thread!StackOf(t) :
                /\ access[v] = [step |-> "shadow", of |-> t, addr |-> p]
                /\ phase[t] = "running" => p < area[t] + TLS_OFFSET + TLS_SIZE
           \/ /\ access[v] = [step |-> "offset", of |-> t, leaf |-> access[v].leaf]
              /\ phase[t] = "running" => access[v].leaf \in {Thread!StackLeaf(t), Thread!TlsLeaf(t)}
  BY DEF Thread!AccessOf
<1>2. ASSUME NEW p \in Thread!StackOf(t), access[v] = [step |-> "shadow", of |-> t, addr |-> p]
      PROVE  access[v].step = "shadow" /\ access[v].of = t /\ access[v].addr = p
  BY <1>2
<1>3. ASSUME NEW l, access[v] = [step |-> "offset", of |-> t, leaf |-> l]
      PROVE  access[v].step = "offset" /\ access[v].of = t
  BY <1>3
<1>4. CASE access[v].step = "shadow"
  <2>1. access[v] # [step |-> "offset", of |-> t, leaf |-> access[v].leaf]
    BY <1>3, <1>4
  <2>2. PICK p \in Thread!StackOf(t) :
          /\ access[v] = [step |-> "shadow", of |-> t, addr |-> p]
          /\ phase[t] = "running" => p < area[t] + TLS_OFFSET + TLS_SIZE
    BY <1>1, <2>1
  <2>3. access[v].of = t /\ access[v].addr = p
    BY <1>2, <2>2
  <2> QED BY <1>1, <1>4, <2>2, <2>3
<1>5. CASE access[v].step = "offset"
  <2>1. \A p \in Thread!StackOf(t) : access[v] # [step |-> "shadow", of |-> t, addr |-> p]
    BY <1>2, <1>5
  <2>2. /\ access[v] = [step |-> "offset", of |-> t, leaf |-> access[v].leaf]
        /\ phase[t] = "running" => access[v].leaf \in {Thread!StackLeaf(t), Thread!TlsLeaf(t)}
    BY <1>1, <2>1
  <2>3. access[v].of = t
    BY <1>3, <2>2
  <2> QED BY <1>1, <1>5, <2>2, <2>3
<1> QED BY <1>4, <1>5

\* Every step keeps what accesses hold, and none reads a partition that is not there,
\* unless the thread has ended.
LEMMA AccessInvStep ==
  ASSUME Thread!ThreadAssumption, Thread!ThreadInv, Thread!EachPlaceOnce,
         Thread!AccessInv, Thread!NoFault, [Thread!Next]_(Thread!vars)
  PROVE  Thread!AccessInv' /\ Thread!NoFault'
<1>. DEFINE Users == Thread!Threads \cup {Thread!Main}
<1>1. /\ access = [v \in Users |-> access[v]]
      /\ \A v \in Users : access[v] = Thread!Idle \/ Thread!AccessOf(v)
  BY DEF Thread!AccessInv
<1>2. /\ phase \in [Thread!Threads -> Thread!Phases]
      /\ area \in [Thread!Threads -> Areas \cup {Thread!NULL}]
  BY DEF Thread!ThreadInv, Thread!AreasInv
<1>3. ASSUME NEW t \in Thread!Threads, NEW y, fault = Thread!NULL, access' = access, fault' = fault,
             phase' = [phase EXCEPT ![t] = y],
             \/ area' = area /\ (phase[t] \in {"running", "ended"} => y = "ended")
             \/ phase[t] = "none" /\ \E a \in Areas : area' = [area EXCEPT ![t] = a]
      PROVE  Thread!AccessInv' /\ Thread!NoFault'
  <2>1. \A u \in Thread!Threads : phase[u] \in {"running", "ended"} =>
            phase'[u] \in {phase[u], "ended"} /\ area'[u] = area[u]
    BY <1>2, <1>3
  <2> QED BY <1>3, <2>1, AccessGoesOn DEF Thread!NoFault, Thread!NULL
<1>4. ASSUME UNCHANGED <<phase, area, access, fault>> PROVE Thread!AccessInv' /\ Thread!NoFault'
  BY <1>4, AccessGoesOn DEF Thread!NoFault, Thread!NULL
<1>5. ASSUME fault = Thread!NULL, NEW t \in Thread!Threads,
             \/ \E a \in Areas : Thread!eacsl_pthread_create(t, a)
             \/ Thread!insert_stack(t) \/ Thread!insert_tls(t)
             \/ Thread!canceled(t) \/ Thread!clean_thread_shadow_layout(t)
      PROVE  Thread!AccessInv' /\ Thread!NoFault'
  <2>1. ASSUME NEW a \in Areas, Thread!eacsl_pthread_create(t, a) PROVE Thread!AccessInv' /\ Thread!NoFault'
    BY <1>3, <1>5, <2>1 DEF Thread!eacsl_pthread_create
  <2>2. CASE Thread!insert_stack(t)
    BY <1>3, <1>5, <2>2 DEF Thread!insert_stack
  <2>3. CASE Thread!insert_tls(t)
    BY <1>3, <1>5, <2>3 DEF Thread!insert_tls
  <2>4. CASE Thread!canceled(t)
    BY <1>3, <1>5, <2>4 DEF Thread!canceled
  <2>5. CASE Thread!clean_thread_shadow_layout(t)
    BY <1>3, <1>5, <2>5 DEF Thread!clean_thread_shadow_layout
  <2> QED BY <1>5, <2>1, <2>2, <2>3, <2>4, <2>5
<1>6. ASSUME fault = Thread!NULL, NEW v \in Users, NEW t \in Thread!Threads, NEW p,
             Thread!is_on_thread(v, t, p)
      PROVE  Thread!AccessInv' /\ Thread!NoFault'
  <2>. DEFINE x == [step |-> "shadow", of |-> t, addr |-> p]
  <2>1. /\ phase[t] \in {"running", "ended"} /\ p \in Thread!StackOf(t)
        /\ access' = IF Thread!find_thread_partition(p) = Thread!NULL THEN access
                     ELSE [access EXCEPT ![v] = x]
        /\ UNCHANGED <<phase, area>> /\ fault' = fault
    BY <1>6 DEF Thread!is_on_thread
  <2>2. CASE Thread!find_thread_partition(p) = Thread!NULL
    BY <1>4, <2>1, <2>2
  <2>3. CASE Thread!find_thread_partition(p) # Thread!NULL
    <3>1. phase[t] = "running" => p < area[t] + TLS_OFFSET + TLS_SIZE
      BY <2>1, <2>3, OwnIsFound DEF Thread!Running
    <3>2. access' = [access EXCEPT ![v] = x] /\ access'[v] = x
      BY <1>1, <2>1, <2>3, Zenon
    <3>3. Thread!StackOf(t)' = Thread!StackOf(t)
      BY <2>1 DEF Thread!StackOf
    <3>4. Thread!AccessOf(v)'
      BY <2>1, <3>1, <3>2, <3>3 DEF Thread!AccessOf, Thread!Threads
    <3>5. Thread!AccessInv'
      BY <2>1, <3>2, <3>4, AccessSteps
    <3> QED BY <1>6, <2>1, <3>5 DEF Thread!NoFault, Thread!NULL
  <2> QED BY <2>2, <2>3
<1>7. ASSUME fault = Thread!NULL, NEW v \in Users, Thread!primary_thread_shadow(v)
      PROVE  Thread!AccessInv' /\ Thread!NoFault'
  <2>. DEFINE x == [step |-> "offset", of |-> access[v].of,
                    leaf |-> Thread!find_thread_partition(access[v].addr)]
  <2>1. /\ access[v].step = "shadow" /\ access' = [access EXCEPT ![v] = x]
        /\ UNCHANGED <<phase, area>> /\ fault' = fault
    BY <1>7 DEF Thread!primary_thread_shadow
  <2>2. Thread!AccessOf(v)
    <3>1. Thread!Idle.step = "idle"
      BY DEF Thread!Idle
    <3> QED BY <1>1, <2>1, <3>1
  <2>3. PICK t \in Thread!Threads : \E p \in Thread!StackOf(t) :
          /\ phase[t] \in {"running", "ended"} /\ access[v].of = t /\ access[v].addr = p
          /\ phase[t] = "running" => p < area[t] + TLS_OFFSET + TLS_SIZE
    BY <2>1, <2>2, AccessHolds
  <2>4. PICK p \in Thread!StackOf(t) :
          /\ phase[t] \in {"running", "ended"}
          /\ access[v].of = t /\ access[v].addr = p
          /\ phase[t] = "running" => p < area[t] + TLS_OFFSET + TLS_SIZE
    BY <2>3
  <2>5. phase[t] = "running" => Thread!find_thread_partition(p) \in {Thread!StackLeaf(t), Thread!TlsLeaf(t)}
    <3>1. SUFFICES ASSUME phase[t] = "running"
                   PROVE  Thread!find_thread_partition(p) \in {Thread!StackLeaf(t), Thread!TlsLeaf(t)}
      OBVIOUS
    <3>2. t \in Thread!Running
      BY <3>1 DEF Thread!Running
    <3>3. /\ area[t] \in Nat /\ TLS_OFFSET \in Nat /\ TLS_SIZE \in Nat /\ p \in Nat
      <4>1. Thread!AreasInv /\ t \in Thread!Created
        BY <3>1 DEF Thread!ThreadInv, Thread!Created
      <4>2. p \in Thread!Word
        BY <4>1, AreaIsApart
      <4> QED BY <4>1, <4>2, AreaIsApart DEF Thread!Word
    <3>4. p < area[t] + TLS_OFFSET \/ p \in Thread!TlsOf(t)
      BY <2>4, <3>1, <3>3 DEF Thread!TlsOf
    <3> QED BY <3>2, <3>4, OwnIsFound
  <2>6. x = [step |-> "offset", of |-> t, leaf |-> Thread!find_thread_partition(p)]
    BY <2>4
  <2>7. access'[v] = [step |-> "offset", of |-> t, leaf |-> Thread!find_thread_partition(p)]
    BY <1>1, <2>1, <2>6, Zenon
  <2>8. Thread!AccessOf(v)'
    BY <2>1, <2>4, <2>5, <2>7 DEF Thread!AccessOf, Thread!Threads, Thread!StackLeaf, Thread!TlsLeaf
  <2>9. Thread!AccessInv'
    BY <2>1, <2>8, AccessSteps
  <2> QED BY <1>7, <2>1, <2>9 DEF Thread!NoFault, Thread!NULL
<1>8. ASSUME fault = Thread!NULL, NEW v \in Users, Thread!SHADOW_ACCESS(v)
      PROVE  Thread!AccessInv' /\ Thread!NoFault'
  <2>1. /\ access[v].step = "offset" /\ access' = [access EXCEPT ![v] = Thread!Idle]
        /\ fault' = IF access[v].leaf \in DOMAIN partition THEN fault ELSE access[v].of
        /\ UNCHANGED <<phase, area>>
    BY <1>8 DEF Thread!SHADOW_ACCESS
  <2>2. Thread!AccessOf(v)
    <3>1. Thread!Idle.step = "idle"
      BY DEF Thread!Idle
    <3> QED BY <1>1, <2>1, <3>1
  <2>3. PICK t \in Thread!Threads :
          /\ phase[t] \in {"running", "ended"} /\ access[v].of = t
          /\ phase[t] = "running" => access[v].leaf \in {Thread!StackLeaf(t), Thread!TlsLeaf(t)}
    BY <2>1, <2>2, AccessHolds
  <2>4. phase[t] = "running" => access[v].leaf \in DOMAIN partition
    BY <2>3, OwnPartitions DEF Thread!Running
  <2>5. Thread!NoFault'
    BY <1>8, <2>1, <2>3, <2>4 DEF Thread!NoFault, Thread!NULL
  <2> QED BY <2>1, <2>5, AccessSteps
<1>9. CASE UNCHANGED Thread!vars
  BY <1>4, <1>9 DEF Thread!vars
<1> QED BY <1>5, <1>6, <1>7, <1>8, <1>9 DEF Thread!Next

(* Threads may start, be canceled and end in any order, and start again in *)
(* the areas of those that are gone: the trie stays well formed, and its   *)
(* leaves are the partitions that were not freed (pt_insert and            *)
(* pt_remove_if of e_acsl_shadow_concurrency.c).                           *)
THEOREM ThreadsKeepTrie == ThreadSpec /\ []Thread!EachPlaceOnce => []TrieOfPartitions
<1>1. Thread!Init => Thread!ThreadInv
  BY ThreadConstants, ThreadInvAtInit
<1>2. Thread!ThreadInv /\ Thread!EachPlaceOnce' /\ [Thread!Next]_(Thread!vars) => Thread!ThreadInv'
  BY ThreadConstants, ThreadInvStep
<1>3. Thread!ThreadInv => TrieOfPartitions
  <2>1. SUFFICES ASSUME Thread!TrieKeepsInv PROVE TrieOfPartitions
    BY DEF Thread!ThreadInv
  <2>2. Thread!WellFormed(thread_partitions)
    BY <2>1, BittreeConstants, Thread!TrieIsWellFormed DEF Thread!TrieKeepsInv
  <2>3. Thread!Leaves(thread_partitions) = {e[2] : e \in Thread!Entries(thread_partitions)}
    BY BittreeConstants, Thread!LeavesOfEntries
  <2>4. Thread!Leaves(thread_partitions) = DOMAIN partition
    BY <2>1, <2>3, EntriesArePartitions
  <2> QED BY <2>2, <2>4 DEF TrieOfPartitions, Thread!TrieOfPartitions
<1> QED BY <1>1, <1>2, <1>3, PTL DEF ThreadSpec, Thread!Spec

(* An address of a thread that runs is found in the nearest partition of   *)
(* that thread and in no other, whatever threads have started and ended    *)
(* since, at that place too (find_thread_partition).                       *)
THEOREM ThreadFindsItsOwn == ThreadSpec /\ []Thread!EachPlaceOnce => []FindsItsOwn
<1>1. Thread!Init => Thread!ThreadInv
  BY ThreadConstants, ThreadInvAtInit
<1>2. Thread!ThreadInv /\ Thread!EachPlaceOnce' /\ [Thread!Next]_(Thread!vars) => Thread!ThreadInv'
  BY ThreadConstants, ThreadInvStep
<1>3. Thread!ThreadInv /\ Thread!EachPlaceOnce => FindsItsOwn
  <2>1. SUFFICES ASSUME Thread!ThreadInv, Thread!EachPlaceOnce,
                        NEW t \in Thread!Running, NEW p \in Thread!StackOf(t)
                 PROVE  Thread!find_thread_partition(p) =
                          CASE p < area[t] + TLS_OFFSET -> Thread!Oldest(Thread!StartsAt(area[t]))
                            [] p \in Thread!TlsOf(t) -> Thread!Oldest(Thread!StartsAt(area[t] + TLS_OFFSET))
                            [] OTHER -> Thread!NULL
    BY DEF FindsItsOwn, Thread!FindsItsOwn
  <2>2. /\ t \in Thread!Created /\ t \in Thread!Threads
        /\ Thread!StartsAt(area[t]) = {Thread!StackLeaf(t)}
        /\ Thread!StartsAt(area[t] + TLS_OFFSET) = {Thread!TlsLeaf(t)}
    BY <2>1, ThreadConstants, OwnPartitions DEF Thread!Running
  <2>3. Thread!StackLeaf(t) \in Nat /\ Thread!TlsLeaf(t) \in Nat
    BY <2>2, ThreadConstants, LeavesDiffer
  <2>4. \A l \in Nat : Thread!Oldest({l}) = l
    BY DEF Thread!Oldest
  <2>5. /\ p < area[t] + TLS_OFFSET => Thread!find_thread_partition(p) = Thread!StackLeaf(t)
        /\ p \in Thread!TlsOf(t) => Thread!find_thread_partition(p) = Thread!TlsLeaf(t)
        /\ ~(p < area[t] + TLS_OFFSET + TLS_SIZE) => Thread!find_thread_partition(p) = Thread!NULL
    BY <2>1, ThreadConstants, OwnIsFound
  <2>6. \/ p < area[t] + TLS_OFFSET /\ p \notin Thread!TlsOf(t)
        \/ p \in Thread!TlsOf(t) /\ ~(p < area[t] + TLS_OFFSET)
        \/ /\ ~(p < area[t] + TLS_OFFSET) /\ p \notin Thread!TlsOf(t)
           /\ ~(p < area[t] + TLS_OFFSET + TLS_SIZE)
    <3>1. Thread!AreasInv
      BY <2>1 DEF Thread!ThreadInv
    <3>2. area[t] \in Nat /\ TLS_OFFSET \in Nat /\ TLS_SIZE \in Nat /\ p \in Thread!Word
      BY <2>1, <2>2, <3>1, ThreadConstants, AreaIsApart
    <3>3. p \in Nat
      BY <3>2 DEF Thread!Word
    <3> QED BY <3>2, <3>3 DEF Thread!TlsOf
  <2> QED BY <2>2, <2>3, <2>4, <2>5, <2>6
<1> QED BY <1>1, <1>2, <1>3, PTL DEF ThreadSpec, Thread!Spec

(* A partition that an access has found is there until the access has read *)
(* it, or the thread at whose memory it looks has ended: what other        *)
(* threads do to the trie between the two searches and before the read     *)
(* never takes it away (primary_thread_shadow returns after the lock of    *)
(* the trie is released).                                                  *)
THEOREM ThreadReadsNoFreed == ThreadSpec /\ []Thread!EachPlaceOnce => []NoFault
<1>. DEFINE Inv == Thread!ThreadInv /\ Thread!AccessInv /\ Thread!NoFault
<1>1. Thread!Init => Inv
  <2>1. Thread!Init => Thread!NoFault
    BY DEF Thread!Init, Thread!NoFault
  <2> QED BY <2>1, ThreadConstants, ThreadInvAtInit
<1>2. Inv /\ Thread!EachPlaceOnce /\ Thread!EachPlaceOnce' /\ [Thread!Next]_(Thread!vars) => Inv'
  BY ThreadConstants, ThreadInvStep, AccessInvStep
<1>3. Inv => NoFault
  BY DEF NoFault
<1> QED BY <1>1, <1>2, <1>3, PTL DEF ThreadSpec, Thread!Spec
=============================================================================
