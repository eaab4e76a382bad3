------------------------- MODULE PatriciaTrieProofs -------------------------
(***************************************************************************)
(* Theorems on the Patricia trie of the E-ACSL runtime, for words of 16,   *)
(* 32 or 64 bits and any trie that pt_insert and pt_remove can build: the  *)
(* masks are exact, an insertion adds an entry and a removal takes it, and *)
(* the searches find the entries there are.  TrieInv is what the code      *)
(* keeps of its nodes; Entries forgets all but the leaves.                 *)
(***************************************************************************)
EXTENDS PatriciaTrie, FiniteSetTheorems, WellFoundedInduction, TLAPS

\* A set of naturals has a least element: what the inductions below are made of.
LEMMA NatMinimum ==
  ASSUME NEW S \in SUBSET Nat, S # {}
  PROVE  \E x \in S : \A y \in S : x <= y
<1>. DEFINE Less == {ss \in Nat \X Nat : ss[1] < ss[2]}
<1>1. OpToRel(<, Nat) = Less
  BY Zenon DEF OpToRel
<1>2. PICK x \in S : \A y \in S : ~(<<y, x>> \in OpToRel(<, Nat))
  BY WFMin, NatLessThanWellFounded, Zenon
<1>3. \A y, z \in Nat : <<y, z>> \in Less <=> y < z
  OBVIOUS
<1>4. \A y \in S : ~(y < x)
  BY <1>1, <1>2, <1>3
<1> QED BY <1>4

-----------------------------------------------------------------------------
(* Words and masks *)

Masks == 0 .. WORDBITS

\* What one unit of the mask m is worth: it doubles, or stays one, at each step.
LEMMA Units ==
  /\ WORDBITS \in {16, 32, 64}
  /\ \A m \in Masks : Unit(m) \in Nat \ {0}
  /\ \A m \in Masks \ {WORDBITS} : Unit(m) = Unit(m + 1) \/ Unit(m) = 2 * Unit(m + 1)
  /\ Unit(WORDBITS) = 1
<1>1. \A i \in 1 .. 30 : POWERS[i] \in Nat \ {0} /\ POWERS[i + 1] = 2 * POWERS[i]
  BY DEF POWERS
<1>2. POWERS[31] \in Nat \ {0} /\ POWERS[1] = 1
  BY DEF POWERS
<1>3. WORDBITS \in {16, 32, 64}
  BY WordAssumption
<1>4. ASSUME NEW m \in Masks PROVE Unit(m) \in Nat \ {0}
  BY <1>1, <1>2, <1>3 DEF Unit, Masks
<1>5. ASSUME NEW m \in Masks \ {WORDBITS}
      PROVE  Unit(m) = Unit(m + 1) \/ Unit(m) = 2 * Unit(m + 1)
  <2>1. CASE WORDBITS - m > 30
    BY <1>3, <2>1 DEF Unit, Masks
  <2>2. CASE WORDBITS - m <= 30
    <3>1. /\ Unit(m) = POWERS[1 + (WORDBITS - m)]
          /\ Unit(m + 1) = POWERS[1 + (WORDBITS - (m + 1))]
      BY <1>3, <2>2 DEF Unit, Masks
    <3>2. PICK i \in 1 .. 30 : i = WORDBITS - m
      BY <1>3, <2>2 DEF Masks
    <3>3. 1 + (WORDBITS - (m + 1)) = i /\ 1 + (WORDBITS - m) = i + 1
      BY <1>3, <3>2 DEF Masks
    <3> QED BY <1>1, <3>1, <3>3
  <2> QED BY <1>3, <2>1, <2>2 DEF Masks
<1>6. Unit(WORDBITS) = 1
  BY <1>2, <1>3 DEF Unit
<1> QED BY <1>3, <1>4, <1>5, <1>6

\* Quotient and remainder.
LEMMA DivMod ==
  ASSUME NEW w \in Nat \ {0}, NEW a \in Nat
  PROVE  /\ a \div w \in Nat /\ a % w \in 0 .. w - 1
         /\ a = w * (a \div w) + (a % w)
  OBVIOUS

\* A remainder is determined by its division.
LEMMA DivModUnique ==
  ASSUME NEW w \in Nat \ {0}, NEW q \in Nat, NEW r \in 0 .. w - 1
  PROVE  (w * q + r) % w = r
  OBVIOUS

\* What the mask of PT_MASKS does: round down to a multiple of a unit.
LEMMA Floor ==
  ASSUME NEW w \in Nat \ {0}, NEW a \in Nat
  PROVE  /\ a - (a % w) \in Nat /\ a - (a % w) <= a /\ a < a - (a % w) + w
         /\ \E q \in Nat : a - (a % w) = w * q
         /\ \A q \in Nat : w * q <= a /\ a < w * q + w => a - (a % w) = w * q
<1>1. PICK d \in Nat, r \in 0 .. w - 1 : r = a % w /\ a = w * d + r
  BY DivMod
<1>2. w * d \in Nat
  OBVIOUS
<1>3. a - (a % w) = w * d
  BY <1>1, <1>2
<1>4. ASSUME NEW q \in Nat, w * q <= a, a < w * q + w PROVE a - (a % w) = w * q
  <2>1. w * q \in Nat
    OBVIOUS
  <2>2. PICK s \in 0 .. w - 1 : a = w * q + s
    <3>1. a - w * q \in 0 .. w - 1 /\ a = w * q + (a - w * q)
      BY <1>4, <2>1
    <3> QED BY <3>1
  <2>3. a % w = s
    BY <2>2, DivModUnique
  <2> QED BY <2>1, <2>2, <2>3
<1>5. w * d <= a /\ a < w * d + w
  BY <1>1, <1>2
<1> QED BY <1>2, <1>3, <1>4, <1>5

\* A prefix is a multiple of its unit, at most the word, and near it.
LEMMA Prefixes ==
  ASSUME NEW a \in Nat, NEW m \in Masks
  PROVE  /\ Prefix(a, m) \in Nat /\ Prefix(a, m) <= a /\ a < Prefix(a, m) + Unit(m)
         /\ \E q \in Nat : Prefix(a, m) = Unit(m) * q
         /\ \A q \in Nat : Unit(m) * q <= a /\ a < Unit(m) * q + Unit(m) => Prefix(a, m) = Unit(m) * q
<1>1. Unit(m) \in Nat \ {0}
  BY Units
<1> QED BY <1>1, Floor, Zenon DEF Prefix

\* One bit more.
LEMMA NextPrefix ==
  ASSUME NEW a \in Nat, NEW m \in Masks \ {WORDBITS}
  PROVE  /\ m + 1 \in Masks
         /\ Prefix(Prefix(a, m + 1), m) = Prefix(a, m)
         /\ Prefix(a, m + 1) \in {Prefix(a, m), Prefix(a, m) + Unit(m + 1)}
         /\ Unit(m) = Unit(m + 1) => Prefix(a, m + 1) = Prefix(a, m)
<1>. DEFINE u == Unit(m + 1)
            w == Unit(m)
<1>1. m \in Masks /\ m + 1 \in Masks /\ WORDBITS \in {16, 32, 64}
  BY Units DEF Masks
<1>2. u \in Nat \ {0} /\ w \in Nat \ {0} /\ (w = u \/ w = 2 * u)
  BY <1>1, Units
<1>3. PICK q \in Nat : Prefix(a, m) = w * q
  BY <1>1, Prefixes
<1>4. w * q \in Nat /\ w * q <= a /\ a < w * q + w
  BY <1>1, <1>3, Prefixes
<1>5. \A p \in Nat : w * q <= p /\ p < w * q + w => Prefix(p, m) = w * q
  BY <1>1, Prefixes
<1>6. \A p \in Nat : u * p <= a /\ a < u * p + u => Prefix(a, m + 1) = u * p
  BY <1>1, Prefixes
<1>. HIDE DEF u, w
<1>7. CASE w = u
  <2>1. Prefix(a, m + 1) = w * q
    BY <1>4, <1>6, <1>7
  <2>2. Prefix(Prefix(a, m + 1), m) = w * q
    BY <1>2, <1>4, <1>5, <2>1
  <2> QED BY <1>1, <1>3, <2>1, <2>2 DEF u, w
<1>8. CASE w = 2 * u
  <2>1. /\ 2 * q \in Nat /\ 2 * q + 1 \in Nat
        /\ u * (2 * q) = w * q /\ u * (2 * q + 1) = w * q + u
    BY <1>2, <1>8
  <2>2. Prefix(a, m + 1) \in {w * q, w * q + u}
    <3>1. CASE a < w * q + u
      <4>1. u * (2 * q) <= a /\ a < u * (2 * q) + u
        BY <1>4, <2>1, <3>1
      <4> QED BY <1>6, <2>1, <4>1
    <3>2. CASE a >= w * q + u
      <4>1. u * (2 * q + 1) <= a /\ a < u * (2 * q + 1) + u
        BY <1>2, <1>4, <1>8, <2>1, <3>2
      <4> QED BY <1>6, <2>1, <4>1
    <3> QED BY <1>2, <1>4, <3>1, <3>2
  <2>3. Prefix(Prefix(a, m + 1), m) = w * q
    BY <1>2, <1>4, <1>5, <1>8, <2>2
  <2>4. w # u
    BY <1>2, <1>8
  <2> QED BY <1>1, <1>3, <2>2, <2>3, <2>4 DEF u, w
<1> QED BY <1>2, <1>7, <1>8

\* A prefix of a prefix is a prefix.
LEMMA PrefixDown ==
  ASSUME NEW a \in Nat, NEW m \in Masks, NEW k \in Masks, k <= m
  PROVE  Prefix(Prefix(a, m), k) = Prefix(a, k)
<1>. DEFINE Bad == {j \in Masks : k <= j /\ \E x \in Nat : Prefix(Prefix(x, j), k) # Prefix(x, k)}
<1>0. Masks \subseteq Nat /\ WORDBITS \in Nat
  BY Units DEF Masks
<1>1. ASSUME Bad # {} PROVE FALSE
  <2>1. PICK j \in Bad : \A i \in Bad : j <= i
    BY <1>0, <1>1, NatMinimum
  <2>2. PICK x \in Nat : Prefix(Prefix(x, j), k) # Prefix(x, k)
    BY <2>1
  <2>3. Prefix(x, j) \in Nat
    BY <2>1, Prefixes
  <2>4. CASE j = k
    <3>1. PICK q \in Nat : Prefix(x, k) = Unit(k) * q
      BY Prefixes
    <3>2. Unit(k) * q <= Prefix(x, k) /\ Prefix(x, k) < Unit(k) * q + Unit(k)
      BY <2>3, <2>4, <3>1, Units
    <3>3. Prefix(Prefix(x, k), k) = Unit(k) * q
      BY <2>3, <2>4, <3>1, <3>2, Prefixes
    <3> QED BY <2>2, <2>4, <3>1, <3>3
  <2>5. CASE j # k
    <3>1. PICK i \in Masks \ {WORDBITS} : j = i + 1 /\ k <= i /\ i \notin Bad
      <4>1. j - 1 \in Masks \ {WORDBITS} /\ j = (j - 1) + 1 /\ k <= j - 1 /\ ~(j <= j - 1)
        BY <1>0, <2>1, <2>5 DEF Masks
      <4> QED BY <2>1, <4>1
    <3>2. \A y \in Nat : Prefix(Prefix(y, i), k) = Prefix(y, k)
      BY <3>1
    <3>3. Prefix(Prefix(x, j), i) = Prefix(x, i)
      BY <3>1, NextPrefix
    <3>4. Prefix(x, i) \in Nat
      BY <3>1, Prefixes
    <3> QED BY <2>2, <2>3, <3>2, <3>3
  <2> QED BY <2>4, <2>5
<1> QED BY <1>1

\* The first m bits of a and b agree.
Agree(a, b, m) == Prefix(a, m) = Prefix(b, m)

\* Addresses that agree on m bits agree on fewer.
LEMMA AgreeDown ==
  ASSUME NEW a \in Nat, NEW b \in Nat, NEW m \in Masks, NEW k \in Masks, k <= m, Agree(a, b, m)
  PROVE  Agree(a, b, k)
  BY PrefixDown DEF Agree

\* Two multiples differ by one unit at least.
LEMMA Multiples ==
  ASSUME NEW w \in Nat \ {0}, NEW q \in Nat, NEW r \in Nat, w * q > w * r
  PROVE  w * q >= w * r + w
<1>1. w * q \in Nat /\ w * r \in Nat
  OBVIOUS
<1>2. q > r
  <2>1. ASSUME q <= r PROVE w * q <= w * r
    <3>1. PICK d \in Nat : r = q + d
      <4>1. r - q \in Nat /\ r = q + (r - q)
        BY <2>1
      <4> QED BY <4>1
    <3>2. w * r = w * q + w * d /\ w * d \in Nat
      BY <3>1
    <3> QED BY <1>1, <3>2
  <2> QED BY <1>1, <2>1
<1>3. PICK d \in Nat : q = r + 1 + d
  <2>1. q - r - 1 \in Nat /\ q = r + 1 + (q - r - 1)
    BY <1>2
  <2> QED BY <2>1
<1>4. w * q = w * r + w + w * d /\ w * d \in Nat
  BY <1>3
<1> QED BY <1>1, <1>4

\* Prefixes are in the order of their addresses.
LEMMA PrefixOrder ==
  ASSUME NEW a \in Nat, NEW b \in Nat, NEW m \in Masks, a <= b
  PROVE  Prefix(a, m) <= Prefix(b, m)
<1>. DEFINE w == Unit(m)
<1>1. w \in Nat \ {0}
  BY Units
<1>2. PICK q \in Nat, r \in Nat : Prefix(a, m) = w * q /\ Prefix(b, m) = w * r
  BY Prefixes
<1>3. Prefix(a, m) <= a /\ b < Prefix(b, m) + w /\ Prefix(a, m) \in Nat /\ Prefix(b, m) \in Nat
  BY Prefixes
<1>. HIDE DEF w
<1>4. Prefix(a, m) > Prefix(b, m) => Prefix(a, m) >= Prefix(b, m) + w
  BY <1>1, <1>2, Multiples
<1> QED BY <1>1, <1>3, <1>4

\* Of three addresses with m bits in common, two have one more: bits are two.
LEMMA AgreeThird ==
  ASSUME NEW a \in Nat, NEW b \in Nat, NEW c \in Nat, NEW m \in Masks \ {WORDBITS},
         Agree(a, b, m), Agree(b, c, m)
  PROVE  Agree(a, b, m + 1) \/ Agree(b, c, m + 1) \/ Agree(a, c, m + 1)
  BY NextPrefix DEF Agree

\* All addresses have the empty prefix, and none but itself the whole word.
LEMMA AgreeEnds ==
  ASSUME NEW a \in Word, NEW b \in Word
  PROVE  Agree(a, b, 0) /\ (Agree(a, b, WORDBITS) => a = b) /\ Prefix(a, WORDBITS) = a
<1>1. 0 \in Masks /\ WORDBITS \in Masks /\ Word \subseteq Nat
  BY Units DEF Masks, Word
<1>2. ASSUME NEW x \in Word PROVE Prefix(x, 0) = 0 /\ Prefix(x, WORDBITS) = x
  <2>1. x \in Nat /\ x < Unit(0)
    BY <1>1, Units DEF Word
  <2>2. Unit(0) * 0 = 0 /\ Unit(WORDBITS) * x = x
    BY <1>1, <2>1, Units
  <2>a. \A m \in Masks : \A q \in Nat :
           Unit(m) * q <= x /\ x < Unit(m) * q + Unit(m) => Prefix(x, m) = Unit(m) * q
    BY <2>1, Prefixes, Zenon
  <2>b. /\ Unit(0) * 0 <= x /\ x < Unit(0) * 0 + Unit(0)
        /\ Unit(WORDBITS) * x <= x /\ x < Unit(WORDBITS) * x + Unit(WORDBITS)
    BY <1>1, <2>1, <2>2, Units
  <2>3. Prefix(x, 0) = Unit(0) * 0 /\ 0 \in Nat
    BY <1>1, <2>a, <2>b, Zenon
  <2>4. Prefix(x, WORDBITS) = Unit(WORDBITS) * x
    BY <1>1, <2>1, <2>a, <2>b, Zenon
  <2> QED BY <2>2, <2>3, <2>4
<1> QED BY <1>2 DEF Agree

-----------------------------------------------------------------------------
(* Loops *)

\* What the walk of Descend is: the function has a fixed point, since a rank
\* decreases along next.
IsWalk(walk, next) ==
  walk = [n \in DOMAIN next |-> LET m == next[n] IN IF m = n THEN n ELSE walk[m]]

\* A loop whose rank decreases ends: the recursive function of Descend exists.
LEMMA WalkExists ==
  ASSUME NEW D, NEW next \in [D -> D], NEW top \in Nat, NEW rank \in [D -> 0 .. top],
         \A n \in D : next[n] = n \/ rank[next[n]] < rank[n]
  PROVE  \E walk : IsWalk(walk, next)
<1>. DEFINE Step(f, n) == IF next[n] = n THEN n ELSE f[next[n]]
            Good(k) == \E f \in [D -> D] : \A n \in D : rank[n] < k => f[n] = Step(f, n)
            Bad == {k \in Nat : ~Good(k)}
<1>1. Good(0)
  <2>1. \A n \in D : ~(rank[n] < 0)
    OBVIOUS
  <2>2. next \in [D -> D]
    OBVIOUS
  <2>3. \E f \in [D -> D] : \A n \in D : rank[n] < 0 => f[n] = Step(f, n)
    BY <2>1, <2>2
  <2> QED BY <2>3
<1>2. ASSUME NEW k \in Nat, Good(k) PROVE Good(k + 1)
  <2>1. PICK f \in [D -> D] : \A n \in D : rank[n] < k => f[n] = Step(f, n)
    BY <1>2
  <2>. DEFINE g == [n \in D |-> IF rank[n] < k THEN f[n] ELSE Step(f, n)]
  <2>2. g \in [D -> D]
    BY <2>1
  <2>3. ASSUME NEW n \in D, rank[n] < k + 1 PROVE g[n] = Step(g, n)
    <3>1. g[n] = Step(f, n)
      BY <2>1
    <3>2. next[n] # n => g[next[n]] = f[next[n]]
      <4>1. next[n] # n => next[n] \in D /\ rank[next[n]] < k
        BY <2>3
      <4> QED BY <4>1
    <3> HIDE DEF g
    <3> QED BY <3>1, <3>2
  <2> HIDE DEF g
  <2> QED BY <2>2, <2>3
<1>. HIDE DEF Good
<1>3. Good(top + 1)
  <2>1. ASSUME Bad # {} PROVE FALSE
    <3>1. PICK k \in Bad : \A j \in Bad : k <= j
      BY <2>1, NatMinimum
    <3>2. k # 0
      BY <1>1, <3>1
    <3>3. k - 1 \in Nat /\ k - 1 \notin Bad /\ (k - 1) + 1 = k
      BY <3>1, <3>2
    <3>4. Good(k - 1)
      BY <3>3
    <3>5. Good((k - 1) + 1)
      BY <1>2, <3>3, <3>4
    <3> QED BY <3>1, <3>3, <3>5
  <2> QED BY <2>1
<1>4. PICK f \in [D -> D] : \A n \in D : f[n] = Step(f, n)
  <2>1. PICK f \in [D -> D] : \A n \in D : rank[n] < top + 1 => f[n] = Step(f, n)
    BY <1>3 DEF Good
  <2>2. \A n \in D : rank[n] < top + 1
    OBVIOUS
  <2> QED BY <2>1, <2>2
<1>5. f = [n \in DOMAIN next |-> LET m == next[n] IN IF m = n THEN n ELSE f[m]]
  BY <1>4
<1> QED BY <1>5 DEF IsWalk

\* What holds on the way, and where the loop ends.
LEMMA Descent ==
  ASSUME NEW D, NEW next \in [D -> D], NEW top \in Nat, NEW rank \in [D -> 0 .. top],
         \A n \in D : next[n] = n \/ rank[next[n]] < rank[n],
         NEW I \in SUBSET D, \A n \in I : next[n] \in I, NEW from \in I
  PROVE  Descend(from, next) \in I /\ next[Descend(from, next)] = Descend(from, next)
<1>. DEFINE walk == CHOOSE w : w = [n \in DOMAIN next |->
                       LET m == next[n] IN IF m = n THEN n ELSE w[m]]
<1>1. \E w : w = [n \in DOMAIN next |-> LET m == next[n] IN IF m = n THEN n ELSE w[m]]
  BY WalkExists DEF IsWalk
<1>2. walk = [n \in DOMAIN next |-> LET m == next[n] IN IF m = n THEN n ELSE walk[m]]
  BY <1>1, Zenon
<1>3. Descend(from, next) = walk[from]
  BY DEF Descend
<1>. HIDE DEF walk
<1>. DEFINE Ends(n) == walk[n] \in I /\ next[walk[n]] = walk[n]
            Bad == {k \in 0 .. top : \E n \in I : rank[n] = k /\ ~Ends(n)}
<1>a. Bad \subseteq Nat
  OBVIOUS
<1>b. \A k \in Bad : \E n \in I : rank[n] = k /\ ~Ends(n)
  OBVIOUS
<1>c. \A n \in I : ~Ends(n) => rank[n] \in Bad
  OBVIOUS
<1>. HIDE DEF Bad
<1>4. ASSUME Bad # {} PROVE FALSE
  <2>1. PICK k \in Bad : \A j \in Bad : k <= j
    BY <1>4, <1>a, NatMinimum
  <2>2. PICK n \in I : rank[n] = k /\ ~Ends(n)
    BY <1>b, <2>1
  <2>3. n \in D /\ DOMAIN next = D /\ next[n] \in I
    OBVIOUS
  <2>4. walk[n] = IF next[n] = n THEN n ELSE walk[next[n]]
    BY <1>2, <2>3
  <2>5. next[n] # n
    BY <2>2, <2>3, <2>4
  <2>6. rank[next[n]] < k /\ rank[next[n]] \in 0 .. top
    BY <2>2, <2>3, <2>5
  <2>7. Ends(next[n])
    BY <1>a, <1>c, <2>1, <2>2, <2>3, <2>6
  <2> QED BY <2>2, <2>4, <2>5, <2>7
<1>5. Ends(from)
  BY <1>4, <1>c
<1> QED BY <1>3, <1>5

-----------------------------------------------------------------------------
(* pt_mask *)

\* How far from i the search can still go: the largest power of two in i.
Reach(i) ==
  IF i % 32 = 0 THEN 32 ELSE IF i % 16 = 0 THEN 16 ELSE IF i % 8 = 0 THEN 8
  ELSE IF i % 4 = 0 THEN 4 ELSE IF i % 2 = 0 THEN 2 ELSE 1

Halves(w, eq, neq) ==
  \A i \in 1 .. w - 1 :
    IF Reach(i) = 1
    THEN neq[i + 1] = 1 - i /\ eq[i + 1] = IF i = w - 1 THEN w ELSE -i
    ELSE /\ eq[i + 1] \in 1 .. w - 1 /\ neq[i + 1] \in 1 .. w - 1
         /\ 2 * (eq[i + 1] - i) = Reach(i) /\ 2 * Reach(eq[i + 1]) = Reach(i)
         /\ 2 * (i - neq[i + 1]) = Reach(i) /\ 2 * Reach(neq[i + 1]) = Reach(i)

\* The tables of the code, for each width of a word, are those of a dichotomy.
LEMMA Tables ==
  /\ Halves(WORDBITS, PT_EQ, PT_NEQ)
  /\ PT_EQ[WORDBITS + 1] = -WORDBITS /\ PT_NEQ[WORDBITS + 1] = 1 - WORDBITS
<1>1. CASE WORDBITS = 16
  BY <1>1 DEF PT_EQ, PT_NEQ, Halves, Reach
<1>2. CASE WORDBITS = 32
  BY <1>2 DEF PT_EQ, PT_NEQ, Halves, Reach
<1>3. CASE WORDBITS = 64
  BY <1>3 DEF PT_EQ, PT_NEQ, Halves, Reach
<1> QED BY <1>1, <1>2, <1>3, WordAssumption

\* The search ends at the number of leading bits that agree.
LEMMA SearchIsExact ==
  ASSUME NEW agree, NEW common \in Masks, \A i \in Masks : agree[i] <=> i <= common
  PROVE  MaskSearch(agree) = common
<1>. DEFINE D == -WORDBITS .. WORDBITS
            next == [i \in D |-> IF i <= 0 THEN i ELSE IF agree[i] THEN PT_EQ[i + 1] ELSE PT_NEQ[i + 1]]
            rank == [i \in D |-> IF i <= 0 THEN 0 ELSE IF i = WORDBITS THEN 1 ELSE 1 + Reach(i)]
            I == {i \in D :
                    IF i <= 0 THEN common = -i
                    ELSE IF i = WORDBITS THEN common >= i - 1
                    ELSE /\ i - Reach(i) <= common
                         /\ common < i + Reach(i) \/ i + Reach(i) = WORDBITS}
<1>1. WORDBITS \in {16, 32, 64}
  BY Units
<1>2. \A i \in Int : Reach(i) \in {1, 2, 4, 8, 16, 32}
  BY DEF Reach
<1>a. \A i \in D : next[i] = IF i <= 0 THEN i ELSE IF agree[i] THEN PT_EQ[i + 1] ELSE PT_NEQ[i + 1]
  OBVIOUS
<1>b. \A i \in D : rank[i] = IF i <= 0 THEN 0 ELSE IF i = WORDBITS THEN 1 ELSE 1 + Reach(i)
  OBVIOUS
<1>c. /\ DOMAIN next = D /\ DOMAIN rank = D /\ I \in SUBSET D
      /\ next = [i \in D |-> next[i]] /\ rank = [i \in D |-> rank[i]]
  OBVIOUS
<1>d. \A i \in D : i \in I <=>
         IF i <= 0 THEN common = -i
         ELSE IF i = WORDBITS THEN common >= i - 1
         ELSE /\ i - Reach(i) <= common
              /\ common < i + Reach(i) \/ i + Reach(i) = WORDBITS
  OBVIOUS
<1>7. MaskSearch(agree) = -Descend(WORDBITS \div 2, next)
  BY DEF MaskSearch
<1>. HIDE DEF next, rank, I
<1>3. ASSUME NEW i \in D
      PROVE  /\ next[i] \in D
             /\ next[i] = i \/ rank[next[i]] < rank[i]
             /\ i \in I => next[i] \in I
             /\ next[i] = i => i <= 0
  <2>1. CASE i <= 0
    BY <1>a, <2>1
  <2>2. CASE i = WORDBITS
    <3>1. i \in Masks /\ i > 0
      BY <1>1, <2>2 DEF Masks
    <3>2. next[i] = IF i <= common THEN -i ELSE 1 - i
      BY <1>1, <1>a, <2>2, <3>1, Tables
    <3>3. next[i] <= 0 /\ next[i] \in D
      BY <1>1, <2>2, <3>1, <3>2 DEF Masks
    <3> QED BY <1>1, <1>b, <1>d, <2>2, <3>1, <3>2, <3>3 DEF Masks
  <2>3. CASE i \in 1 .. WORDBITS - 1
    <3>1. i \in Masks /\ next[i] = IF i <= common THEN PT_EQ[i + 1] ELSE PT_NEQ[i + 1]
      BY <1>1, <1>a, <2>3 DEF Masks
    <3>2. CASE Reach(i) = 1
      <4>1. next[i] = IF i <= common THEN IF i = WORDBITS - 1 THEN WORDBITS ELSE -i ELSE 1 - i
        BY <2>3, <3>1, <3>2, Tables DEF Halves
      <4> QED BY <1>1, <1>b, <1>d, <2>3, <3>1, <3>2, <4>1 DEF Masks
    <3>3. CASE Reach(i) # 1
      <4>. DEFINE e == PT_EQ[i + 1]
                  n == PT_NEQ[i + 1]
      <4>1. /\ e \in 1 .. WORDBITS - 1 /\ n \in 1 .. WORDBITS - 1
            /\ 2 * (e - i) = Reach(i) /\ 2 * Reach(e) = Reach(i)
            /\ 2 * (i - n) = Reach(i) /\ 2 * Reach(n) = Reach(i)
        BY <2>3, <3>3, Tables DEF Halves
      <4>2. next[i] = IF i <= common THEN e ELSE n
        BY <3>1
      <4>. HIDE DEF e, n
      <4>3. next[i] \in 1 .. WORDBITS - 1 /\ 2 * Reach(next[i]) = Reach(i)
        BY <1>1, <1>2, <2>3, <3>3, <4>1, <4>2
      <4>. DEFINE j == next[i]
      <4>4. j \in D /\ j > 0 /\ j # WORDBITS /\ i > 0 /\ i # WORDBITS
        BY <1>1, <2>3, <4>3
      <4>5. rank[j] = 1 + Reach(j) /\ rank[i] = 1 + Reach(i)
        BY <1>1, <1>b, <4>4
      <4>6. Reach(i) \in Nat \ {0} /\ Reach(j) \in Nat \ {0}
        BY <1>1, <1>2, <4>4
      <4>7. ASSUME i \in I PROVE j \in I
        <5>1. i - Reach(i) <= common /\ (common < i + Reach(i) \/ i + Reach(i) = WORDBITS)
          BY <1>d, <2>3, <4>4, <4>7
        <5>2. j - Reach(j) <= common /\ (common < j + Reach(j) \/ j + Reach(j) = WORDBITS)
          <6>1. CASE i <= common
            BY <1>1, <2>3, <4>1, <4>2, <4>6, <5>1, <6>1 DEF Masks
          <6>2. CASE i > common
            BY <1>1, <2>3, <4>1, <4>2, <4>6, <5>1, <6>2 DEF Masks
          <6> QED BY <1>1, <2>3, <6>1, <6>2 DEF Masks
        <5>. HIDE DEF j
        <5> QED BY <1>d, <4>4, <5>2
      <4>8. rank[j] < rank[i]
        BY <4>3, <4>5, <4>6
      <4>9. j # i
        BY <4>3, <4>6
      <4> QED BY <4>4, <4>7, <4>8, <4>9
    <3> QED BY <3>2, <3>3
  <2> QED BY <1>1, <2>1, <2>2, <2>3
<1>4. WORDBITS \div 2 \in I
  <2>1. /\ WORDBITS = 16 => WORDBITS \div 2 = 8 /\ Reach(8) = 8
        /\ WORDBITS = 32 => WORDBITS \div 2 = 16 /\ Reach(16) = 16
        /\ WORDBITS = 64 => WORDBITS \div 2 = 32 /\ Reach(32) = 32
    BY DEF Reach
  <2> QED BY <1>1, <1>d, <2>1 DEF Masks
<1>5. next \in [D -> D] /\ rank \in [D -> 0 .. 33]
  <2>1. \A i \in D : next[i] \in D /\ rank[i] \in 0 .. 33
    BY <1>1, <1>2, <1>3, <1>b
  <2> QED BY <1>c, <2>1
<1>. HIDE DEF D
<1>8. Descend(WORDBITS \div 2, next) \in I /\ next[Descend(WORDBITS \div 2, next)] = Descend(WORDBITS \div 2, next)
  <2>1. /\ \A i \in D : next[i] = i \/ rank[next[i]] < rank[i]
        /\ \A i \in I : next[i] \in I
        /\ 33 \in Nat
    BY <1>3, <1>c
  <2>. DEFINE start == WORDBITS \div 2
  <2>2. start \in I /\ I \in SUBSET D
    BY <1>4, <1>c
  <2>. HIDE DEF start
  <2>3. Descend(start, next) \in I /\ next[Descend(start, next)] = Descend(start, next)
    BY <1>5, <2>1, <2>2, Descent
  <2> QED BY <2>3 DEF start
<1>9. ASSUME NEW i \in I, next[i] = i PROVE i <= 0 /\ common = -i /\ i \in Int
  <2>1. i \in D
    BY <1>c
  <2>2. i \in Int
    BY <1>1, <2>1 DEF D
  <2>. HIDE DEF next, rank, I
  <2>3. i <= 0
    BY <1>3, <1>9, <2>1, <2>2
  <2> QED BY <1>d, <1>9, <2>1, <2>2, <2>3
<1> QED BY <1>7, <1>8, <1>9 DEF Masks

\* The table of pt_mask gives the length of every common prefix.
THEOREM MaskTablesAreExact == MasksAreExact
<1>1. ASSUME NEW common \in 0 .. WORDBITS
      PROVE  MaskSearch([i \in 0 .. WORDBITS |-> i <= common]) = common
  <2>. DEFINE agree == [i \in 0 .. WORDBITS |-> i <= common]
  <2>1. \A i \in Masks : agree[i] <=> i <= common
    BY DEF Masks
  <2>. HIDE DEF agree
  <2>2. MaskSearch(agree) = common
    BY <2>1, SearchIsExact DEF Masks
  <2> QED BY <2>2 DEF agree
<1> QED BY <1>1 DEF MasksAreExact

\* Induction from 0 to a bound, on the elements of a set.
LEMMA CountUp ==
  ASSUME NEW S, NEW top \in Nat, 0 \in S, \A i \in Nat : i < top /\ i \in S => i + 1 \in S
  PROVE  \A i \in 0 .. top : i \in S
<1>. DEFINE Bad == {i \in 0 .. top : i \notin S}
<1>0. Bad \subseteq Nat
  OBVIOUS
<1>1. ASSUME Bad # {} PROVE FALSE
  <2>1. PICK k \in Bad : \A j \in Bad : k <= j
    BY <1>0, <1>1, NatMinimum, Zenon
  <2>2. k \in Nat /\ k # 0 /\ k <= top /\ k \notin S
    OBVIOUS
  <2>3. k - 1 \in Nat /\ k - 1 < top /\ k - 1 \notin Bad /\ (k - 1) + 1 = k
    BY <2>1, <2>2
  <2> QED BY <2>2, <2>3
<1> QED BY <1>1

\* pt_mask of two words is the number of leading bits they have in common.
LEMMA MaskOfWords ==
  ASSUME NEW a \in Word, NEW b \in Word
  PROVE  /\ pt_mask(a, b) \in Masks
         /\ \A i \in Masks : Agree(a, b, i) <=> i <= pt_mask(a, b)
<1>. DEFINE agree == [i \in 0 .. WORDBITS |-> Prefix(a, i) = Prefix(b, i)]
            Apart == {i \in Masks : ~Agree(a, b, i)}
<1>1. WORDBITS \in Nat /\ 0 \in Masks /\ WORDBITS \in Masks /\ Masks \subseteq Nat /\ Word \subseteq Nat
  BY Units DEF Masks, Word
<1>2. PICK common \in Masks : \A i \in Masks : Agree(a, b, i) <=> i <= common
  <2>1. CASE Apart = {}
    BY <1>1, <2>1 DEF Masks
  <2>2. CASE Apart # {}
    <3>1. PICK k \in Apart : \A j \in Apart : k <= j
      BY <1>1, <2>2, NatMinimum
    <3>2. k # 0 /\ k \in Masks
      BY <3>1, AgreeEnds
    <3>3. k - 1 \in Masks /\ k \in Nat
      BY <1>1, <3>2 DEF Masks
    <3>4. ASSUME NEW i \in Masks PROVE Agree(a, b, i) <=> i <= k - 1
      <4>1. Agree(a, b, i) => ~(k <= i)
        BY <1>1, <3>1, AgreeDown
      <4>2. ~Agree(a, b, i) => k <= i
        BY <3>1
      <4> QED BY <1>1, <3>3, <4>1, <4>2
    <3> QED BY <3>3, <3>4
  <2> QED BY <2>1, <2>2
<1>3. \A i \in Masks : agree[i] <=> i <= common
  BY <1>2 DEF Masks, Agree
<1>4. pt_mask(a, b) = MaskSearch(agree)
  BY DEF pt_mask
<1>. HIDE DEF agree
<1>5. pt_mask(a, b) = common
  BY <1>3, <1>4, SearchIsExact
<1> QED BY <1>2, <1>5

\* A prefix is an address.
LEMMA PrefixIsWord ==
  ASSUME NEW a \in Word, NEW m \in Masks
  PROVE  Prefix(a, m) \in Word
<1>1. a \in Nat /\ Unit(0) \in Nat
  BY Units DEF Word, Masks
<1>2. Prefix(a, m) \in Nat /\ Prefix(a, m) <= a
  BY <1>1, Prefixes
<1> QED BY <1>1, <1>2 DEF Word

\* The same of two prefixes: up to their masks it is that of the words.
LEMMA MaskOfPrefixes ==
  ASSUME NEW a \in Word, NEW m \in Masks, NEW b \in Word, NEW k \in Masks
  PROVE  /\ pt_mask(Prefix(a, m), Prefix(b, k)) \in Masks
         /\ \A i \in Masks : i <= m /\ i <= k =>
              (Agree(a, b, i) <=> i <= pt_mask(Prefix(a, m), Prefix(b, k)))
<1>1. Prefix(a, m) \in Word /\ Prefix(b, k) \in Word /\ Word \subseteq Nat
  BY PrefixIsWord DEF Word
<1>2. ASSUME NEW i \in Masks, i <= m, i <= k
      PROVE  Agree(Prefix(a, m), Prefix(b, k), i) <=> Agree(a, b, i)
  BY <1>1, <1>2, PrefixDown DEF Agree
<1> QED BY <1>1, <1>2, MaskOfWords

\* pt_mask, of a prefix of m bits: exact as far as the prefix goes.
LEMMA MaskOfPrefix ==
  ASSUME NEW a \in Word, NEW m \in Masks, NEW b \in Word
  PROVE  /\ pt_mask(Prefix(a, m), b) \in Masks
         /\ \A i \in Masks : i <= m => (Agree(a, b, i) <=> i <= pt_mask(Prefix(a, m), b))
<1>1. WORDBITS \in Masks /\ Prefix(b, WORDBITS) = b /\ WORDBITS \in Nat
  BY Units, AgreeEnds DEF Masks
<1>2. \A i \in Masks : i <= WORDBITS
  BY <1>1 DEF Masks
<1>3. /\ pt_mask(Prefix(a, m), Prefix(b, WORDBITS)) \in Masks
      /\ \A i \in Masks : i <= m /\ i <= WORDBITS =>
              (Agree(a, b, i) <=> i <= pt_mask(Prefix(a, m), Prefix(b, WORDBITS)))
  BY <1>1, MaskOfPrefixes, Zenon
<1> QED BY <1>1, <1>2, <1>3, Zenon

\* One bit of an address: nothing, or the unit of its place.
LEMMA BitIs ==
  ASSUME NEW a \in Word, NEW m \in Masks \ {0}
  PROVE  /\ Bit(a, m) \in Nat /\ Prefix(a, m) = Prefix(a, m - 1) + Bit(a, m)
         /\ Bit(a, m) = 0 \/ (Bit(a, m) = Unit(m) /\ Unit(m - 1) = 2 * Unit(m))
<1>1. /\ m - 1 \in Masks \ {WORDBITS} /\ m \in Masks /\ (m - 1) + 1 = m /\ a \in Nat
      /\ Unit(m) \in Nat \ {0}
  BY Units DEF Masks, Word
<1>2. /\ Prefix(a, m) \in {Prefix(a, m - 1), Prefix(a, m - 1) + Unit(m)}
      /\ Unit(m - 1) = Unit(m) => Prefix(a, m) = Prefix(a, m - 1)
      /\ Unit(m - 1) = Unit(m) \/ Unit(m - 1) = 2 * Unit(m)
  BY <1>1, NextPrefix, Units
<1>3. Prefix(a, m - 1) \in Nat /\ Prefix(a, m) \in Nat
  BY <1>1, Prefixes
<1> QED BY <1>1, <1>2, <1>3 DEF Bit

\* The conjunction of two words starts with the bits that they have in common.
LEMMA AndAgrees ==
  ASSUME NEW a \in Word, NEW b \in Word
  PROVE  /\ And(a, b) \in Word
         /\ \A m \in Masks : Agree(a, b, m) => Agree(And(a, b), a, m)
<1>. DEFINE low(m) == IF Bit(a, m) <= Bit(b, m) THEN Bit(a, m) ELSE Bit(b, m)
            both == CHOOSE f : f = [m \in 0 .. WORDBITS |-> IF m = 0 THEN 0 ELSE f[m - 1] + low(m)]
            Good(k) == \E f \in [0 .. WORDBITS -> Nat] :
                         f[0] = 0 /\ \A m \in 1 .. k : f[m] = f[m - 1] + low(m)
<1>1. WORDBITS \in Nat /\ Masks = 0 .. WORDBITS /\ Word \subseteq Nat
  BY Units DEF Masks, Word
<1>2. \A m \in Masks \ {0} :
        low(m) = 0 \/ (low(m) = Unit(m) /\ Unit(m - 1) = 2 * Unit(m))
  BY BitIs
<1>3. \A m \in Masks : Unit(m) \in Nat \ {0}
  BY Units
<1>4. \A m \in Masks \ {0} : low(m) \in Nat
  BY <1>2, <1>3
<1>5. \A m \in Masks \ {0} : Agree(a, b, m) => low(m) = Bit(a, m)
  <2>1. ASSUME NEW m \in Masks \ {0}, Agree(a, b, m) PROVE low(m) = Bit(a, m)
    <3>1. m - 1 \in Masks /\ m \in Masks /\ m - 1 <= m
      BY <1>1
    <3>2. Agree(a, b, m - 1)
      BY <1>1, <2>1, <3>1, AgreeDown
    <3>3. Bit(a, m) = Bit(b, m)
      BY <2>1, <3>2 DEF Bit, Agree
    <3> QED BY <3>3
  <2> QED BY <2>1
<1>. HIDE DEF low
<1>6. Good(WORDBITS)
  <2>. DEFINE S == {k \in 0 .. WORDBITS : Good(k)}
  <2>1. 0 \in S
    <3>1. [m \in 0 .. WORDBITS |-> 0] \in [0 .. WORDBITS -> Nat]
      OBVIOUS
    <3>2. [m \in 0 .. WORDBITS |-> 0][0] = 0
      BY <1>1
    <3>3. \A m \in 1 .. 0 : FALSE
      OBVIOUS
    <3>. DEFINE z == [m \in 0 .. WORDBITS |-> 0]
    <3>. HIDE DEF z
    <3>4. z \in [0 .. WORDBITS -> Nat] /\ z[0] = 0 /\ \A m \in 1 .. 0 : z[m] = z[m - 1] + low(m)
      BY <3>1, <3>2, <3>3 DEF z
    <3>5. Good(0)
      BY <3>4
    <3> QED BY <1>1, <3>5
  <2>2. ASSUME NEW k \in Nat, k < WORDBITS, k \in S PROVE k + 1 \in S
    <3>1. PICK f \in [0 .. WORDBITS -> Nat] : f[0] = 0 /\ \A m \in 1 .. k : f[m] = f[m - 1] + low(m)
      BY <2>2
    <3>. DEFINE g == [f EXCEPT ![k + 1] = f[k] + low(k + 1)]
    <3>2. k \in 0 .. WORDBITS /\ k + 1 \in Masks \ {0} /\ low(k + 1) \in Nat
      BY <1>1, <1>4, <2>2
    <3>3. f[k] \in Nat
      BY <3>2
    <3>a. f[k] + low(k + 1) \in Nat
      BY <3>2, <3>3
    <3>4. g \in [0 .. WORDBITS -> Nat]
      BY <3>a
    <3>5. g[k + 1] = f[k] + low(k + 1) /\ \A m \in 0 .. k : g[m] = f[m]
      BY <1>1, <3>2
    <3>. HIDE DEF g
    <3>6. ASSUME NEW m \in 1 .. k + 1 PROVE g[m] = g[m - 1] + low(m)
      <4>1. CASE m = k + 1
        BY <2>2, <3>5, <4>1
      <4>2. CASE m # k + 1
        <5>1. m \in 1 .. k /\ m \in 0 .. k /\ m - 1 \in 0 .. k
          BY <2>2, <4>2
        <5> QED BY <3>1, <3>5, <5>1
      <4> QED BY <4>1, <4>2
    <3>7. g[0] = 0
      BY <2>2, <3>1, <3>5
    <3>8. k + 1 \in 0 .. WORDBITS
      BY <1>1, <2>2
    <3> QED BY <3>4, <3>6, <3>7, <3>8
  <2>. HIDE DEF S
  <2>3. \A k \in 0 .. WORDBITS : k \in S
    BY <1>1, <2>1, <2>2, CountUp
  <2> QED BY <1>1, <2>3 DEF S
<1>7. /\ \A m \in Masks : both[m] \in Nat
      /\ both[0] = 0 /\ \A m \in Masks \ {0} : both[m] = both[m - 1] + low(m)
  <2>1. PICK f \in [0 .. WORDBITS -> Nat] :
               f[0] = 0 /\ \A m \in 1 .. WORDBITS : f[m] = f[m - 1] + low(m)
    BY <1>6
  <2>2. f = [m \in 0 .. WORDBITS |-> IF m = 0 THEN 0 ELSE f[m - 1] + low(m)]
    BY <1>1, <2>1
  <2>3. both = [m \in 0 .. WORDBITS |-> IF m = 0 THEN 0 ELSE both[m - 1] + low(m)]
    BY <2>2, Zenon
  <2>. HIDE DEF both
  <2>4. both[0] = 0 /\ \A m \in Masks \ {0} : both[m] = both[m - 1] + low(m)
    <3>1. \A m \in 0 .. WORDBITS : both[m] = IF m = 0 THEN 0 ELSE both[m - 1] + low(m)
      BY <2>3
    <3>2. 0 \in 0 .. WORDBITS
      BY <1>1
    <3>. HIDE DEF Good
    <3> QED BY <1>1, <3>1, <3>2
  <2>. DEFINE S == {k \in 0 .. WORDBITS : both[k] \in Nat}
  <2>5. 0 \in S
    BY <1>1, <2>4
  <2>6. ASSUME NEW k \in Nat, k < WORDBITS, k \in S PROVE k + 1 \in S
    <3>1. k + 1 \in Masks \ {0} /\ (k + 1) - 1 = k
      BY <1>1, <2>6
    <3> QED BY <1>1, <1>4, <2>4, <2>6, <3>1
  <2>. HIDE DEF S
  <2>7. \A k \in 0 .. WORDBITS : k \in S
    BY <1>1, <2>5, <2>6, CountUp
  <2> QED BY <1>1, <2>4, <2>7 DEF S
<1>8. And(a, b) = both[WORDBITS]
  BY DEF And, low
<1>. HIDE DEF both
\* Later bits do not reach those before.
<1>9. ASSUME NEW m \in Masks
      PROVE  both[m] <= both[WORDBITS] /\ both[WORDBITS] <= both[m] + Unit(m) - 1
  <2>. DEFINE S == {k \in Nat : m + k \in Masks =>
                      both[m] <= both[m + k] /\ both[m + k] <= both[m] + Unit(m) - Unit(m + k)}
  <2>1. 0 \in S
    <3>1. m + 0 = m /\ both[m] \in Nat /\ Unit(m) \in Nat
      BY <1>1, <1>3, <1>7
    <3> QED BY <3>1
  <2>2. ASSUME NEW k \in Nat, k < WORDBITS - m, k \in S PROVE k + 1 \in S
    <3>1. /\ m + k \in Masks /\ m + (k + 1) \in Masks \ {0} /\ (m + (k + 1)) - 1 = m + k
      BY <1>1, <2>2
    <3>2. both[m] <= both[m + k] /\ both[m + k] <= both[m] + Unit(m) - Unit(m + k)
      BY <2>2, <3>1
    <3>3. both[m + (k + 1)] = both[m + k] + low(m + (k + 1))
      BY <1>7, <3>1
    <3>4. \/ low(m + (k + 1)) = 0
          \/ low(m + (k + 1)) = Unit(m + (k + 1)) /\ Unit(m + k) = 2 * Unit(m + (k + 1))
      BY <1>2, <3>1
    <3>5. Unit(m + k) = Unit(m + (k + 1)) \/ Unit(m + k) = 2 * Unit(m + (k + 1))
      <4>1. m + k \in Masks \ {WORDBITS} /\ (m + k) + 1 = m + (k + 1)
        BY <1>1, <2>2
      <4> QED BY <4>1, Units
    <3>6. both[m] \in Nat /\ both[m + k] \in Nat /\ Unit(m) \in Nat /\ Unit(m + k) \in Nat
             /\ Unit(m + (k + 1)) \in Nat
      BY <1>3, <1>7, <3>1
    <3>7. /\ both[m] <= both[m + (k + 1)]
          /\ both[m + (k + 1)] <= both[m] + Unit(m) - Unit(m + (k + 1))
      BY <3>2, <3>3, <3>4, <3>5, <3>6
    <3> QED BY <3>7
  <2>. HIDE DEF S
  <2>3. WORDBITS - m \in Nat /\ WORDBITS - m \in 0 .. WORDBITS - m /\ m + (WORDBITS - m) = WORDBITS
    BY <1>1
  <2>4. WORDBITS - m \in S
    BY <2>1, <2>2, <2>3, CountUp
  <2>5. WORDBITS \in Masks /\ Unit(WORDBITS) = 1
    BY <1>1, Units
  <2> QED BY <2>3, <2>4, <2>5 DEF S
\* As long as the words agree, the bits are theirs.
<1>10. \A m \in Masks : Agree(a, b, m) => both[m] = Prefix(a, m)
  <2>. DEFINE S == {k \in 0 .. WORDBITS : Agree(a, b, k) => both[k] = Prefix(a, k)}
  <2>1. 0 \in S
    <3>1. Prefix(a, 0) = 0
      <4>1. 0 \in Masks /\ a \in Nat /\ a < Unit(0) /\ Unit(0) \in Nat
        BY <1>1, <1>3 DEF Word
      <4>2. a % Unit(0) = a
        BY <4>1
      <4> QED BY <4>1, <4>2 DEF Prefix
    <3> QED BY <1>1, <1>7, <3>1
  <2>2. ASSUME NEW k \in Nat, k < WORDBITS, k \in S PROVE k + 1 \in S
    <3>1. k + 1 \in Masks \ {0} /\ k + 1 \in Masks /\ k \in Masks /\ (k + 1) - 1 = k /\ k <= k + 1
      BY <1>1, <2>2
    <3>2. ASSUME Agree(a, b, k + 1) PROVE both[k + 1] = Prefix(a, k + 1)
      <4>1. Agree(a, b, k)
        BY <1>1, <3>1, <3>2, AgreeDown
      <4>2. both[k] = Prefix(a, k)
        BY <2>2, <4>1
      <4>3. low(k + 1) = Bit(a, k + 1)
        BY <1>5, <3>1, <3>2
      <4>4. both[k + 1] = both[k] + low(k + 1) /\ Prefix(a, k + 1) = Prefix(a, k) + Bit(a, k + 1)
        BY <1>7, <3>1, BitIs
      <4> QED BY <4>2, <4>3, <4>4
    <3> QED BY <1>1, <3>1, <3>2
  <2>. HIDE DEF S
  <2>3. \A k \in 0 .. WORDBITS : k \in S
    BY <1>1, <2>1, <2>2, CountUp
  <2> QED BY <1>1, <2>3 DEF S
<1>11. And(a, b) \in Word
  <2>1. 0 \in Masks /\ WORDBITS \in Masks
    BY <1>1
  <2>2. both[WORDBITS] \in Nat /\ both[WORDBITS] <= Unit(0) - 1 /\ Unit(0) \in Nat
    BY <1>3, <1>7, <1>9, <2>1
  <2> QED BY <1>8, <2>2 DEF Word
<1>12. ASSUME NEW m \in Masks, Agree(a, b, m) PROVE Agree(And(a, b), a, m)
  <2>1. both[m] = Prefix(a, m) /\ both[m] \in Nat /\ Unit(m) \in Nat \ {0}
    BY <1>3, <1>7, <1>10, <1>12
  <2>2. PICK q \in Nat : Prefix(a, m) = Unit(m) * q
    BY <1>1, Prefixes
  <2>a. both[m] <= both[WORDBITS] /\ both[WORDBITS] <= both[m] + Unit(m) - 1
    BY <1>9
  <2>b. And(a, b) \in Nat /\ both[m] = Unit(m) * q
    BY <1>1, <1>11, <2>1, <2>2
  <2>3. And(a, b) \in Nat /\ Unit(m) * q <= And(a, b) /\ And(a, b) < Unit(m) * q + Unit(m)
    <3>. DEFINE x == Unit(m) * q
    <3>. HIDE DEF x
    <3>1. both[m] = x
      BY <2>b DEF x
    <3>2. x <= And(a, b) /\ And(a, b) < x + Unit(m)
      BY <1>8, <2>1, <2>a, <2>b, <3>1
    <3> QED BY <2>b, <3>2 DEF x
  <2>4. Prefix(And(a, b), m) = Unit(m) * q
    BY <2>3, Prefixes
  <2> QED BY <2>2, <2>4 DEF Agree
<1> QED BY <1>11, <1>12

-----------------------------------------------------------------------------
(* Tries *)

\* m has the prefix of n: it is n or one of its descendants.
Under(t, n, m) ==
  /\ t.node[n].mask <= t.node[m].mask
  /\ Agree(t.node[m].addr, t.node[n].addr, t.node[n].mask)

Inner(t) == {n \in DOMAIN t.node : t.node[n].leaf = NULL}
LeafNodes(t) == {n \in DOMAIN t.node : t.node[n].leaf # NULL}

\* What is in the trie: the addresses of its leaves, and their data.
Entries(t) == {<<t.node[n].addr, t.node[n].leaf>> : n \in LeafNodes(t)}

Node == [addr : Word, mask : Masks, leaf : Nat, left : Nat, right : Nat, parent : Nat]

Typed(t) ==
  /\ t = [root |-> t.root, node |-> t.node]
  /\ t.root \in Nat
  /\ DOMAIN t.node \subseteq Nat \ {0}
  /\ IsFiniteSet(DOMAIN t.node)
  /\ t.node \in [DOMAIN t.node -> Node]

Rooted(t) ==
  /\ t.root = NULL <=> DOMAIN t.node = {}
  /\ t.root # NULL => t.root \in DOMAIN t.node /\ t.node[t.root].parent = NULL
  /\ \A m \in DOMAIN t.node : Under(t, t.root, m)

Branch(t, n) ==
  LET nd == t.node[n]
      l == t.node[nd.left]
      r == t.node[nd.right]
  IN  /\ nd.left \in DOMAIN t.node /\ nd.right \in DOMAIN t.node
      /\ l.parent = n /\ r.parent = n
      /\ nd.mask < l.mask /\ nd.mask < r.mask
      /\ Agree(l.addr, nd.addr, nd.mask) /\ Agree(r.addr, nd.addr, nd.mask)
      /\ Prefix(l.addr, nd.mask + 1) < Prefix(r.addr, nd.mask + 1)

Child(t, n, k) == k = t.node[n].left \/ k = t.node[n].right

Hung(t, n) ==
  n # t.root => t.node[n].parent \in Inner(t) /\ Child(t, t.node[n].parent, n)

Covered(t, n) ==
  \A m \in DOMAIN t.node :
    m # n /\ Under(t, n, m) => Under(t, t.node[n].left, m) \/ Under(t, t.node[n].right, m)

Distinct(t) ==
  \A n, m \in DOMAIN t.node : Under(t, n, m) /\ Under(t, m, n) => n = m

\* The inductive invariant of the operations: nodes are ordered by their
\* prefixes, and those under a node are under one of its children.
TrieInv(t) ==
  /\ Typed(t)
  /\ Rooted(t)
  /\ \A n \in LeafNodes(t) : t.node[n].mask = WORDBITS
  /\ \A n \in Inner(t) : Branch(t, n)
  /\ \A n \in DOMAIN t.node : Hung(t, n)
  /\ \A n \in Inner(t) : Covered(t, n)
  /\ Distinct(t)

\* The fields of a node of a trie have their types.
LEMMA NodeFields ==
  ASSUME NEW t, TrieInv(t), NEW n \in DOMAIN t.node
  PROVE  /\ t.node[n] \in Node
         /\ t.node[n].addr \in Word /\ t.node[n].addr \in Nat
         /\ t.node[n].mask \in Masks /\ t.node[n].mask \in Nat
         /\ t.node[n].leaf \in Nat /\ t.node[n].left \in Nat /\ t.node[n].right \in Nat
         /\ t.node[n].parent \in Nat
         /\ n \in Nat \ {0}
<1>1. t.node[n] \in Node /\ n \in Nat \ {0}
  BY DEF TrieInv, Typed
<1>2. Word \subseteq Nat /\ Masks \subseteq Nat
  BY DEF Word, Masks
<1> QED BY <1>1, <1>2 DEF Node

\* A node is under itself.
LEMMA UnderItself ==
  ASSUME NEW t, TrieInv(t), NEW n \in DOMAIN t.node
  PROVE  Under(t, n, n)
  BY NodeFields DEF Under, Agree

\* What is under a node under n is under n.
LEMMA UnderUnder ==
  ASSUME NEW t, TrieInv(t), NEW n \in DOMAIN t.node, NEW m \in DOMAIN t.node,
         NEW k \in DOMAIN t.node, Under(t, n, m), Under(t, m, k)
  PROVE  Under(t, n, k)
<1>1. Agree(t.node[k].addr, t.node[m].addr, t.node[n].mask)
  BY NodeFields, AgreeDown DEF Under
<1> QED BY <1>1, NodeFields DEF Under, Agree

\* Of two nodes with a node under both, the one with the longer mask is under the other.
LEMMA UnderBoth ==
  ASSUME NEW t, TrieInv(t), NEW n \in DOMAIN t.node, NEW m \in DOMAIN t.node,
         NEW k \in DOMAIN t.node, Under(t, n, k), Under(t, m, k),
         t.node[n].mask <= t.node[m].mask
  PROVE  Under(t, n, m)
<1>1. Agree(t.node[k].addr, t.node[m].addr, t.node[n].mask)
  BY NodeFields, AgreeDown DEF Under
<1> QED BY <1>1 DEF Under, Agree

\* Nothing is under a leaf.
LEMMA LeafIsLast ==
  ASSUME NEW t, TrieInv(t), NEW n \in LeafNodes(t), NEW m \in DOMAIN t.node, Under(t, n, m)
  PROVE  m = n
<1>1. n \in DOMAIN t.node /\ t.node[n].mask = WORDBITS
  BY DEF LeafNodes, TrieInv
<1>2. t.node[m].mask = WORDBITS
  BY <1>1, NodeFields DEF Under, Masks
<1>3. Under(t, m, n)
  BY <1>1, <1>2 DEF Under, Agree
<1> QED BY <1>1, <1>3 DEF TrieInv, Distinct

\* The two children of an inner node, whichever is which.
LEMMA Children ==
  ASSUME NEW t, TrieInv(t), NEW n \in Inner(t)
  PROVE  LET l == t.node[n].left
             r == t.node[n].right
         IN /\ n \in DOMAIN t.node /\ l \in DOMAIN t.node /\ r \in DOMAIN t.node
            /\ t.node[l].parent = n /\ t.node[r].parent = n
            /\ t.node[n].mask \in Masks \ {WORDBITS} /\ t.node[n].mask + 1 \in Masks
            /\ t.node[n].mask + 1 <= t.node[l].mask /\ t.node[n].mask + 1 <= t.node[r].mask
            /\ Agree(t.node[l].addr, t.node[n].addr, t.node[n].mask)
            /\ Agree(t.node[r].addr, t.node[n].addr, t.node[n].mask)
            /\ ~Agree(t.node[l].addr, t.node[r].addr, t.node[n].mask + 1)
            /\ Under(t, n, l) /\ Under(t, n, r) /\ l # r /\ l # n /\ r # n
            /\ n # l /\ l # NULL /\ r # NULL /\ n # NULL
<1>. DEFINE l == t.node[n].left
            r == t.node[n].right
<1>1. Branch(t, n) /\ n \in DOMAIN t.node
  BY DEF TrieInv, Inner
<1>2. l \in DOMAIN t.node /\ r \in DOMAIN t.node
  BY <1>1 DEF Branch
<1>3. /\ t.node[n].mask \in Masks /\ t.node[l].mask \in Masks /\ t.node[r].mask \in Masks
      /\ l # NULL /\ r # NULL /\ n # NULL /\ WORDBITS \in Nat
      /\ t.node[l].addr \in Nat /\ t.node[r].addr \in Nat
  BY <1>1, <1>2, NodeFields, Units DEF NULL
<1>4. /\ t.node[l].parent = n /\ t.node[r].parent = n
      /\ t.node[n].mask < t.node[l].mask /\ t.node[n].mask < t.node[r].mask
      /\ Agree(t.node[l].addr, t.node[n].addr, t.node[n].mask)
      /\ Agree(t.node[r].addr, t.node[n].addr, t.node[n].mask)
      /\ Prefix(t.node[l].addr, t.node[n].mask + 1) < Prefix(t.node[r].addr, t.node[n].mask + 1)
  BY <1>1 DEF Branch
<1>. HIDE DEF l, r
<1>5. /\ t.node[n].mask \in Masks \ {WORDBITS} /\ t.node[n].mask + 1 \in Masks
      /\ t.node[n].mask + 1 <= t.node[l].mask /\ t.node[n].mask + 1 <= t.node[r].mask
  BY <1>3, <1>4 DEF Masks
<1>6. Prefix(t.node[l].addr, t.node[n].mask + 1) # Prefix(t.node[r].addr, t.node[n].mask + 1)
  <2>1. Prefix(t.node[l].addr, t.node[n].mask + 1) \in Nat
    BY <1>3, <1>5, Prefixes
  <2> QED BY <1>4, <2>1
<1>7. l # r /\ l # n /\ r # n
  BY <1>3, <1>4, <1>6 DEF Masks
<1>8. Under(t, n, l) /\ Under(t, n, r)
  BY <1>3, <1>4 DEF Under, Masks
<1> QED BY <1>1, <1>2, <1>3, <1>4, <1>5, <1>6, <1>7, <1>8 DEF l, r, Agree

\* Of two words that agree up to k, the one that has more in common with x
\* agrees with it after k, too.
LEMMA MoreInCommon ==
  ASSUME NEW a \in Word, NEW b \in Word, NEW x \in Word, NEW k \in Masks,
         NEW i \in Masks, NEW j \in Masks, k + 1 \in Masks, k + 1 <= i, k + 1 <= j,
         Agree(a, b, k), pt_mask(Prefix(a, i), x) > pt_mask(Prefix(b, j), x)
  PROVE  Agree(a, x, k + 1)
<1>. DEFINE ca == pt_mask(Prefix(a, i), x)
            cb == pt_mask(Prefix(b, j), x)
<1>1. /\ ca \in Masks /\ \A m \in Masks : m <= i => (Agree(a, x, m) <=> m <= ca)
      /\ cb \in Masks /\ \A m \in Masks : m <= j => (Agree(b, x, m) <=> m <= cb)
  BY MaskOfPrefix
<1>2. ca > cb
  OBVIOUS
<1>3. Masks \subseteq Nat /\ a \in Nat /\ b \in Nat /\ x \in Nat
  BY DEF Masks, Word
<1>. HIDE DEF ca, cb
<1>4. CASE ca <= k
  <2>1. Agree(a, x, ca) /\ Agree(a, b, ca)
    BY <1>1, <1>3, <1>4, AgreeDown
  <2>2. Agree(b, x, ca)
    BY <2>1 DEF Agree
  <2>3. ca <= cb
    BY <1>1, <1>3, <1>4, <2>2
  <2> QED BY <1>1, <1>2, <1>3, <2>3
<1>5. CASE ~(ca <= k)
  <2>1. k + 1 <= ca
    BY <1>1, <1>3, <1>5
  <2> QED BY <1>1, <2>1
<1> QED BY <1>4, <1>5

\* When they have as much in common with x, it leaves them before they part.
LEMMA AsMuchInCommon ==
  ASSUME NEW a \in Word, NEW b \in Word, NEW x \in Word, NEW k \in Masks \ {WORDBITS},
         NEW i \in Masks, NEW j \in Masks, k + 1 \in Masks, k + 1 <= i, k + 1 <= j,
         Agree(a, b, k), ~Agree(a, b, k + 1),
         pt_mask(Prefix(a, i), x) = pt_mask(Prefix(b, j), x)
  PROVE  ~Agree(a, x, k)
<1>. DEFINE ca == pt_mask(Prefix(a, i), x)
<1>1. /\ ca \in Masks /\ \A m \in Masks : m <= i => (Agree(a, x, m) <=> m <= ca)
      /\ \A m \in Masks : m <= j => (Agree(b, x, m) <=> m <= ca)
  BY MaskOfPrefix
<1>3. a \in Nat /\ b \in Nat /\ x \in Nat
  BY DEF Word
<1>. HIDE DEF ca
<1>4. ASSUME Agree(a, x, k) PROVE FALSE
  <2>1. Agree(b, a, k) /\ Agree(b, x, k)
    BY <1>4 DEF Agree
  <2>2. Agree(b, a, k + 1) \/ Agree(a, x, k + 1) \/ Agree(b, x, k + 1)
    BY <1>3, <1>4, <2>1, AgreeThird
  <2>3. Agree(a, x, k + 1) /\ Agree(b, x, k + 1)
    BY <1>1, <2>2 DEF Agree
  <2> QED BY <2>3 DEF Agree
<1> QED BY <1>4

Matched(t, n, x) == Agree(x, t.node[n].addr, t.node[n].mask)

NoLeafAt(t, x) == \A n \in LeafNodes(t) : t.node[n].addr # x

\* Where the search of pt_insert stops: at a node that ptr does not match,
\* the child that it would follow of one that it does.
Slot(t, s, ptr) ==
  /\ s \in DOMAIN t.node /\ ~Matched(t, s, ptr)
  /\ s # t.root => Agree(ptr, t.node[s].addr, t.node[t.node[s].parent].mask + 1)

\* pt_most_similar_node goes down to the place of the new leaf.
LEMMA SlotFound ==
  ASSUME NEW t, TrieInv(t), t.root # NULL, NEW ptr \in Word, NoLeafAt(t, ptr)
  PROVE  Slot(t, pt_most_similar_node(t, ptr), ptr)
<1>. DEFINE D == DOMAIN t.node
            common(child) == pt_mask(NodePrefix(t.node, child), ptr)
            next == [n \in DOMAIN t.node |->
                 LET nd == t.node[n] IN
                 CASE nd.leaf # NULL -> n
                   [] nd.leaf = NULL /\ common(nd.left) > common(nd.right) -> nd.left
                   [] nd.leaf = NULL /\ common(nd.left) < common(nd.right) -> nd.right
                   [] OTHER -> n]
            rank == [n \in D |-> WORDBITS - t.node[n].mask]
            I == {n \in D : n # t.root => Agree(ptr, t.node[n].addr, t.node[t.node[n].parent].mask + 1)}
<1>1. pt_most_similar_node(t, ptr) = Descend(t.root, next)
  BY DEF pt_most_similar_node
<1>2. /\ DOMAIN next = D /\ next = [n \in D |-> next[n]]
      /\ \A n \in LeafNodes(t) : next[n] = n
      /\ \A n \in Inner(t) :
           \/ next[n] = t.node[n].left /\ common(t.node[n].left) > common(t.node[n].right)
           \/ next[n] = t.node[n].right /\ common(t.node[n].left) < common(t.node[n].right)
           \/ /\ next[n] = n
              /\ ~(common(t.node[n].left) > common(t.node[n].right))
              /\ ~(common(t.node[n].left) < common(t.node[n].right))
  BY DEF LeafNodes, Inner
<1>3. /\ \A n \in D : rank[n] = WORDBITS - t.node[n].mask
      /\ rank = [n \in D |-> rank[n]]
      /\ D = LeafNodes(t) \cup Inner(t)
      /\ \A n \in I : n \in D /\ (n # t.root => Agree(ptr, t.node[n].addr, t.node[t.node[n].parent].mask + 1))
      /\ \A n \in D : (n # t.root => Agree(ptr, t.node[n].addr, t.node[t.node[n].parent].mask + 1)) => n \in I
      /\ I \in SUBSET D
  BY DEF LeafNodes, Inner
<1>. HIDE DEF next, rank, I
<1>4. WORDBITS \in Nat
  BY Units
<1>5. ASSUME NEW n \in Inner(t)
      PROVE  LET l == t.node[n].left
                 r == t.node[n].right
                 k == t.node[n].mask
             IN /\ common(l) > common(r) => Agree(ptr, t.node[l].addr, k + 1)
                /\ common(l) < common(r) => Agree(ptr, t.node[r].addr, k + 1)
                /\ ~(common(l) > common(r)) /\ ~(common(l) < common(r)) => ~Matched(t, n, ptr)
  <2>. DEFINE l == t.node[n].left
              r == t.node[n].right
              k == t.node[n].mask
              a == t.node[l].addr
              b == t.node[r].addr
  <2>1. /\ l \in DOMAIN t.node /\ r \in DOMAIN t.node /\ n \in DOMAIN t.node
        /\ k \in Masks \ {WORDBITS} /\ k + 1 \in Masks
        /\ k + 1 <= t.node[l].mask /\ k + 1 <= t.node[r].mask
        /\ Agree(a, t.node[n].addr, k) /\ Agree(b, t.node[n].addr, k) /\ ~Agree(a, b, k + 1)
    BY Children
  <2>2. /\ a \in Word /\ b \in Word /\ t.node[l].mask \in Masks /\ t.node[r].mask \in Masks
        /\ Agree(a, b, k) /\ Agree(b, a, k)
    BY <2>1, NodeFields DEF Agree
  <2>3. common(l) = pt_mask(Prefix(a, t.node[l].mask), ptr) /\ common(r) = pt_mask(Prefix(b, t.node[r].mask), ptr)
    BY DEF NodePrefix
  <2>4. common(l) \in Nat /\ common(r) \in Nat
    <3>1. common(l) \in Masks /\ common(r) \in Masks
      BY <2>2, <2>3, MaskOfPrefix
    <3>2. Masks \subseteq Nat
      BY DEF Masks
    <3> QED BY <3>1, <3>2
  <2>. HIDE DEF l, r, k, a, b, common
  <2>5. common(l) > common(r) => Agree(a, ptr, k + 1)
    BY <2>1, <2>2, <2>3, MoreInCommon
  <2>6. common(r) > common(l) => Agree(b, ptr, k + 1)
    BY <2>1, <2>2, <2>3, MoreInCommon
  <2>7. common(r) = common(l) => ~Agree(a, ptr, k)
    BY <2>1, <2>2, <2>3, AsMuchInCommon
  <2>8. ~(common(l) > common(r)) /\ ~(common(l) < common(r)) => common(r) = common(l)
    BY <2>4
  <2>9. common(l) < common(r) => common(r) > common(l)
    BY <2>4
  <2>10. Matched(t, n, ptr) => Agree(a, ptr, k)
    BY <2>1 DEF Matched, Agree, k
  <2> QED BY <2>5, <2>6, <2>7, <2>8, <2>9, <2>10, Zenon DEF l, r, k, a, b, Agree
<1>. HIDE DEF common
<1>6. ASSUME NEW n \in D
      PROVE  /\ next[n] \in D
             /\ next[n] = n \/ rank[next[n]] < rank[n]
             /\ n \in I => next[n] \in I
             /\ next[n] = n => ~Matched(t, n, ptr)
  <2>1. CASE n \in LeafNodes(t)
    <3>1. next[n] = n
      BY <1>2, <2>1
    <3>2. ~Matched(t, n, ptr)
      <4>1. t.node[n].mask = WORDBITS /\ t.node[n].addr # ptr
        BY <2>1 DEF TrieInv, NoLeafAt
      <4>2. t.node[n].addr \in Word
        BY NodeFields
      <4> QED BY <4>1, <4>2, AgreeEnds DEF Matched
    <3> QED BY <3>1, <3>2
  <2>2. CASE n \in Inner(t)
    <3>. DEFINE l == t.node[n].left
                r == t.node[n].right
    <3>1. /\ l \in D /\ r \in D /\ l # n /\ r # n /\ l \in DOMAIN t.node /\ r \in DOMAIN t.node
          /\ t.node[l].parent = n /\ t.node[r].parent = n
          /\ t.node[n].mask + 1 <= t.node[l].mask /\ t.node[n].mask + 1 <= t.node[r].mask
      BY <2>2, Children
    <3>a. t.node[n].mask \in Nat /\ t.node[l].mask \in Nat /\ t.node[r].mask \in Nat
      BY <3>1, NodeFields
    <3>b. /\ rank[l] = WORDBITS - t.node[l].mask /\ rank[r] = WORDBITS - t.node[r].mask
          /\ rank[n] = WORDBITS - t.node[n].mask
      BY <1>3, <3>1
    <3>2. rank[l] < rank[n] /\ rank[r] < rank[n]
      BY <1>4, <3>1, <3>a, <3>b
    <3>. HIDE DEF D
    <3>3. \/ next[n] = l /\ Agree(ptr, t.node[l].addr, t.node[n].mask + 1)
          \/ next[n] = r /\ Agree(ptr, t.node[r].addr, t.node[n].mask + 1)
          \/ next[n] = n /\ ~Matched(t, n, ptr)
      BY <1>2, <1>5, <2>2, Zenon
    <3>. HIDE DEF l, r
    <3>4. Agree(ptr, t.node[l].addr, t.node[n].mask + 1) => l \in I
      BY <1>3, <3>1
    <3>5. Agree(ptr, t.node[r].addr, t.node[n].mask + 1) => r \in I
      BY <1>3, <3>1
    <3> QED BY <3>1, <3>2, <3>3, <3>4, <3>5, Zenon
  <2> QED BY <1>3, <2>1, <2>2
<1>7. next \in [D -> D] /\ rank \in [D -> 0 .. WORDBITS]
  <2>a. \A n \in D : t.node[n].mask \in Masks
    BY NodeFields
  <2>1. ASSUME NEW n \in D PROVE rank[n] \in 0 .. WORDBITS
    <3>1. rank[n] = WORDBITS - t.node[n].mask /\ t.node[n].mask \in 0 .. WORDBITS
      BY <1>3, <2>a DEF Masks
    <3> QED BY <1>4, <3>1
  <2> QED BY <1>2, <1>3, <1>6, <2>1
<1>8. t.root \in I /\ I \in SUBSET D
  <2>1. t.root \in D
    BY DEF TrieInv, Rooted
  <2> QED BY <1>3, <2>1
<1>. HIDE DEF D
<1>9. Descend(t.root, next) \in I /\ next[Descend(t.root, next)] = Descend(t.root, next)
  <2>1. \A n \in D : next[n] = n \/ rank[next[n]] < rank[n]
    BY <1>6
  <2>2. \A n \in I : next[n] \in I
    BY <1>6, <1>8
  <2>. DEFINE start == t.root
  <2>3. start \in I
    BY <1>8
  <2>. HIDE DEF start
  <2>4. Descend(start, next) \in I /\ next[Descend(start, next)] = Descend(start, next)
    BY <1>4, <1>7, <1>8, <2>1, <2>2, <2>3, Descent
  <2> QED BY <2>4 DEF start
<1> QED BY <1>1, <1>3, <1>6, <1>8, <1>9 DEF Slot, D

SiblingOf(t, n) ==
  LET p == t.node[n].parent IN
  IF t.node[p].left = n THEN t.node[p].right ELSE t.node[p].left

\* A node that is not the root, its parent p and its sibling o.
LEMMA Siblings ==
  ASSUME NEW t, TrieInv(t), NEW s \in DOMAIN t.node, s # t.root
  PROVE  LET p == t.node[s].parent
             o == SiblingOf(t, s)
         IN /\ p \in Inner(t) /\ p \in DOMAIN t.node /\ o \in DOMAIN t.node
            /\ t.node[o].parent = p /\ o # t.root /\ SiblingOf(t, o) = s
            /\ (t.node[p].left = s /\ t.node[p].right = o) \/ (t.node[p].left = o /\ t.node[p].right = s)
            /\ t.node[p].mask \in Masks \ {WORDBITS} /\ t.node[p].mask + 1 \in Masks
            /\ t.node[p].mask + 1 <= t.node[s].mask /\ t.node[p].mask + 1 <= t.node[o].mask
            /\ Agree(t.node[s].addr, t.node[p].addr, t.node[p].mask)
            /\ Agree(t.node[o].addr, t.node[p].addr, t.node[p].mask)
            /\ ~Agree(t.node[s].addr, t.node[o].addr, t.node[p].mask + 1)
            /\ Under(t, p, s) /\ Under(t, p, o)
            /\ s # o /\ s # p /\ o # p /\ p # NULL /\ s # NULL /\ o # NULL
            /\ \A m \in DOMAIN t.node : m # p /\ Under(t, p, m) => Under(t, s, m) \/ Under(t, o, m)
<1>. DEFINE p == t.node[s].parent
            o == SiblingOf(t, s)
<1>1. p \in Inner(t) /\ Child(t, p, s)
  BY DEF TrieInv, Hung
<1>2. (t.node[p].left = s /\ t.node[p].right = o) \/ (t.node[p].left = o /\ t.node[p].right = s)
  BY <1>1 DEF Child, SiblingOf
<1>3. Covered(t, p)
  BY <1>1 DEF TrieInv
<1>4. t.root # NULL => t.node[t.root].parent = NULL
  BY DEF TrieInv, Rooted
<1>5. t.root # NULL
  BY DEF TrieInv, Rooted
<1>. HIDE DEF o
<1>6. \A m \in DOMAIN t.node : m # p /\ Under(t, p, m) => Under(t, s, m) \/ Under(t, o, m)
  BY <1>2, <1>3 DEF Covered
<1>. HIDE DEF p
<1>7. /\ p \in DOMAIN t.node /\ o \in DOMAIN t.node /\ t.node[o].parent = p
      /\ t.node[p].mask \in Masks \ {WORDBITS} /\ t.node[p].mask + 1 \in Masks
      /\ t.node[p].mask + 1 <= t.node[s].mask /\ t.node[p].mask + 1 <= t.node[o].mask
      /\ Agree(t.node[s].addr, t.node[p].addr, t.node[p].mask)
      /\ Agree(t.node[o].addr, t.node[p].addr, t.node[p].mask)
      /\ Under(t, p, s) /\ Under(t, p, o)
      /\ s # o /\ s # p /\ o # p /\ p # NULL /\ s # NULL /\ o # NULL
  BY <1>1, <1>2, Children
<1>8. ~Agree(t.node[s].addr, t.node[o].addr, t.node[p].mask + 1)
  BY <1>1, <1>2, Children DEF Agree
<1>9. SiblingOf(t, o) = s
  BY <1>2, <1>7 DEF SiblingOf
<1>10. o # t.root
  BY <1>4, <1>5, <1>7
<1> QED BY <1>1, <1>2, <1>6, <1>7, <1>8, <1>9, <1>10 DEF p, o

\* A word that agrees with s after their parent's mask cannot be under the sibling.
LEMMA OnThisSide ==
  ASSUME NEW t, TrieInv(t), NEW s \in DOMAIN t.node, s # t.root, NEW m \in DOMAIN t.node,
         LET k == t.node[t.node[s].parent].mask
         IN  k + 1 <= t.node[m].mask /\ Agree(t.node[m].addr, t.node[s].addr, k + 1)
  PROVE  Under(t, s, m) /\ m # t.node[s].parent
<1>. DEFINE p == t.node[s].parent
            o == SiblingOf(t, s)
            k == t.node[p].mask
<1>1. /\ p \in DOMAIN t.node /\ o \in DOMAIN t.node /\ k \in Masks /\ k + 1 \in Masks
      /\ k + 1 <= t.node[o].mask /\ Agree(t.node[s].addr, t.node[p].addr, k)
      /\ ~Agree(t.node[s].addr, t.node[o].addr, k + 1)
      /\ \A n \in DOMAIN t.node : n # p /\ Under(t, p, n) => Under(t, s, n) \/ Under(t, o, n)
  BY Siblings
<1>2. k + 1 <= t.node[m].mask /\ Agree(t.node[m].addr, t.node[s].addr, k + 1)
  OBVIOUS
<1>3. /\ t.node[m].addr \in Nat /\ t.node[s].addr \in Nat /\ t.node[o].addr \in Nat
      /\ t.node[m].mask \in Nat /\ t.node[o].mask \in Masks /\ k \in Nat /\ t.node[o].mask \in Nat
  BY <1>1, NodeFields
<1>. HIDE DEF o, k
<1>4. Agree(t.node[m].addr, t.node[s].addr, k)
  BY <1>1, <1>2, <1>3, AgreeDown
<1>5. k <= t.node[m].mask /\ Agree(t.node[m].addr, t.node[p].addr, k)
  BY <1>1, <1>2, <1>3, <1>4 DEF Agree
<1>6. Under(t, p, m)
  BY <1>5 DEF Under, k
<1>7. m # p
  BY <1>2, <1>3 DEF k
<1>8. ASSUME Under(t, o, m) PROVE FALSE
  <2>1. Agree(t.node[m].addr, t.node[o].addr, t.node[o].mask)
    BY <1>8 DEF Under
  <2>2. Agree(t.node[m].addr, t.node[o].addr, k + 1)
    BY <1>1, <1>3, <2>1, AgreeDown
  <2> QED BY <1>1, <1>2, <2>2 DEF Agree
<1> QED BY <1>1, <1>6, <1>7, <1>8

\* The nodes above that place are those whose prefix ptr has.
LEMMA SlotOrder ==
  ASSUME NEW t, TrieInv(t), NEW ptr \in Word, NEW s, Slot(t, s, ptr)
  PROVE  /\ \A n \in DOMAIN t.node : Matched(t, n, ptr) => n # s /\ Under(t, n, s)
         /\ \A n \in DOMAIN t.node : Under(t, n, s) /\ n # s => Matched(t, n, ptr)
         /\ \A n \in DOMAIN t.node, c \in Masks :
              /\ c <= t.node[n].mask /\ Agree(t.node[n].addr, ptr, c) /\ Agree(t.node[s].addr, ptr, c)
              /\ s # t.root => t.node[t.node[s].parent].mask < c
              => Under(t, s, n)
<1>. DEFINE q == t.node[s].parent
            k == t.node[q].mask
<1>1. s \in DOMAIN t.node /\ ~Matched(t, s, ptr) /\ ptr \in Nat
      /\ (s # t.root => Agree(ptr, t.node[s].addr, k + 1))
  BY DEF Slot, Word
<1>2. \A m \in DOMAIN t.node : Under(t, t.root, m)
  BY DEF TrieInv, Rooted
<1>3. s # t.root => q \in DOMAIN t.node /\ k \in Masks /\ k + 1 \in Masks /\ k \in Nat /\ Under(t, q, s)
                    /\ k + 1 <= t.node[s].mask /\ Matched(t, q, ptr)
  <2>1. ASSUME s # t.root
        PROVE  /\ q \in DOMAIN t.node /\ k \in Masks /\ k + 1 \in Masks /\ k \in Nat /\ Under(t, q, s)
               /\ k + 1 <= t.node[s].mask /\ Agree(t.node[s].addr, t.node[q].addr, k)
    BY <1>1, <2>1, Siblings, NodeFields
  <2>2. ASSUME s # t.root PROVE Agree(ptr, t.node[s].addr, k)
    <3>1. t.node[s].addr \in Nat
      BY <1>1, NodeFields
    <3>2. Agree(ptr, t.node[s].addr, k + 1)
      BY <1>1, <2>2
    <3>. HIDE DEF k
    <3>3. k \in Masks /\ k + 1 \in Masks /\ k <= k + 1
      BY <2>1, <2>2
    <3> QED BY <1>1, <3>1, <3>2, <3>3, AgreeDown
  <2> QED BY <2>1, <2>2 DEF Matched, Agree
<1>. HIDE DEF q, k
<1>4. ASSUME NEW n \in DOMAIN t.node, Matched(t, n, ptr) PROVE n # s /\ Under(t, n, s)
  <2>1. n # s
    BY <1>1, <1>4
  <2>2. /\ t.node[n].mask \in Masks /\ t.node[n].mask \in Nat /\ t.node[n].addr \in Nat
        /\ t.node[s].mask \in Masks /\ t.node[s].mask \in Nat /\ t.node[s].addr \in Nat
    BY <1>1, NodeFields
  \* s is not above n: it would be matched.
  <2>3. ~Under(t, s, n)
    <3>1. ASSUME Under(t, s, n) PROVE FALSE
      <4>1. /\ t.node[s].mask <= t.node[n].mask
            /\ Agree(t.node[n].addr, t.node[s].addr, t.node[s].mask)
        BY <3>1 DEF Under
      <4>2. Agree(ptr, t.node[n].addr, t.node[s].mask)
        BY <1>1, <1>4, <2>2, <4>1, AgreeDown DEF Matched
      <4> QED BY <1>1, <4>1, <4>2 DEF Matched, Agree
    <3> QED BY <3>1
  <2>4. s # t.root
    BY <1>2, <2>3
  <2>5. CASE t.node[n].mask <= k
    <3>1. t.node[n].mask <= k + 1 /\ t.node[n].mask <= t.node[s].mask
      BY <1>3, <2>2, <2>4, <2>5
    <3>2. Agree(ptr, t.node[s].addr, t.node[n].mask)
      BY <1>1, <1>3, <2>2, <2>4, <3>1, AgreeDown
    <3> QED BY <1>4, <2>1, <3>1, <3>2 DEF Under, Matched, Agree
  <2>6. CASE ~(t.node[n].mask <= k)
    <3>1. k + 1 <= t.node[n].mask
      BY <1>3, <2>2, <2>4, <2>6
    <3>2. Agree(ptr, t.node[n].addr, k + 1)
      BY <1>1, <1>3, <1>4, <2>2, <2>4, <3>1, AgreeDown DEF Matched
    <3>3. Agree(t.node[n].addr, t.node[s].addr, k + 1)
      BY <1>1, <2>4, <3>2 DEF Agree
    <3>4. Under(t, s, n)
      BY <1>1, <2>4, <3>1, <3>3, OnThisSide DEF k, q
    <3> QED BY <2>3, <3>4
  <2> QED BY <2>5, <2>6
<1>5. ASSUME NEW n \in DOMAIN t.node, Under(t, n, s), n # s PROVE Matched(t, n, ptr)
  <2>1. /\ t.node[n].mask \in Masks /\ t.node[n].mask \in Nat /\ t.node[n].addr \in Nat
        /\ t.node[s].mask \in Masks /\ t.node[s].mask \in Nat /\ t.node[s].addr \in Nat
    BY <1>1, NodeFields
  <2>2. ~Under(t, s, n)
    BY <1>1, <1>5 DEF TrieInv, Distinct
  <2>3. s # t.root
    BY <1>2, <2>2
  <2>4. Agree(t.node[s].addr, t.node[n].addr, t.node[n].mask)
    BY <1>5 DEF Under
  <2>5. CASE t.node[n].mask <= k
    <3>1. t.node[n].mask <= k + 1
      BY <1>3, <2>1, <2>3, <2>5
    <3>2. Agree(ptr, t.node[s].addr, t.node[n].mask)
      BY <1>1, <1>3, <2>1, <2>3, <3>1, AgreeDown
    <3> QED BY <2>4, <3>2 DEF Matched, Agree
  <2>6. CASE ~(t.node[n].mask <= k)
    <3>1. k + 1 <= t.node[n].mask
      BY <1>3, <2>1, <2>3, <2>6
    <3>2. Agree(t.node[s].addr, t.node[n].addr, k + 1)
      BY <1>1, <1>3, <2>1, <2>3, <2>4, <3>1, AgreeDown
    <3>3. Agree(t.node[n].addr, t.node[s].addr, k + 1)
      BY <3>2 DEF Agree
    <3>4. Under(t, s, n)
      BY <1>1, <2>3, <3>1, <3>3, OnThisSide DEF k, q
    <3> QED BY <2>2, <3>4
  <2> QED BY <2>5, <2>6
<1>6. ASSUME NEW n \in DOMAIN t.node, NEW c \in Masks,
             c <= t.node[n].mask, Agree(t.node[n].addr, ptr, c), Agree(t.node[s].addr, ptr, c),
             s # t.root => k < c
      PROVE  Under(t, s, n)
  <2>1. CASE s = t.root
    BY <1>2, <2>1
  <2>2. CASE s # t.root
    <3>1. /\ t.node[n].mask \in Nat /\ t.node[n].addr \in Nat /\ t.node[s].addr \in Nat /\ c \in Nat
      BY <1>1, NodeFields DEF Masks
    <3>2. Agree(t.node[n].addr, t.node[s].addr, c)
      BY <1>6 DEF Agree
    <3>3. k + 1 \in Masks /\ k + 1 <= c /\ k + 1 <= t.node[n].mask
      BY <1>3, <1>6, <2>2, <3>1
    <3>4. Agree(t.node[n].addr, t.node[s].addr, k + 1)
      BY <3>1, <3>2, <3>3, AgreeDown
    <3> QED BY <1>1, <2>2, <3>3, <3>4, OnThisSide DEF k, q
  <2> QED BY <2>1, <2>2
<1> QED BY <1>4, <1>5, <1>6 DEF k, q

\* pt_mask of two prefixes that go on past the place where they differ.
LEMMA MaskAtFork ==
  ASSUME NEW a \in Word, NEW b \in Word, NEW i \in Masks, NEW j \in Masks,
         NEW k \in Masks, k + 1 \in Masks, k + 1 <= i, k + 1 <= j, Agree(a, b, k), ~Agree(a, b, k + 1)
  PROVE  pt_mask(Prefix(a, i), Prefix(b, j)) = k
<1>. DEFINE c == pt_mask(Prefix(a, i), Prefix(b, j))
<1>1. c \in Masks /\ \A m \in Masks : m <= i /\ m <= j => (Agree(a, b, m) <=> m <= c)
  BY MaskOfPrefixes
<1>2. k \in Nat /\ i \in Nat /\ j \in Nat /\ k <= i /\ k <= j
  BY DEF Masks
<1>3. c \in Nat
  BY <1>1 DEF Masks
<1>. HIDE DEF c
<1>4. k <= c /\ ~(k + 1 <= c)
  BY <1>1, <1>2
<1> QED BY <1>2, <1>3, <1>4 DEF c

\* The mask of an inner node is what the code computes from its children.
LEMMA MaskOfChildren ==
  ASSUME NEW t, TrieInv(t), NEW n \in Inner(t)
  PROVE  ChildrenMask(t.node, n) = t.node[n].mask
<1>. DEFINE l == t.node[n].left
            r == t.node[n].right
            k == t.node[n].mask
<1>1. /\ l \in DOMAIN t.node /\ r \in DOMAIN t.node /\ k \in Masks /\ k + 1 \in Masks
      /\ k + 1 <= t.node[l].mask /\ k + 1 <= t.node[r].mask
      /\ Agree(t.node[l].addr, t.node[r].addr, k)
      /\ ~Agree(t.node[l].addr, t.node[r].addr, k + 1)
  BY Children DEF Agree
<1>2. /\ t.node[l].addr \in Word /\ t.node[r].addr \in Word
      /\ t.node[l].mask \in Masks /\ t.node[r].mask \in Masks
  BY <1>1, NodeFields
<1>3. ChildrenMask(t.node, n) =
        pt_mask(Prefix(t.node[l].addr, t.node[l].mask), Prefix(t.node[r].addr, t.node[r].mask))
  BY DEF ChildrenMask, NodePrefix
<1>. HIDE DEF l, r, k
<1> QED BY <1>1, <1>2, <1>3, MaskAtFork DEF k

\* An allocation gives a node that is not in use.
LEMMA FreshIsNew ==
  ASSUME NEW U, U \subseteq Nat \ {0}, IsFiniteSet(U)
  PROVE  Fresh(U) \in Nat \ {0} /\ Fresh(U) \notin U
<1>. DEFINE c == Cardinality(U)
<1>1. c \in Nat
  BY FS_CardinalityType
<1>2. IsFiniteSet(1 .. c + 1) /\ Cardinality(1 .. c + 1) = c + 1
  <2>1. 1 \in Int /\ c + 1 \in Int /\ ~(1 > c + 1) /\ (c + 1) - 1 + 1 = c + 1
    BY <1>1
  <2>. HIDE DEF c
  <2> QED BY <2>1, FS_Interval
<1>3. ~(1 .. c + 1 \subseteq U)
  <2>1. ASSUME 1 .. c + 1 \subseteq U PROVE FALSE
    <3>1. Cardinality(1 .. c + 1) <= c
      BY <2>1, FS_Subset
    <3> QED BY <1>1, <1>2, <3>1
  <2> QED BY <2>1
<1>4. \E i \in 1 .. Cardinality(U) + 1 : i \notin U
  BY <1>3
<1>5. Fresh(U) \in 1 .. Cardinality(U) + 1 /\ Fresh(U) \notin U
  BY <1>4, Zenon DEF Fresh
<1> QED BY <1>1, <1>5

\* What pt_insert does to a trie that is not empty: s gets the new node p as its
\* parent, whose other child is the new leaf.
Inserted(t, u, leaf, ptr, s, new, p) ==
  LET c == pt_mask(NodePrefix(t.node, s), ptr)
      first == ptr <= t.node[s].addr
  IN
  /\ new \in Nat \ {0} /\ new \notin DOMAIN t.node
  /\ p \in Nat \ {0} /\ p \notin DOMAIN t.node /\ p # new
  /\ DOMAIN u.node = DOMAIN t.node \cup {new, p}
  /\ u = [root |-> u.root, node |-> u.node] /\ u.node = [n \in DOMAIN u.node |-> u.node[n]]
  /\ u.root = IF s = t.root THEN p ELSE t.root
  /\ u.node[new] = [addr |-> ptr, mask |-> WORDBITS, leaf |-> leaf,
                    left |-> NULL, right |-> NULL, parent |-> p]
  /\ u.node[p] = [addr |-> And(t.node[s].addr, ptr), leaf |-> NULL, mask |-> c,
                  left |-> IF first THEN new ELSE s, right |-> IF first THEN s ELSE new,
                  parent |-> t.node[s].parent]
  /\ \A n \in DOMAIN t.node :
       /\ u.node[n] \in Node
       /\ u.node[n].addr = t.node[n].addr /\ u.node[n].mask = t.node[n].mask
       /\ u.node[n].leaf = t.node[n].leaf
       /\ u.node[n].parent = IF n = s THEN p ELSE t.node[n].parent
       /\ u.node[n].left = IF n \in Inner(t) /\ t.node[n].left = s THEN p ELSE t.node[n].left
       /\ u.node[n].right = IF n \in Inner(t) /\ t.node[n].right = s THEN p ELSE t.node[n].right

\* pt_insert, as the code: two nodes more, one link that changes, the mask of the sibling.
LEMMA InsertDoes ==
  ASSUME NEW t, TrieInv(t), t.root # NULL, NEW ptr \in Word, NEW leaf \in Nat,
         Slot(t, pt_most_similar_node(t, ptr), ptr)
  PROVE  \E new, p : Inserted(t, pt_insert(t, leaf, ptr), leaf, ptr, pt_most_similar_node(t, ptr), new, p)
<1>. DEFINE s == pt_most_similar_node(t, ptr)
            new == Fresh(DOMAIN t.node)
            p == Fresh(DOMAIN t.node \cup {new})
            u == pt_insert(t, leaf, ptr)
            first == ptr <= t.node[s].addr
            c == pt_mask(NodePrefix(t.node, s), ptr)
            parent == [addr |-> And(t.node[s].addr, ptr), leaf |-> NULL, mask |-> c,
                  left |-> IF first THEN new ELSE s, right |-> IF first THEN s ELSE new,
                  parent |-> t.node[s].parent]
            sibling == [t.node[s] EXCEPT !.parent = p,
                             !.mask = IF t.node[s].leaf # NULL THEN @
                                      ELSE ChildrenMask(t.node, s)]
            leafNode == [addr |-> ptr, mask |-> WORDBITS, leaf |-> leaf,
                       left |-> NULL, right |-> NULL, parent |-> p]
            linked == Redirect(t.node, t.node[s].parent, s, p)
            placed == [linked EXCEPT ![s] = sibling]
<1>1. s \in DOMAIN t.node
  BY DEF Slot
<1>2. new \in Nat \ {0} /\ new \notin DOMAIN t.node
  BY FreshIsNew DEF TrieInv, Typed
<1>3. p \in Nat \ {0} /\ p \notin DOMAIN t.node /\ p # new
  <2>1. IsFiniteSet(DOMAIN t.node \cup {new}) /\ DOMAIN t.node \cup {new} \subseteq Nat \ {0}
    BY <1>2, FS_AddElement DEF TrieInv, Typed
  <2>. HIDE DEF new
  <2> QED BY <2>1, FreshIsNew
<1>4. u = [root |-> IF s = t.root THEN p ELSE t.root,
           node |-> With(With(placed, new, leafNode), p, parent)]
  BY DEF pt_insert
<1>5. /\ t.node[s] \in Node /\ t.node = [n \in DOMAIN t.node |-> t.node[n]]
      /\ \A n \in DOMAIN t.node : t.node[n] \in Node
  BY <1>1 DEF TrieInv, Typed
<1>6. sibling = [t.node[s] EXCEPT !.parent = p]
  <2>1. t.node[s].leaf = NULL => ChildrenMask(t.node, s) = t.node[s].mask
    BY <1>1, MaskOfChildren DEF Inner
  <2> QED BY <1>5, <2>1 DEF Node
<1>. HIDE DEF s, new, p, parent, sibling, leafNode, c, first
<1>7. /\ DOMAIN linked = DOMAIN t.node
      /\ \A n \in DOMAIN t.node :
           linked[n] = [t.node[n] EXCEPT !.left = IF n \in Inner(t) /\ @ = s THEN p ELSE @,
                                         !.right = IF n \in Inner(t) /\ @ = s THEN p ELSE @]
  <2>1. CASE s = t.root
    <3>1. t.node[s].parent = NULL /\ NULL \notin DOMAIN t.node
      BY <2>1 DEF TrieInv, Rooted, Typed, NULL
    <3>2. linked = t.node
      BY <3>1 DEF Redirect
    <3>3. \A n \in Inner(t) : n \in DOMAIN t.node /\ t.node[n].left # s /\ t.node[n].right # s
      BY <3>1, Children
    <3> QED BY <1>5, <3>2, <3>3 DEF Node
  <2>2. CASE s # t.root
    <3>. DEFINE q == t.node[s].parent
    <3>1. /\ q # NULL /\ q \in DOMAIN t.node /\ q \in Inner(t)
          /\ t.node[q].left # t.node[q].right
          /\ t.node[q].left = s \/ t.node[q].right = s
      BY <1>1, <2>2, Siblings
    <3>2. \A n \in Inner(t) : n # q => t.node[n].left # s /\ t.node[n].right # s
      BY Children
    <3>3. linked = IF t.node[q].left = s THEN [t.node EXCEPT ![q].left = p]
                   ELSE [t.node EXCEPT ![q].right = p]
      BY <3>1 DEF Redirect
    <3>. HIDE DEF q, linked
    <3>4. DOMAIN linked = DOMAIN t.node
      BY <1>5, <3>3
    <3>5. ASSUME NEW n \in DOMAIN t.node
          PROVE  linked[n] = [t.node[n] EXCEPT !.left = IF n \in Inner(t) /\ @ = s THEN p ELSE @,
                                         !.right = IF n \in Inner(t) /\ @ = s THEN p ELSE @]
      <4>1. t.node[n] \in Node
        BY <1>5
      <4>2. CASE n = q
        BY <1>5, <3>1, <3>3, <4>1, <4>2 DEF Node
      <4>3. CASE n # q
        BY <1>5, <3>1, <3>2, <3>3, <4>1, <4>3 DEF Node
      <4> QED BY <4>2, <4>3
    <3> QED BY <3>4, <3>5
  <2> QED BY <2>1, <2>2
<1>. HIDE DEF linked
<1>8. DOMAIN placed = DOMAIN t.node
  BY <1>7
<1>9. \A n \in DOMAIN t.node : placed[n] = IF n = s THEN sibling ELSE linked[n]
  BY <1>7
<1>10. linked[s] = t.node[s]
  <2>1. s \in Inner(t) => t.node[s].left # s /\ t.node[s].right # s
    BY Children
  <2>. HIDE DEF placed, u
  <2>2. linked[s] = [t.node[s] EXCEPT !.left = @, !.right = @]
    BY <1>1, <1>7, <2>1
  <2> QED BY <1>5, <2>2 DEF Node
<1>. HIDE DEF placed
<1>11. u.node = With(With(placed, new, leafNode), p, parent) /\ u.root = IF s = t.root THEN p ELSE t.root
  BY <1>4
<1>12. /\ DOMAIN u.node = DOMAIN t.node \cup {new, p}
       /\ u.node[p] = parent /\ u.node[new] = leafNode
       /\ \A n \in DOMAIN t.node : u.node[n] = placed[n]
       /\ u.node = [n \in DOMAIN u.node |-> u.node[n]]
  BY <1>2, <1>3, <1>8, <1>11 DEF With
<1>13. ASSUME NEW n \in DOMAIN t.node
       PROVE  u.node[n] = [t.node[n] EXCEPT
                !.parent = IF n = s THEN p ELSE @,
                !.left = IF n \in Inner(t) /\ @ = s THEN p ELSE @,
                !.right = IF n \in Inner(t) /\ @ = s THEN p ELSE @]
  <2>0. t.node[n] \in Node /\ u.node[n] = placed[n]
    BY <1>5, <1>12
  <2>1. CASE n = s
    <3>1. u.node[s] = [t.node[s] EXCEPT !.parent = p]
      BY <1>6, <1>9, <2>0, <2>1
    <3>2. s \in Inner(t) => t.node[s].left # s /\ t.node[s].right # s
      BY Children
    <3>. HIDE DEF u
    <3> QED BY <1>5, <2>1, <3>1, <3>2 DEF Node
  <2>2. CASE n # s
    <3>1. u.node[n] = linked[n]
      BY <1>9, <2>0, <2>2
    <3>2. [t.node[n] EXCEPT !.parent = IF n = s THEN p ELSE @] = t.node[n]
      BY <2>0, <2>2 DEF Node
    <3>. HIDE DEF u
    <3> QED BY <1>7, <3>1, <3>2
  <2> QED BY <2>1, <2>2
<1>14. u = [root |-> u.root, node |-> u.node]
  BY <1>4
<1>. HIDE DEF u
<1>16. ASSUME NEW n \in DOMAIN t.node
       PROVE  /\ u.node[n] \in Node
              /\ u.node[n].addr = t.node[n].addr /\ u.node[n].mask = t.node[n].mask
              /\ u.node[n].leaf = t.node[n].leaf
              /\ u.node[n].parent = IF n = s THEN p ELSE t.node[n].parent
              /\ u.node[n].left = IF n \in Inner(t) /\ t.node[n].left = s THEN p ELSE t.node[n].left
              /\ u.node[n].right = IF n \in Inner(t) /\ t.node[n].right = s THEN p ELSE t.node[n].right
  <2>. DEFINE x == t.node[n]
              y == u.node[n]
              lft == n \in Inner(t) /\ x.left = s
              rgt == n \in Inner(t) /\ x.right = s
  <2>1. y = [x EXCEPT !.parent = IF n = s THEN p ELSE @,
                      !.left = IF lft THEN p ELSE @,
                      !.right = IF rgt THEN p ELSE @]
    BY <1>13
  <2>2. x \in Node /\ p \in Nat
    BY <1>3, <1>5
  <2>. HIDE DEF x, y, lft, rgt
  <2>3. /\ y \in Node /\ y.addr = x.addr /\ y.mask = x.mask /\ y.leaf = x.leaf
        /\ y.parent = (IF n = s THEN p ELSE x.parent)
        /\ y.left = (IF lft THEN p ELSE x.left) /\ y.right = (IF rgt THEN p ELSE x.right)
    BY <2>1, <2>2 DEF Node
  <2> QED BY <2>3 DEF x, y, lft, rgt
<1>15. Inserted(t, u, leaf, ptr, s, new, p)
  BY <1>2, <1>3, <1>11, <1>12, <1>14, <1>16, Zenon DEF Inserted, leafNode, parent, c, first
<1> QED BY <1>15 DEF u, s

\* The mask of the new node, between those of its parent and of s.
LEMMA ForkMask ==
  ASSUME NEW t, TrieInv(t), NEW ptr \in Word, NEW s, Slot(t, s, ptr)
  PROVE  LET c == pt_mask(NodePrefix(t.node, s), ptr)
             a == And(t.node[s].addr, ptr)
         IN /\ c \in Masks /\ c \in Nat /\ c + 1 \in Masks /\ c + 1 <= t.node[s].mask /\ c < WORDBITS
            /\ Agree(t.node[s].addr, ptr, c) /\ ~Agree(t.node[s].addr, ptr, c + 1)
            /\ \A i \in Masks : i <= t.node[s].mask /\ Agree(t.node[s].addr, ptr, i) => i <= c
            /\ s # t.root => t.node[t.node[s].parent].mask + 1 <= c
            /\ a \in Word /\ Agree(a, t.node[s].addr, c) /\ Agree(a, ptr, c)
<1>. DEFINE c == pt_mask(NodePrefix(t.node, s), ptr)
            a == And(t.node[s].addr, ptr)
            k == t.node[t.node[s].parent].mask
<1>1. s \in DOMAIN t.node /\ ~Matched(t, s, ptr) /\ (s # t.root => Agree(ptr, t.node[s].addr, k + 1))
  BY DEF Slot
<1>2. t.node[s].addr \in Word /\ t.node[s].mask \in Masks /\ t.node[s].mask \in Nat
  BY <1>1, NodeFields
<1>3. c \in Masks /\ \A i \in Masks : i <= t.node[s].mask => (Agree(t.node[s].addr, ptr, i) <=> i <= c)
  BY <1>2, MaskOfPrefix DEF NodePrefix
<1>4. c \in Nat /\ WORDBITS \in Nat /\ t.node[s].mask <= WORDBITS
  BY <1>2, <1>3, Units DEF Masks
<1>5. ~(t.node[s].mask <= c)
  BY <1>1, <1>2, <1>3 DEF Matched, Agree
<1>. HIDE DEF c
<1>6. c + 1 \in Masks /\ c + 1 <= t.node[s].mask /\ c < WORDBITS
  BY <1>2, <1>4, <1>5 DEF Masks
<1>7. Agree(t.node[s].addr, ptr, c) /\ ~Agree(t.node[s].addr, ptr, c + 1)
  BY <1>2, <1>3, <1>4, <1>6
<1>8. ASSUME s # t.root PROVE k + 1 <= c
  <2>1. k + 1 \in Masks /\ k + 1 <= t.node[s].mask
    BY <1>1, <1>8, Siblings
  <2>2. Agree(t.node[s].addr, ptr, k + 1)
    BY <1>1, <1>8 DEF Agree
  <2> QED BY <1>3, <2>1, <2>2
<1>9. a \in Word /\ Agree(a, t.node[s].addr, c) /\ Agree(a, ptr, c)
  BY <1>2, <1>3, <1>7, AndAgrees DEF Agree
<1> QED BY <1>3, <1>4, <1>6, <1>7, <1>8, <1>9 DEF c

\* These changes keep the invariant, and add one entry.
LEMMA InsertionKeeps ==
  ASSUME NEW t, TrieInv(t), t.root # NULL, NEW ptr \in Word, NEW leaf \in Nat \ {0},
         NoLeafAt(t, ptr), NEW s, Slot(t, s, ptr),
         NEW u, NEW new, NEW p, Inserted(t, u, leaf, ptr, s, new, p)
  PROVE  TrieInv(u) /\ Entries(u) = Entries(t) \cup {<<ptr, leaf>>}
<1>. DEFINE D == DOMAIN t.node
            c == pt_mask(NodePrefix(t.node, s), ptr)
            a == And(t.node[s].addr, ptr)
            q == t.node[s].parent
            first == ptr <= t.node[s].addr
<1>1. /\ c \in Masks /\ c \in Nat /\ c + 1 \in Masks /\ c + 1 <= t.node[s].mask /\ c < WORDBITS
      /\ Agree(t.node[s].addr, ptr, c) /\ ~Agree(t.node[s].addr, ptr, c + 1)
      /\ \A i \in Masks : i <= t.node[s].mask /\ Agree(t.node[s].addr, ptr, i) => i <= c
      /\ s # t.root => t.node[q].mask + 1 <= c
      /\ a \in Word /\ Agree(a, t.node[s].addr, c) /\ Agree(a, ptr, c)
  BY ForkMask
<1>2. /\ new \in Nat \ {0} /\ new \notin D /\ p \in Nat \ {0} /\ p \notin D /\ p # new
      /\ DOMAIN u.node = D \cup {new, p}
      /\ u = [root |-> u.root, node |-> u.node] /\ u.node = [n \in DOMAIN u.node |-> u.node[n]]
      /\ u.root = IF s = t.root THEN p ELSE t.root
      /\ u.node[new] = [addr |-> ptr, mask |-> WORDBITS, leaf |-> leaf,
                        left |-> NULL, right |-> NULL, parent |-> p]
      /\ u.node[p] = [addr |-> a, leaf |-> NULL, mask |-> c,
                      left |-> IF first THEN new ELSE s, right |-> IF first THEN s ELSE new,
                      parent |-> q]
  BY Zenon DEF Inserted
<1>6. ASSUME NEW n \in D
      PROVE  /\ u.node[n].addr = t.node[n].addr /\ u.node[n].mask = t.node[n].mask
             /\ u.node[n].leaf = t.node[n].leaf
             /\ u.node[n].parent = IF n = s THEN p ELSE t.node[n].parent
             /\ u.node[n] \in Node
             /\ n \in Inner(t) =>
                  /\ u.node[n].left = IF t.node[n].left = s THEN p ELSE t.node[n].left
                  /\ u.node[n].right = IF t.node[n].right = s THEN p ELSE t.node[n].right
  BY DEF Inserted
<1>3. /\ s \in D /\ ~Matched(t, s, ptr) /\ ptr \in Nat /\ a \in Nat /\ WORDBITS \in Nat
      /\ WORDBITS \in Masks /\ leaf # NULL /\ leaf \in Nat /\ Masks \subseteq Nat
      /\ s # new /\ s # p
  <2>1. WORDBITS \in Nat /\ WORDBITS \in Masks /\ Masks \subseteq Nat
    BY Units DEF Masks
  <2>2. ptr \in Nat /\ a \in Nat /\ leaf # NULL /\ leaf \in Nat
    BY <1>1 DEF Word, NULL
  <2> QED BY <1>2, <2>1, <2>2 DEF Slot
<1>. HIDE DEF c, a, q, first, D
<1>4. /\ u.node[new].addr = ptr /\ u.node[new].mask = WORDBITS /\ u.node[new].leaf = leaf
      /\ u.node[new].parent = p /\ u.node[new] \in Node
  BY <1>2, <1>3 DEF Node, NULL
<1>5. /\ u.node[p].addr = a /\ u.node[p].mask = c /\ u.node[p].leaf = NULL
      /\ u.node[p].parent = q /\ u.node[p] \in Node
      /\ (u.node[p].left = new /\ u.node[p].right = s /\ first)
         \/ (u.node[p].left = s /\ u.node[p].right = new /\ ~first)
  <2>1. q \in Nat /\ s \in Nat /\ NULL \in Nat
    BY <1>3, NodeFields DEF D, q, NULL
  <2>2. CASE first
    BY <1>1, <1>2, <2>1, <2>2 DEF Node
  <2>3. CASE ~first
    BY <1>1, <1>2, <2>1, <2>3 DEF Node
  <2> QED BY <2>2, <2>3
<1>7. Inner(u) = Inner(t) \cup {p} /\ LeafNodes(u) = LeafNodes(t) \cup {new}
  BY <1>2, <1>3, <1>4, <1>5, <1>6 DEF Inner, LeafNodes, D
<1>8. \A n, m \in D : Under(u, n, m) <=> Under(t, n, m)
  BY <1>6 DEF Under
<1>9. \A n \in D : /\ t.node[n].addr \in Nat /\ t.node[n].mask \in Masks /\ t.node[n].mask \in Nat
  BY NodeFields DEF D
<1>10. \A m \in D : m # s /\ Under(t, m, s) => Matched(t, m, ptr) /\ t.node[m].mask <= c
  <2>1. ASSUME NEW m \in D, m # s, Under(t, m, s) PROVE Matched(t, m, ptr) /\ t.node[m].mask <= c
    <3>1. Matched(t, m, ptr)
      BY <2>1, SlotOrder DEF D
    <3>2. t.node[m].mask <= t.node[s].mask /\ Agree(t.node[s].addr, ptr, t.node[m].mask)
      BY <2>1, <3>1 DEF Under, Matched, Agree
    <3> QED BY <1>1, <1>9, <3>1, <3>2
  <2> QED BY <2>1
<1>11. \A m \in D : Matched(t, m, ptr) => m # s /\ Under(t, m, s)
  BY SlotOrder DEF D
\* Where the new nodes are.
<1>12. \A m \in D : Under(u, p, m) <=> Under(t, s, m)
  <2>1. ASSUME NEW m \in D, Under(u, p, m) PROVE Under(t, s, m)
    <3>1. c <= t.node[m].mask /\ Agree(t.node[m].addr, a, c)
      BY <1>5, <1>6, <2>1 DEF Under
    <3>2. Agree(t.node[m].addr, ptr, c)
      BY <1>1, <3>1 DEF Agree
    <3>3. s # t.root => t.node[t.node[s].parent].mask < c
      <4>1. ASSUME s # t.root PROVE t.node[q].mask \in Nat
        BY <1>3, <4>1, Siblings, NodeFields DEF q, D
      <4> QED BY <1>1, <4>1 DEF q
    <3> QED BY <1>1, <3>1, <3>2, <3>3, SlotOrder DEF D
  <2>2. ASSUME NEW m \in D, Under(t, s, m) PROVE Under(u, p, m)
    <3>1. t.node[s].mask <= t.node[m].mask /\ Agree(t.node[m].addr, t.node[s].addr, t.node[s].mask)
      BY <2>2 DEF Under
    <3>2. c <= t.node[s].mask /\ c <= t.node[m].mask
      BY <1>1, <1>3, <1>9, <3>1
    <3>3. Agree(t.node[m].addr, t.node[s].addr, c)
      BY <1>1, <1>3, <1>9, <3>1, <3>2, AgreeDown
    <3>4. Agree(t.node[m].addr, a, c)
      BY <1>1, <3>3 DEF Agree
    <3> QED BY <1>5, <1>6, <3>2, <3>4 DEF Under
  <2> QED BY <2>1, <2>2
<1>13. \A n \in D : Under(u, n, new) <=> Matched(t, n, ptr)
  <2>1. \A n \in D : t.node[n].mask <= WORDBITS
    BY <1>9 DEF Masks
  <2> QED BY <1>4, <1>6, <2>1 DEF Under, Matched
<1>14. \A n \in D : Under(u, n, p) <=> n # s /\ Under(t, n, s)
  <2>1. ASSUME NEW n \in D, Under(u, n, p) PROVE n # s /\ Under(t, n, s)
    <3>1. t.node[n].mask <= c /\ Agree(a, t.node[n].addr, t.node[n].mask)
      BY <1>5, <1>6, <2>1 DEF Under
    <3>2. Agree(a, ptr, t.node[n].mask)
      BY <1>1, <1>3, <1>9, <3>1, AgreeDown
    <3>3. Matched(t, n, ptr)
      BY <3>1, <3>2 DEF Matched, Agree
    <3> QED BY <1>11, <3>3
  <2>2. ASSUME NEW n \in D, n # s, Under(t, n, s) PROVE Under(u, n, p)
    <3>1. Matched(t, n, ptr) /\ t.node[n].mask <= c
      BY <1>10, <2>2
    <3>2. Agree(a, ptr, t.node[n].mask)
      BY <1>1, <1>3, <1>9, <3>1, AgreeDown
    <3>3. Agree(a, t.node[n].addr, t.node[n].mask)
      BY <3>1, <3>2 DEF Matched, Agree
    <3> QED BY <1>5, <1>6, <3>1, <3>3 DEF Under
  <2> QED BY <2>1, <2>2
<1>15. Under(u, p, new) /\ Under(u, p, p) /\ Under(u, new, new) /\ ~Under(u, new, p)
  BY <1>1, <1>3, <1>4, <1>5 DEF Under, Agree
<1>16. \A n \in D : ~(Under(u, n, new) /\ Under(u, new, n))
  <2>1. ASSUME NEW n \in D, Under(u, n, new), Under(u, new, n) PROVE FALSE
    <3>1. Matched(t, n, ptr) /\ WORDBITS <= t.node[n].mask
      BY <1>4, <1>6, <1>13, <2>1 DEF Under
    <3>2. t.node[n].mask = WORDBITS
      BY <1>3, <1>9, <3>1 DEF Masks
    <3>3. ptr = t.node[n].addr
      BY <3>1, <3>2, AgreeEnds, NodeFields DEF Matched, D
    <3>4. n \notin LeafNodes(t)
      BY <3>3 DEF NoLeafAt
    <3>5. n \in Inner(t)
      BY <3>4 DEF Inner, LeafNodes, D
    <3> QED BY <3>2, <3>5, Children
  <2> QED BY <2>1
<1>. DEFINE E == DOMAIN u.node
<1>17. Typed(u)
  <2>1. IsFiniteSet(D \cup {new, p})
    <3>1. IsFiniteSet(D)
      BY DEF D, TrieInv, Typed
    <3>2. IsFiniteSet(D \cup {new}) /\ D \cup {new, p} = (D \cup {new}) \cup {p}
      BY <3>1, FS_AddElement
    <3> QED BY <3>2, FS_AddElement
  <2>2. u.root \in Nat /\ D \subseteq Nat \ {0}
    BY <1>2 DEF D, TrieInv, Typed
  <2>3. \A n \in DOMAIN u.node : u.node[n] \in Node
    BY <1>2, <1>4, <1>5, <1>6
  <2> QED BY <1>2, <2>1, <2>2, <2>3 DEF Typed
<1>18. Rooted(u)
  <2>1. t.root \in D /\ t.node[t.root].parent = NULL /\ \A m \in D : Under(t, t.root, m)
    BY DEF TrieInv, Rooted, D
  <2>2. u.root # NULL /\ u.root \in E
    BY <1>2, <2>1 DEF NULL
  <2>3. u.node[u.root].parent = NULL
    BY <1>2, <1>5, <1>6, <2>1 DEF q
  <2>4. ASSUME NEW m \in E PROVE Under(u, u.root, m)
    <3>1. CASE s = t.root
      BY <1>2, <1>12, <1>15, <2>1, <2>4, <3>1
    <3>2. CASE s # t.root
      <4>1. Matched(t, t.root, ptr)
        BY <1>3, <1>10, <2>1, <3>2
      <4> QED BY <1>2, <1>3, <1>8, <1>13, <1>14, <2>1, <2>4, <3>2, <4>1
    <3> QED BY <3>1, <3>2
  <2> QED BY <2>2, <2>3, <2>4 DEF Rooted
<1>19. \A n \in LeafNodes(u) : u.node[n].mask = WORDBITS
  BY <1>4, <1>6, <1>7 DEF TrieInv, LeafNodes, D
<1>20. ASSUME NEW n \in Inner(u) PROVE Branch(u, n)
  <2>1. CASE n = p
    <3>1. /\ u.node[s].parent = p /\ u.node[s].addr = t.node[s].addr /\ u.node[s].mask = t.node[s].mask
          /\ Agree(t.node[s].addr, a, c) /\ Agree(ptr, a, c) /\ s \in DOMAIN u.node /\ new \in DOMAIN u.node
          /\ c < t.node[s].mask
      BY <1>1, <1>2, <1>3, <1>6, <1>9 DEF Agree
    <3>2. Prefix(ptr, c + 1) \in Nat /\ Prefix(t.node[s].addr, c + 1) \in Nat /\ t.node[s].addr \in Nat
      BY <1>1, <1>3, <1>9, Prefixes
    <3>3. CASE first
      <4>1. Prefix(ptr, c + 1) < Prefix(t.node[s].addr, c + 1)
        <5>1. Prefix(ptr, c + 1) <= Prefix(t.node[s].addr, c + 1)
          BY <1>1, <1>3, <3>2, <3>3, PrefixOrder DEF first
        <5> QED BY <1>1, <3>2, <5>1 DEF Agree
      <4> QED BY <1>1, <1>4, <1>5, <2>1, <3>1, <3>3, <4>1 DEF Branch
    <3>4. CASE ~first
      <4>1. Prefix(t.node[s].addr, c + 1) < Prefix(ptr, c + 1)
        <5>1. Prefix(t.node[s].addr, c + 1) <= Prefix(ptr, c + 1)
          BY <1>1, <1>3, <3>2, <3>4, PrefixOrder DEF first
        <5> QED BY <1>1, <3>2, <5>1 DEF Agree
      <4> QED BY <1>1, <1>4, <1>5, <2>1, <3>1, <3>4, <4>1 DEF Branch
    <3> QED BY <3>3, <3>4
  <2>2. CASE n # p
    <3>. DEFINE l == t.node[n].left
                r == t.node[n].right
                k == t.node[n].mask
    <3>1. n \in Inner(t) /\ n \in D /\ Branch(t, n)
      BY <1>7, <2>2 DEF TrieInv, Inner, D
    <3>2. /\ l \in D /\ r \in D /\ l # r /\ k \in Masks /\ k + 1 \in Masks
          /\ t.node[l].parent = n /\ t.node[r].parent = n
          /\ k < t.node[l].mask /\ k < t.node[r].mask
          /\ Agree(t.node[l].addr, t.node[n].addr, k) /\ Agree(t.node[r].addr, t.node[n].addr, k)
          /\ Prefix(t.node[l].addr, k + 1) < Prefix(t.node[r].addr, k + 1)
          /\ (t.root = NULL \/ (l # t.root /\ r # t.root))
      <4>1. /\ l \in D /\ r \in D /\ l # r /\ k \in Masks /\ k + 1 \in Masks
            /\ t.node[l].parent = n /\ t.node[r].parent = n /\ n # NULL
        BY <3>1, Children DEF D
      <4>2. /\ k < t.node[l].mask /\ k < t.node[r].mask
            /\ Agree(t.node[l].addr, t.node[n].addr, k) /\ Agree(t.node[r].addr, t.node[n].addr, k)
            /\ Prefix(t.node[l].addr, k + 1) < Prefix(t.node[r].addr, k + 1)
        BY <3>1 DEF Branch
      <4>3. t.root # NULL => t.node[t.root].parent = NULL
        BY DEF TrieInv, Rooted
      <4> QED BY <4>1, <4>2, <4>3
    <3>3. /\ u.node[n].left = IF l = s THEN p ELSE l
          /\ u.node[n].right = IF r = s THEN p ELSE r
          /\ u.node[n].mask = k /\ u.node[n].addr = t.node[n].addr
      BY <1>6, <3>1
    <3>4. ASSUME s \in {l, r}
          PROVE  /\ k < c /\ Agree(a, t.node[n].addr, k) /\ q = n
                 /\ Prefix(a, k + 1) = Prefix(t.node[s].addr, k + 1)
      <4>1. s # t.root /\ q = n
        BY <3>2, <3>4 DEF q
      <4>a. k \in Nat /\ k + 1 <= c
        BY <1>1, <1>9, <3>1, <4>1
      <4>. HIDE DEF k
      <4>2. k + 1 <= c /\ k <= c /\ k < c /\ k \in Nat
        BY <1>1, <4>a
      <4>3. Agree(a, t.node[s].addr, k + 1) /\ Agree(a, t.node[s].addr, k)
        BY <1>1, <1>3, <1>9, <3>2, <4>2, AgreeDown
      <4> QED BY <3>2, <3>4, <4>1, <4>2, <4>3 DEF Agree
    <3>5. p \in DOMAIN u.node /\ l \in DOMAIN u.node /\ r \in DOMAIN u.node
      BY <1>2, <3>2
    <3>. HIDE DEF l, r, k
    <3>6. CASE l = s
      <4>1. r # s
        BY <3>2, <3>6
      <4> QED BY <1>5, <1>6, <3>2, <3>3, <3>4, <3>5, <3>6, <4>1 DEF Branch
    <3>7. CASE r = s
      <4>1. l # s
        BY <3>2, <3>7
      <4> QED BY <1>5, <1>6, <3>2, <3>3, <3>4, <3>5, <3>7, <4>1 DEF Branch
    <3>8. CASE l # s /\ r # s
      BY <1>6, <3>2, <3>3, <3>5, <3>8 DEF Branch
    <3> QED BY <3>6, <3>7, <3>8
  <2> QED BY <2>1, <2>2
<1>21. ASSUME NEW n \in E PROVE Hung(u, n)
  <2>1. CASE n = new
    BY <1>4, <1>5, <1>7, <2>1 DEF Hung, Child
  <2>2. CASE n = s
    BY <1>3, <1>5, <1>6, <1>7, <2>2 DEF Hung, Child
  <2>3. CASE n = p
    <3>1. ASSUME s # t.root PROVE q \in Inner(t) /\ q \in D /\ Child(t, q, s)
      BY <1>3, <3>1, Siblings DEF q, D, Child
    <3> QED BY <1>2, <1>5, <1>6, <1>7, <2>3, <3>1 DEF Hung, Child
  <2>4. CASE n \in D /\ n # s
    <3>1. Hung(t, n)
      BY <2>4 DEF TrieInv, D
    <3>2. CASE n = t.root
      <4>1. u.root = n
        BY <1>2, <2>4, <3>2
      <4> QED BY <4>1 DEF Hung
    <3>3. CASE n # t.root
      <4>1. t.node[n].parent \in Inner(t) /\ Child(t, t.node[n].parent, n) /\ t.node[n].parent \in D
        BY <3>1, <3>3 DEF Hung, Inner, D
      <4>2. u.node[n].parent = t.node[n].parent
        BY <1>6, <2>4
      <4>3. Child(u, t.node[n].parent, n)
        BY <1>6, <2>4, <4>1 DEF Child
      <4> QED BY <1>7, <4>1, <4>2, <4>3 DEF Hung
    <3> QED BY <3>2, <3>3
  <2> QED BY <1>2, <2>1, <2>2, <2>3, <2>4
<1>22. ASSUME NEW n \in Inner(u) PROVE Covered(u, n)
  <2>1. CASE n = p
    <3>1. ASSUME NEW m \in E, m # p, Under(u, p, m) PROVE Under(u, s, m) \/ Under(u, new, m)
      <4>1. CASE m = new
        BY <1>15, <4>1
      <4>2. CASE m \in D
        BY <1>3, <1>8, <1>12, <3>1, <4>2
      <4> QED BY <1>2, <3>1, <4>1, <4>2
    <3> QED BY <1>5, <2>1, <3>1 DEF Covered
  <2>2. CASE n # p
    <3>. DEFINE l == t.node[n].left
                r == t.node[n].right
    <3>1. n \in Inner(t) /\ n \in D /\ l \in D /\ r \in D
      BY <1>7, <2>2, Children DEF Inner, D
    <3>2. \A m \in D : m # n /\ Under(t, n, m) => Under(t, l, m) \/ Under(t, r, m)
      BY <3>1 DEF TrieInv, Covered, D
    <3>3. /\ u.node[n].left = IF l = s THEN p ELSE l
          /\ u.node[n].right = IF r = s THEN p ELSE r
      BY <1>6, <3>1
    <3>. HIDE DEF l, r
    <3>4. ASSUME NEW m \in E, m # n, Under(u, n, m)
          PROVE  Under(u, u.node[n].left, m) \/ Under(u, u.node[n].right, m)
      <4>1. CASE m \in D
        <5>1. Under(t, l, m) \/ Under(t, r, m)
          BY <1>8, <3>1, <3>2, <3>4, <4>1
        <5> QED BY <1>3, <1>8, <1>12, <3>1, <3>3, <4>1, <5>1
      <4>2. ASSUME m \in {new, p} PROVE n # s /\ Under(t, n, s)
        BY <1>11, <1>13, <1>14, <3>1, <3>4, <4>2
      <4>3. CASE m \in {new, p}
        <5>1. Under(t, l, s) \/ Under(t, r, s)
          BY <1>3, <3>2, <4>2, <4>3
        <5>2. ASSUME NEW k \in D, Under(t, k, s), k # s PROVE Under(u, k, m)
          BY <1>10, <1>13, <1>14, <4>3, <5>2
        <5>3. Under(u, p, m)
          BY <1>15, <4>3
        <5> QED BY <3>1, <3>3, <5>1, <5>2, <5>3
      <4> QED BY <1>2, <3>4, <4>1, <4>3
    <3> QED BY <3>4 DEF Covered
  <2> QED BY <2>1, <2>2
<1>23. Distinct(u)
  <2>1. ASSUME NEW n \in E, NEW m \in E, Under(u, n, m), Under(u, m, n) PROVE n = m
    <3>1. CASE n \in D /\ m \in D
      BY <1>8, <2>1, <3>1 DEF TrieInv, Distinct, D
    <3>2. ASSUME NEW k \in D, Under(u, k, p), Under(u, p, k) PROVE FALSE
      BY <1>3, <1>12, <1>14, <3>2 DEF TrieInv, Distinct, D
    <3>3. CASE n = p \/ m = p
      BY <1>2, <1>15, <2>1, <3>2, <3>3
    <3>4. CASE n = new \/ m = new
      BY <1>2, <1>15, <1>16, <2>1, <3>4
    <3> QED BY <1>2, <3>1, <3>3, <3>4
  <2> QED BY <2>1 DEF Distinct
<1>24. Entries(u) = Entries(t) \cup {<<ptr, leaf>>}
  <2>1. \A n \in LeafNodes(t) : u.node[n].addr = t.node[n].addr /\ u.node[n].leaf = t.node[n].leaf
    BY <1>6 DEF LeafNodes, D
  <2>2. u.node[new].addr = ptr /\ u.node[new].leaf = leaf
    BY <1>4
  <2> QED BY <1>7, <2>1, <2>2 DEF Entries
<1> QED BY <1>17, <1>18, <1>19, <1>20, <1>21, <1>22, <1>23, <1>24 DEF TrieInv

\* How many nodes a trie has.
Counted(t) ==
  /\ IsFiniteSet(Entries(t))
  /\ Cardinality(DOMAIN t.node) = IF t.root = NULL THEN 0 ELSE 2 * Cardinality(Entries(t)) - 1

\* The empty trie has no entry.
LEMMA EmptyTrieIsTrie ==
  TrieInv(EmptyTrie) /\ Entries(EmptyTrie) = {} /\ Counted(EmptyTrie)
<1>1. EmptyTrie = [root |-> NULL, node |-> EmptyTrie.node] /\ EmptyTrie.root = NULL
      /\ EmptyTrie.node = <<>>
  BY DEF EmptyTrie
<1>2. DOMAIN EmptyTrie.node = {}
  BY <1>1
<1>. DEFINE e == EmptyTrie
<1>3. LeafNodes(e) = {} /\ Inner(e) = {} /\ Entries(e) = {}
  BY <1>2 DEF LeafNodes, Inner, Entries
<1>4. Typed(e)
  <2>1. IsFiniteSet({}) /\ NULL \in Nat
    BY FS_EmptySet DEF NULL
  <2>2. e.node \in [DOMAIN e.node -> Node]
    BY <1>1, <1>2
  <2> QED BY <1>1, <1>2, <2>1, <2>2 DEF Typed
<1>. HIDE DEF e
<1>5. Rooted(e)
  BY <1>1, <1>2 DEF Rooted, e
<1>6. TrieInv(e)
  BY <1>2, <1>3, <1>4, <1>5 DEF TrieInv, Distinct, e
<1>7. Counted(e)
  BY <1>1, <1>2, <1>3, FS_EmptySet DEF Counted, e
<1> QED BY <1>3, <1>6, <1>7 DEF e

\* The first insertion, which makes the root.
LEMMA FirstInsertion ==
  ASSUME NEW t, TrieInv(t), t.root = NULL, NEW ptr \in Word, NEW leaf \in Nat \ {0}
  PROVE  LET u == pt_insert(t, leaf, ptr) IN
         TrieInv(u) /\ Entries(u) = {<<ptr, leaf>>} /\ Counted(u) /\ Entries(t) = {}
<1>. DEFINE u == pt_insert(t, leaf, ptr)
            new == Fresh(DOMAIN t.node)
            nd == [addr |-> ptr, mask |-> WORDBITS, leaf |-> leaf,
                   left |-> NULL, right |-> NULL, parent |-> NULL]
<1>1. DOMAIN t.node = {}
  BY DEF TrieInv, Rooted
<1>2. new \in Nat \ {0}
  BY <1>1, FreshIsNew DEF TrieInv, Typed
<1>3. u = [root |-> new, node |-> With(<<>>, new, nd)]
  BY DEF pt_insert
<1>. HIDE DEF new, nd, u
<1>4. /\ u = [root |-> u.root, node |-> u.node] /\ u.root = new
      /\ DOMAIN u.node = {new} /\ u.node[new] = nd /\ u.node = [n \in {new} |-> u.node[n]]
  BY <1>3 DEF With
<1>5. /\ nd \in Node /\ nd.leaf # NULL /\ nd.mask = WORDBITS /\ nd.parent = NULL
      /\ nd.addr = ptr /\ nd.leaf = leaf /\ NULL \in Nat /\ WORDBITS \in Nat
  BY Units DEF Node, nd, NULL, Masks
<1>6. LeafNodes(u) = {new} /\ Inner(u) = {} /\ Entries(u) = {<<ptr, leaf>>} /\ Entries(t) = {}
  BY <1>1, <1>4, <1>5 DEF LeafNodes, Inner, Entries
<1>7. Typed(u)
  <2>1. u.node \in [DOMAIN u.node -> Node]
    BY <1>4, <1>5
  <2>2. IsFiniteSet({new})
    BY FS_Singleton
  <2> QED BY <1>2, <1>4, <2>1, <2>2 DEF Typed
<1>8. Rooted(u)
  BY <1>2, <1>4, <1>5 DEF Rooted, Under, Agree, NULL
<1>9. TrieInv(u)
  BY <1>4, <1>5, <1>6, <1>7, <1>8 DEF TrieInv, Hung, Distinct
<1>10. Counted(u)
  <2>. DEFINE entry == <<ptr, leaf>>
  <2>1. IsFiniteSet({new}) /\ Cardinality({new}) = 1 /\ IsFiniteSet({entry}) /\ Cardinality({entry}) = 1
    BY FS_Singleton, Zenon
  <2>. HIDE DEF entry
  <2>2. Entries(u) = {entry}
    BY <1>6 DEF entry
  <2>3. u.root # NULL /\ 2 * 1 - 1 = 1
    BY <1>2, <1>4 DEF NULL
  <2> QED BY <1>4, <2>1, <2>2, <2>3 DEF Counted
<1> QED BY <1>6, <1>9, <1>10 DEF u

\* pt_insert keeps the invariant and adds its leaf.
THEOREM InsertKeepsTrie ==
  ASSUME NEW t, TrieInv(t), Counted(t), NEW ptr \in Word, NEW leaf \in Nat \ {0}, NoLeafAt(t, ptr)
  PROVE  LET u == pt_insert(t, leaf, ptr) IN
         TrieInv(u) /\ Counted(u) /\ Entries(u) = Entries(t) \cup {<<ptr, leaf>>}
<1>1. CASE t.root = NULL
  <2>1. LET u == pt_insert(t, leaf, ptr) IN
         TrieInv(u) /\ Entries(u) = {<<ptr, leaf>>} /\ Counted(u) /\ Entries(t) = {}
    BY <1>1, FirstInsertion
  <2> QED BY <2>1
<1>2. CASE t.root # NULL
  <2>. DEFINE s == pt_most_similar_node(t, ptr)
              u == pt_insert(t, leaf, ptr)
  <2>1. Slot(t, s, ptr)
    BY <1>2, SlotFound
  <2>2. \E new, p : Inserted(t, u, leaf, ptr, s, new, p)
    BY <1>2, <2>1, InsertDoes
  <2>. HIDE DEF s, u
  <2>3. PICK new, p : Inserted(t, u, leaf, ptr, s, new, p)
    BY <2>2
  <2>4. TrieInv(u) /\ Entries(u) = Entries(t) \cup {<<ptr, leaf>>}
    BY <1>2, <2>1, <2>3, InsertionKeeps
  <2>5. Counted(u)
    <3>1. <<ptr, leaf>> \notin Entries(t)
      BY DEF NoLeafAt, Entries
    <3>2. /\ IsFiniteSet(Entries(t)) /\ IsFiniteSet(DOMAIN t.node)
          /\ Cardinality(DOMAIN t.node) = 2 * Cardinality(Entries(t)) - 1
          /\ Cardinality(Entries(t)) \in Nat
      BY <1>2, FS_CardinalityType DEF Counted, TrieInv, Typed
    <3>3. IsFiniteSet(Entries(u)) /\ Cardinality(Entries(u)) = Cardinality(Entries(t)) + 1
      <4>. DEFINE entry == <<ptr, leaf>>
                  S == Entries(t)
      <4>1. entry \notin S /\ IsFiniteSet(S) /\ Entries(u) = S \cup {entry}
        BY <2>4, <3>1, <3>2
      <4>. HIDE DEF entry, S
      <4>2. IsFiniteSet(S \cup {entry}) /\ Cardinality(S \cup {entry}) = Cardinality(S) + 1
        BY <4>1, FS_AddElement, Zenon
      <4> QED BY <4>1, <4>2 DEF S
    <3>4. /\ new \notin DOMAIN t.node /\ p \notin DOMAIN t.node /\ p # new /\ p # NULL
          /\ DOMAIN u.node = DOMAIN t.node \cup {new, p}
          /\ u.root = IF s = t.root THEN p ELSE t.root
      BY <2>3 DEF Inserted, NULL
    <3>5. Cardinality(DOMAIN u.node) = Cardinality(DOMAIN t.node) + 2
      <4>1. /\ IsFiniteSet(DOMAIN t.node \cup {new})
            /\ Cardinality(DOMAIN t.node \cup {new}) = Cardinality(DOMAIN t.node) + 1
        BY <3>2, <3>4, FS_AddElement
      <4>2. p \notin DOMAIN t.node \cup {new} /\ DOMAIN u.node = (DOMAIN t.node \cup {new}) \cup {p}
        BY <3>4
      <4>3. Cardinality((DOMAIN t.node \cup {new}) \cup {p}) = Cardinality(DOMAIN t.node \cup {new}) + 1
        BY <4>1, <4>2, FS_AddElement
      <4>4. Cardinality(DOMAIN t.node) \in Nat
        BY <3>2, FS_CardinalityType
      <4> QED BY <4>1, <4>2, <4>3, <4>4
    <3>6. u.root # NULL
      BY <1>2, <3>4
    <3> QED BY <3>2, <3>3, <3>5, <3>6 DEF Counted
  <2> QED BY <2>4, <2>5 DEF u
<1> QED BY <1>1, <1>2

\* No two leaves have one address.
LEMMA LeafAddresses ==
  ASSUME NEW t, TrieInv(t), NEW n \in LeafNodes(t), NEW m \in LeafNodes(t),
         t.node[n].addr = t.node[m].addr
  PROVE  n = m
<1>1. /\ n \in DOMAIN t.node /\ m \in DOMAIN t.node
      /\ t.node[n].mask = WORDBITS /\ t.node[m].mask = WORDBITS
  BY DEF LeafNodes, TrieInv
<1>2. Under(t, n, m)
  BY <1>1, Units DEF Under, Agree
<1> QED BY <1>1, <1>2, LeafIsLast

\* What pt_remove_leaf_node does when n has a parent p: the sibling s is copied over p.
Removed(t, u, n, p, s) ==
  LET of(i) == IF i = p THEN s ELSE i IN
  /\ u = [root |-> t.root, node |-> u.node]
  /\ DOMAIN u.node = DOMAIN t.node \ {n, s}
  /\ \A i \in DOMAIN t.node \ {n, s} :
       /\ u.node[i] \in Node
       /\ u.node[i].addr = t.node[of(i)].addr /\ u.node[i].mask = t.node[of(i)].mask
       /\ u.node[i].leaf = t.node[of(i)].leaf
       /\ u.node[i].left = t.node[of(i)].left /\ u.node[i].right = t.node[of(i)].right
       /\ u.node[i].parent = IF i = p THEN t.node[p].parent
                             ELSE IF s \in Inner(t) /\ Child(t, s, i) THEN p
                             ELSE t.node[i].parent
  /\ u.node = [i \in DOMAIN u.node |-> u.node[i]]

\* pt_remove_leaf_node, as the code: the sibling of the leaf takes the place of their parent.
LEMMA RemoveDoes ==
  ASSUME NEW t, TrieInv(t), NEW n \in LeafNodes(t), n # t.root
  PROVE  Removed(t, pt_remove_leaf_node(t, n), n, t.node[n].parent, SiblingOf(t, n))
<1>. DEFINE p == t.node[n].parent
            s == SiblingOf(t, n)
            sib == t.node[s]
            up == t.node[p].parent
            moved == [i \in DOMAIN t.node |->
                  IF i = p THEN [sib EXCEPT !.parent = up]
                  ELSE IF sib.leaf = NULL /\ i \in {sib.left, sib.right}
                       THEN [t.node[i] EXCEPT !.parent = p]
                       ELSE t.node[i]]
            masked == IF up = NULL THEN moved
                ELSE [moved EXCEPT ![up].mask = ChildrenMask(moved, up)]
            u == pt_remove_leaf_node(t, n)
<1>1. /\ n \in DOMAIN t.node /\ p \in Inner(t) /\ p \in DOMAIN t.node /\ s \in DOMAIN t.node
      /\ p # NULL /\ s # n /\ s # p /\ n # p /\ s # t.root
      /\ t.node[s].parent = p
      /\ t.node[p].mask \in Masks /\ t.node[p].mask + 1 \in Masks
      /\ t.node[p].mask + 1 <= t.node[s].mask
      /\ Agree(t.node[s].addr, t.node[p].addr, t.node[p].mask)
  BY Siblings DEF LeafNodes
<1>2. u = [t EXCEPT !.node = Without(masked, {n, s})]
  BY <1>1 DEF pt_remove_leaf_node, SiblingOf
<1>3. \A i \in DOMAIN t.node : t.node[i] \in Node
  BY DEF TrieInv, Typed
<1>4. up \in Nat /\ p \in Nat
  BY <1>1, NodeFields
<1>5. t = [root |-> t.root, node |-> t.node]
  BY DEF TrieInv, Typed
<1>. HIDE DEF p, s, up
<1>6. ASSUME NEW i \in DOMAIN t.node
      PROVE  LET x == t.node[IF i = p THEN s ELSE i] IN
             /\ moved[i] \in Node
             /\ moved[i].addr = x.addr /\ moved[i].mask = x.mask
             /\ moved[i].leaf = x.leaf /\ moved[i].left = x.left /\ moved[i].right = x.right
             /\ moved[i].parent = IF i = p THEN up
                                  ELSE IF s \in Inner(t) /\ Child(t, s, i) THEN p
                                  ELSE t.node[i].parent
  <2>1. t.node[i] \in Node /\ t.node[s] \in Node
    BY <1>1, <1>3
  <2>2. CASE i = p
    <3>1. moved[i] = [t.node[s] EXCEPT !.parent = up]
      BY <2>2
    <3>. HIDE DEF moved
    <3> QED BY <1>4, <2>1, <2>2, <3>1 DEF Node
  <2>3. CASE i # p /\ s \in Inner(t) /\ Child(t, s, i)
    <3>1. moved[i] = [t.node[i] EXCEPT !.parent = p]
      BY <2>3 DEF Inner, Child
    <3>. HIDE DEF moved
    <3> QED BY <1>4, <2>1, <2>3, <3>1 DEF Node
  <2>4. CASE i # p /\ ~(s \in Inner(t) /\ Child(t, s, i))
    <3>1. moved[i] = t.node[i]
      BY <1>1, <2>4 DEF Inner, Child
    <3>. HIDE DEF moved
    <3> QED BY <2>1, <2>4, <3>1 DEF Node
  <2> QED BY <2>2, <2>3, <2>4
<1>7. DOMAIN moved = DOMAIN t.node
  OBVIOUS
<1>. HIDE DEF moved
<1>8. /\ DOMAIN masked = DOMAIN t.node
      /\ \A i \in DOMAIN t.node : masked[i] = moved[i]
  <2>1. CASE up = NULL
    BY <1>7, <2>1
  <2>2. CASE up # NULL
    <3>1. p # t.root /\ up # t.node[n].parent
      <4>1. t.root # NULL => t.node[t.root].parent = NULL
        BY DEF TrieInv, Rooted
      <4>2. t.root # NULL
        BY <1>1 DEF TrieInv, Rooted
      <4>3. p # t.root
        BY <2>2, <4>1, <4>2 DEF up
      <4>. HIDE DEF masked, u
      <4>4. t.node[p].parent # p
        BY <1>1, <4>3, Siblings
      <4> QED BY <4>3, <4>4 DEF up, p
    <3>. DEFINE o == SiblingOf(t, p)
                k == t.node[up].mask
    <3>2. /\ up \in Inner(t) /\ up \in DOMAIN t.node /\ o \in DOMAIN t.node /\ o # p /\ up # p
          /\ (t.node[up].left = p /\ t.node[up].right = o) \/ (t.node[up].left = o /\ t.node[up].right = p)
          /\ k \in Masks /\ k + 1 \in Masks /\ k + 1 <= t.node[p].mask /\ k + 1 <= t.node[o].mask
          /\ Agree(t.node[p].addr, t.node[up].addr, k) /\ Agree(t.node[o].addr, t.node[up].addr, k)
          /\ ~Agree(t.node[p].addr, t.node[o].addr, k + 1)
      <4>1. p \in DOMAIN t.node /\ p # t.root
        BY <1>1, <3>1
      <4>2. /\ up \in Inner(t) /\ up \in DOMAIN t.node /\ o \in DOMAIN t.node /\ p # o /\ p # up
            /\ (t.node[up].left = p /\ t.node[up].right = o) \/ (t.node[up].left = o /\ t.node[up].right = p)
        BY <4>1, Siblings DEF up
      <4>3. /\ k \in Masks /\ k + 1 \in Masks /\ k + 1 <= t.node[p].mask /\ k + 1 <= t.node[o].mask
            /\ Agree(t.node[p].addr, t.node[up].addr, k) /\ Agree(t.node[o].addr, t.node[up].addr, k)
            /\ ~Agree(t.node[p].addr, t.node[o].addr, k + 1)
        BY <4>1, Siblings DEF up
      <4> QED BY <4>2, <4>3, Zenon
    <3>3. /\ t.node[p].addr \in Word /\ t.node[o].addr \in Word /\ t.node[s].addr \in Word
          /\ t.node[p].mask \in Nat /\ t.node[s].mask \in Nat /\ k \in Nat
          /\ t.node[o].mask \in Masks /\ t.node[s].mask \in Masks
          /\ t.node[p].addr \in Nat /\ t.node[s].addr \in Nat
      BY <1>1, <3>2, NodeFields
    <3>. HIDE DEF o, k
    <3>4. k + 1 <= t.node[s].mask /\ k <= t.node[p].mask
      BY <1>1, <3>2, <3>3
    <3>5. Agree(t.node[s].addr, t.node[p].addr, k) /\ Agree(t.node[s].addr, t.node[p].addr, k + 1)
      BY <1>1, <3>2, <3>3, <3>4, AgreeDown
    <3>6. /\ Agree(t.node[s].addr, t.node[o].addr, k) /\ ~Agree(t.node[s].addr, t.node[o].addr, k + 1)
          /\ Agree(t.node[o].addr, t.node[s].addr, k) /\ ~Agree(t.node[o].addr, t.node[s].addr, k + 1)
      BY <3>2, <3>5 DEF Agree
    <3>7. /\ moved[p].addr = t.node[s].addr /\ moved[p].mask = t.node[s].mask
          /\ moved[o].addr = t.node[o].addr /\ moved[o].mask = t.node[o].mask
          /\ moved[up].left = t.node[up].left /\ moved[up].right = t.node[up].right
          /\ moved[up].mask = k /\ moved[up] \in Node
      BY <1>1, <1>6, <3>2 DEF k
    <3>8. ChildrenMask(moved, up) = k
      <4>1. /\ pt_mask(Prefix(t.node[s].addr, t.node[s].mask), Prefix(t.node[o].addr, t.node[o].mask)) = k
            /\ pt_mask(Prefix(t.node[o].addr, t.node[o].mask), Prefix(t.node[s].addr, t.node[s].mask)) = k
        BY <3>2, <3>3, <3>4, <3>6, MaskAtFork
      <4> QED BY <3>2, <3>7, <4>1 DEF ChildrenMask, NodePrefix
    <3>9. [moved[up] EXCEPT !.mask = ChildrenMask(moved, up)] = moved[up]
      <4>. DEFINE x == moved[up]
      <4>1. x \in Node /\ x.mask = k
        BY <3>7
      <4>. HIDE DEF x
      <4>2. [x EXCEPT !.mask = k] = x
        BY <4>1 DEF Node
      <4> QED BY <3>8, <4>2 DEF x
    <3>10. masked = [moved EXCEPT ![up] = [moved[up] EXCEPT !.mask = ChildrenMask(moved, up)]]
      BY <2>2
    <3>. HIDE DEF masked
    <3> QED BY <1>7, <3>2, <3>9, <3>10
  <2> QED BY <2>1, <2>2
<1>. HIDE DEF masked
<1>9. /\ u = [root |-> t.root, node |-> u.node] /\ u.node = Without(masked, {n, s})
  BY <1>2, <1>5
<1>. HIDE DEF u
<1>10. /\ DOMAIN u.node = DOMAIN t.node \ {n, s}
       /\ u.node = [i \in DOMAIN u.node |-> u.node[i]]
       /\ \A i \in DOMAIN t.node \ {n, s} : u.node[i] = moved[i]
  BY <1>8, <1>9 DEF Without
<1>11. Removed(t, u, n, p, s)
  <2>1. ASSUME NEW i \in DOMAIN t.node \ {n, s}
        PROVE  LET x == t.node[IF i = p THEN s ELSE i] IN
               /\ u.node[i] \in Node
               /\ u.node[i].addr = x.addr /\ u.node[i].mask = x.mask
               /\ u.node[i].leaf = x.leaf /\ u.node[i].left = x.left /\ u.node[i].right = x.right
               /\ u.node[i].parent = IF i = p THEN t.node[p].parent
                                  ELSE IF s \in Inner(t) /\ Child(t, s, i) THEN p
                                  ELSE t.node[i].parent
    BY <1>6, <1>10, Zenon DEF up
  <2> QED BY <1>9, <1>10, <2>1, Zenon DEF Removed
<1> QED BY <1>11 DEF u, p, s

\* These changes keep the invariant, and take one entry.
LEMMA RemovalKeeps ==
  ASSUME NEW t, TrieInv(t), NEW n \in LeafNodes(t), n # t.root,
         NEW u, Removed(t, u, n, t.node[n].parent, SiblingOf(t, n))
  PROVE  TrieInv(u) /\ Entries(u) = Entries(t) \ {<<t.node[n].addr, t.node[n].leaf>>}
<1>. DEFINE D == DOMAIN t.node
            p == t.node[n].parent
            s == SiblingOf(t, n)
            up == t.node[p].parent
            E == D \ {n, s}
            of(i) == IF i = p THEN s ELSE i
<1>1. /\ n \in D /\ p \in Inner(t) /\ p \in D /\ s \in D
      /\ p # NULL /\ s # n /\ s # p /\ n # p /\ s # t.root /\ n # t.root
      /\ t.node[s].parent = p /\ t.node[n].parent = p
      /\ t.node[p].mask \in Masks /\ t.node[p].mask + 1 \in Masks
      /\ t.node[p].mask + 1 <= t.node[s].mask
      /\ Agree(t.node[s].addr, t.node[p].addr, t.node[p].mask)
      /\ p \in E /\ Under(t, p, s)
      /\ \A m \in D : m # p /\ Under(t, p, m) => Under(t, n, m) \/ Under(t, s, m)
  <2>1. n \in DOMAIN t.node
    BY DEF LeafNodes
  <2>2. /\ p \in Inner(t) /\ p \in D /\ s \in D
        /\ p # NULL /\ n # s /\ n # p /\ s # p /\ s # t.root
        /\ t.node[s].parent = p
        /\ t.node[p].mask \in Masks /\ t.node[p].mask + 1 \in Masks
        /\ t.node[p].mask + 1 <= t.node[s].mask
    BY <2>1, Siblings
  <2>3. /\ Agree(t.node[s].addr, t.node[p].addr, t.node[p].mask)
        /\ Under(t, p, s)
        /\ \A m \in D : m # p /\ Under(t, p, m) => Under(t, n, m) \/ Under(t, s, m)
    BY <2>1, Siblings
  <2> QED BY <2>1, <2>2, <2>3
<1>2. /\ u = [root |-> t.root, node |-> u.node] /\ DOMAIN u.node = E
      /\ u.node = [i \in DOMAIN u.node |-> u.node[i]]
  BY DEF Removed
<1>3. ASSUME NEW i \in E
      PROVE  /\ u.node[i] \in Node
             /\ u.node[i].addr = t.node[of(i)].addr /\ u.node[i].mask = t.node[of(i)].mask
             /\ u.node[i].leaf = t.node[of(i)].leaf
             /\ u.node[i].left = t.node[of(i)].left /\ u.node[i].right = t.node[of(i)].right
             /\ u.node[i].parent = IF i = p THEN up
                                   ELSE IF s \in Inner(t) /\ Child(t, s, i) THEN p
                                   ELSE t.node[i].parent
  BY DEF Removed
<1>4. ASSUME NEW i \in E
      PROVE  of(i) \in D /\ of(i) # n /\ of(i) # p
  BY <1>1
<1>5. \A i, j \in E : of(i) = of(j) => i = j
  OBVIOUS
<1>6. of(p) = s /\ \A i \in E : i # p => of(i) = i
  OBVIOUS
<1>7. \A i \in D : of(i) # i => i = p
  OBVIOUS
<1>. HIDE DEF p, s, up
<1>8. \A i \in D : /\ t.node[i].mask \in Masks /\ t.node[i].mask \in Nat /\ t.node[i].addr \in Nat
                   /\ t.node[i] \in Node
  BY NodeFields
<1>9. \A i \in E : i \in D /\ i # n /\ i # s
  OBVIOUS
<1>a. \A i \in D : i # n /\ i # s => i \in E
  OBVIOUS
<1>. HIDE DEF E, of, D
<1>10. \A i, j \in E : Under(u, i, j) <=> Under(t, of(i), of(j))
  BY <1>3 DEF Under
<1>11. \A i \in E : (i \in Inner(u) <=> of(i) \in Inner(t)) /\ (i \in LeafNodes(u) <=> of(i) \in LeafNodes(t))
  BY <1>2, <1>3, <1>4 DEF Inner, LeafNodes, D
<1>12. Inner(u) \subseteq E /\ LeafNodes(u) \subseteq E /\ Inner(t) \subseteq D /\ LeafNodes(t) \subseteq D
  BY <1>2 DEF Inner, LeafNodes, D
\* Nothing but n is under n; what is under p is under s.
<1>13. \A m \in D : m # n => ~Under(t, n, m)
  BY LeafIsLast DEF D
<1>14. \A m \in D : m # n /\ m # p /\ Under(t, p, m) => Under(t, s, m)
  BY <1>1, <1>13
<1>15. ASSUME NEW i \in Inner(u)
       PROVE  LET I == of(i)
                  l == t.node[I].left
                  r == t.node[I].right
              IN /\ I \in Inner(t) /\ I \in D /\ I # p /\ I # n
                 /\ l \in E /\ r \in E /\ l # r
                 /\ t.node[l].parent = I /\ t.node[r].parent = I
                 /\ u.node[i].left = l /\ u.node[i].right = r
  <2>1. i \in E /\ of(i) \in Inner(t) /\ of(i) \in D /\ of(i) # p /\ of(i) # n
    BY <1>4, <1>11, <1>12
  <2>2. LET l == t.node[of(i)].left
            r == t.node[of(i)].right
        IN l \in D /\ r \in D /\ l # r /\ t.node[l].parent = of(i) /\ t.node[r].parent = of(i)
    BY <2>1, Children DEF D
  <2> QED BY <1>1, <1>3, <1>a, <2>1, <2>2
<1>16. Typed(u)
  <2>1. IsFiniteSet(E) /\ E \subseteq Nat \ {0}
    <3>1. IsFiniteSet(D) /\ D \subseteq Nat \ {0} /\ E \subseteq D
      BY <1>9 DEF D, TrieInv, Typed
    <3> QED BY <3>1, FS_Subset
  <2>2. u.root \in Nat
    BY <1>2 DEF TrieInv, Typed
  <2>3. u.node \in [E -> Node]
    BY <1>2, <1>3
  <2> QED BY <1>2, <2>1, <2>2, <2>3 DEF Typed
<1>17. Rooted(u)
  <2>1. t.root \in D /\ t.root # NULL /\ t.node[t.root].parent = NULL /\ \A m \in D : Under(t, t.root, m)
    BY <1>1 DEF TrieInv, Rooted, D
  <2>2. u.root = t.root /\ t.root \in E
    BY <1>1, <1>2, <1>a, <2>1
  <2>3. u.node[t.root].parent = NULL
    <3>1. CASE t.root = p
      BY <1>3, <2>1, <2>2, <3>1 DEF up
    <3>2. CASE t.root # p
      <4>1. ~(s \in Inner(t) /\ Child(t, s, t.root))
        BY <2>1, Children DEF Child
      <4> QED BY <1>3, <2>1, <2>2, <3>2, <4>1
    <3> QED BY <3>1, <3>2
  <2>4. ASSUME NEW m \in E PROVE Under(u, t.root, m)
    <3>1. of(m) \in D /\ of(m) # n /\ of(m) # p
      BY <1>4
    <3>2. Under(t, of(t.root), of(m))
      <4>1. CASE t.root = p
        BY <1>6, <1>14, <2>1, <3>1, <4>1
      <4>2. CASE t.root # p
        BY <1>6, <2>1, <2>2, <3>1, <4>2
      <4> QED BY <4>1, <4>2
    <3> QED BY <1>10, <2>2, <3>2
  <2> QED BY <1>2, <2>1, <2>2, <2>3, <2>4 DEF Rooted
<1>18. \A i \in LeafNodes(u) : u.node[i].mask = WORDBITS
  BY <1>3, <1>11, <1>12 DEF TrieInv
<1>19. ASSUME NEW i \in Inner(u) PROVE Branch(u, i)
  <2>. DEFINE I == of(i)
              l == t.node[I].left
              r == t.node[I].right
              k == t.node[I].mask
  <2>1. /\ I \in Inner(t) /\ I \in D /\ I # p /\ I # n /\ i \in E
        /\ l \in E /\ r \in E /\ l # r
        /\ t.node[l].parent = I /\ t.node[r].parent = I
        /\ u.node[i].left = l /\ u.node[i].right = r
        /\ u.node[i].mask = k /\ u.node[i].addr = t.node[I].addr
    BY <1>3, <1>12, <1>15
  <2>2. Branch(t, I)
    BY <2>1 DEF TrieInv
  <2>3. /\ k < t.node[l].mask /\ k < t.node[r].mask /\ k \in Nat /\ k \in Masks /\ k + 1 \in Masks
        /\ Agree(t.node[l].addr, t.node[I].addr, k) /\ Agree(t.node[r].addr, t.node[I].addr, k)
        /\ Prefix(t.node[l].addr, k + 1) < Prefix(t.node[r].addr, k + 1)
    BY <1>8, <2>1, <2>2, Children DEF Branch
  <2>4. ASSUME NEW c \in E, t.node[c].parent = I, c = l \/ c = r,
               k < t.node[c].mask, Agree(t.node[c].addr, t.node[I].addr, k)
        PROVE  /\ u.node[c].parent = i /\ k < u.node[c].mask
               /\ Agree(u.node[c].addr, t.node[I].addr, k)
               /\ Prefix(u.node[c].addr, k + 1) = Prefix(t.node[c].addr, k + 1)
    <3>1. CASE c = p
      <4>1. of(c) = s /\ u.node[c].addr = t.node[s].addr /\ u.node[c].mask = t.node[s].mask
            /\ u.node[c].parent = up
        BY <1>3, <1>6, <3>1
      <4>2. up = I /\ I # s
        <5>1. up = I
          BY <2>4, <3>1 DEF up
        <5>2. I # s
          BY <1>1, <1>8, <2>1, <2>3, <2>4, <3>1
        <5> QED BY <5>1, <5>2
      <4>3. i # p
        BY <1>6, <4>2
      <4>4. I = i
        BY <1>6, <2>1, <4>3
      <4>5. k + 1 <= t.node[p].mask /\ k <= t.node[p].mask /\ k < t.node[s].mask
        <5>1. t.node[p].mask \in Nat /\ t.node[s].mask \in Nat /\ k < t.node[p].mask
          BY <1>1, <1>8, <2>4, <3>1
        <5>. HIDE DEF k
        <5> QED BY <1>1, <2>3, <5>1
      <4>6. /\ Agree(t.node[s].addr, t.node[p].addr, k)
            /\ Agree(t.node[s].addr, t.node[p].addr, k + 1)
        <5>. HIDE DEF k
        <5> QED BY <1>1, <1>8, <2>3, <4>5, AgreeDown
      <4>. HIDE DEF I, k
      <4> QED BY <2>4, <3>1, <4>1, <4>2, <4>4, <4>5, <4>6 DEF Agree
    <3>2. CASE c # p
      <4>1. of(c) = c /\ u.node[c].addr = t.node[c].addr /\ u.node[c].mask = t.node[c].mask
            /\ u.node[c].parent = IF s \in Inner(t) /\ Child(t, s, c) THEN p ELSE t.node[c].parent
        BY <1>3, <1>6, <3>2
      <4>2. u.node[c].parent = i
        <5>1. CASE i = p
          <6>1. I = s
            BY <1>6, <5>1
          <6> QED BY <2>1, <2>4, <4>1, <5>1, <6>1 DEF Child
        <5>2. CASE i # p
          <6>1. I = i /\ i # s
            BY <1>6, <1>9, <2>1, <5>2
          <6>2. ~(s \in Inner(t) /\ Child(t, s, c))
            BY <2>4, <6>1, Children DEF Child
          <6> QED BY <2>4, <4>1, <6>1, <6>2
        <5> QED BY <5>1, <5>2
      <4> QED BY <2>4, <4>1, <4>2
    <3> QED BY <3>1, <3>2
  <2>. HIDE DEF I, l, r, k
  <2>5. l \in DOMAIN u.node /\ r \in DOMAIN u.node
    BY <1>2, <2>1
  <2> QED BY <2>1, <2>3, <2>4, <2>5 DEF Branch
<1>20. ASSUME NEW i \in E PROVE Hung(u, i)
  <2>1. CASE i = t.root
    BY <1>2, <2>1 DEF Hung
  <2>2. CASE i # t.root /\ i = p
    <3>1. /\ up \in Inner(t) /\ up \in D /\ up # p /\ Child(t, up, p)
          /\ t.node[up].mask + 1 <= t.node[p].mask
      BY <1>1, <2>2, Siblings DEF up, D, Child
    <3>2. up # n
      BY <3>1 DEF Inner, LeafNodes
    <3>3. up # s
      BY <1>1, <1>8, <3>1
    <3>4. up \in E /\ of(up) = up /\ u.node[p].parent = up
      BY <1>1, <1>3, <1>6, <1>a, <3>1, <3>2, <3>3
    <3>5. up \in Inner(u)
      BY <1>11, <3>1, <3>4
    <3>6. Child(u, up, p)
      BY <1>3, <3>1, <3>4 DEF Child
    <3> QED BY <2>2, <3>4, <3>5, <3>6 DEF Hung
  <2>3. CASE i # t.root /\ i # p /\ s \in Inner(t) /\ Child(t, s, i)
    <3>1. u.node[i].parent = p /\ p \in Inner(u)
      BY <1>1, <1>3, <1>6, <1>11, <2>3
    <3>2. Child(u, p, i)
      BY <1>1, <1>3, <1>6, <2>3 DEF Child
    <3> QED BY <3>1, <3>2 DEF Hung
  <2>4. CASE i # t.root /\ i # p /\ ~(s \in Inner(t) /\ Child(t, s, i))
    <3>. DEFINE j == t.node[i].parent
    <3>1. j \in Inner(t) /\ j \in D /\ Child(t, j, i)
      BY <1>9, <1>12, <2>4 DEF TrieInv, Hung, D
    <3>2. j # s /\ j # n
      BY <2>4, <3>1 DEF Inner, LeafNodes
    <3>3. j # p
      <4>1. Child(t, p, s) /\ Child(t, p, n)
        <5>. HIDE DEF j
        <5>1. n \in DOMAIN t.node
          BY <1>1 DEF D
        <5>2. (t.node[p].left = n /\ t.node[p].right = s) \/ (t.node[p].left = s /\ t.node[p].right = n)
          BY <5>1, Siblings DEF p, s
        <5> QED BY <5>2 DEF Child
      <4>2. (t.node[p].left = s /\ t.node[p].right = n) \/ (t.node[p].left = n /\ t.node[p].right = s)
        BY <1>1, <4>1 DEF Child
      <4> QED BY <1>9, <3>1, <4>2 DEF Child
    <3>4. j \in E /\ of(j) = j /\ u.node[i].parent = j
      BY <1>3, <1>6, <1>a, <2>4, <3>1, <3>2, <3>3
    <3>. HIDE DEF j
    <3>5. j \in Inner(u) /\ Child(u, j, i)
      BY <1>3, <1>11, <3>1, <3>4 DEF Child
    <3> QED BY <3>4, <3>5 DEF Hung
  <2> QED BY <2>1, <2>2, <2>3, <2>4
<1>21. ASSUME NEW i \in Inner(u) PROVE Covered(u, i)
  <2>. DEFINE I == of(i)
              l == t.node[I].left
              r == t.node[I].right
  <2>1. /\ I \in Inner(t) /\ I \in D /\ i \in E /\ l \in E /\ r \in E
        /\ u.node[i].left = l /\ u.node[i].right = r
    BY <1>12, <1>15
  <2>2. \A m \in D : m # I /\ Under(t, I, m) => Under(t, l, m) \/ Under(t, r, m)
    BY <2>1 DEF TrieInv, Covered, D
  <2>3. ASSUME NEW c \in E, NEW m \in E, Under(t, c, of(m)) PROVE Under(t, of(c), of(m))
    BY <1>4, <1>6, <1>14, <2>3
  <2>4. ASSUME NEW m \in E, m # i, Under(u, i, m) PROVE Under(u, l, m) \/ Under(u, r, m)
    <3>1. of(m) \in D /\ of(m) # I /\ Under(t, I, of(m))
      BY <1>4, <1>5, <1>10, <2>1, <2>4
    <3>2. Under(t, l, of(m)) \/ Under(t, r, of(m))
      BY <2>2, <3>1
    <3>. HIDE DEF I, l, r
    <3> QED BY <1>10, <2>1, <2>3, <3>2
  <2> QED BY <1>2, <2>1, <2>4 DEF Covered
<1>22. Distinct(u)
  <2>1. ASSUME NEW i \in E, NEW j \in E, Under(u, i, j), Under(u, j, i) PROVE i = j
    <3>1. of(i) = of(j)
      BY <1>4, <1>10, <2>1 DEF TrieInv, Distinct, D
    <3> QED BY <1>5, <3>1
  <2> QED BY <1>2, <2>1 DEF Distinct
<1>23. Entries(u) = Entries(t) \ {<<t.node[n].addr, t.node[n].leaf>>}
  <2>1. ASSUME NEW i \in LeafNodes(u)
        PROVE  <<u.node[i].addr, u.node[i].leaf>> \in Entries(t) \ {<<t.node[n].addr, t.node[n].leaf>>}
    <3>1. /\ i \in E /\ of(i) \in LeafNodes(t) /\ of(i) # n
          /\ u.node[i].addr = t.node[of(i)].addr /\ u.node[i].leaf = t.node[of(i)].leaf
      BY <1>3, <1>4, <1>11, <1>12
    <3>2. t.node[of(i)].addr # t.node[n].addr
      BY <3>1, LeafAddresses
    <3> QED BY <3>1, <3>2 DEF Entries
  <2>2. ASSUME NEW j \in LeafNodes(t), j # n
        PROVE  <<t.node[j].addr, t.node[j].leaf>> \in Entries(u)
    <3>1. j \in D /\ j # p
      BY <1>1, <1>12 DEF Inner, LeafNodes
    <3>2. PICK i \in E : of(i) = j
      <4>1. CASE j = s
        BY <1>1, <1>6, <4>1
      <4>2. CASE j # s
        BY <1>6, <1>a, <2>2, <3>1, <4>2
      <4> QED BY <4>1, <4>2
    <3>3. i \in LeafNodes(u) /\ u.node[i].addr = t.node[j].addr /\ u.node[i].leaf = t.node[j].leaf
      BY <1>3, <1>11, <3>2
    <3> QED BY <3>3 DEF Entries
  <2> QED BY <2>1, <2>2 DEF Entries
<1> QED BY <1>2, <1>16, <1>17, <1>18, <1>19, <1>20, <1>21, <1>22, <1>23 DEF TrieInv

\* pt_remove_leaf_node keeps the invariant and removes its leaf.
THEOREM RemoveKeepsTrie ==
  ASSUME NEW t, TrieInv(t), Counted(t), NEW n \in LeafNodes(t)
  PROVE  LET u == pt_remove_leaf_node(t, n) IN
         TrieInv(u) /\ Counted(u) /\ Entries(u) = Entries(t) \ {<<t.node[n].addr, t.node[n].leaf>>}
<1>. DEFINE u == pt_remove_leaf_node(t, n)
            entry == <<t.node[n].addr, t.node[n].leaf>>
<1>1. n \in DOMAIN t.node /\ entry \in Entries(t) /\ t.root # NULL /\ t.root \in DOMAIN t.node
  BY DEF LeafNodes, Entries, TrieInv, Rooted
<1>2. CASE n = t.root
  <2>1. t.node[n].parent = NULL
    BY <1>1, <1>2 DEF TrieInv, Rooted
  <2>2. u = EmptyTrie
    BY <2>1 DEF pt_remove_leaf_node
  <2>3. \A m \in DOMAIN t.node : m = n
    BY <1>2, LeafIsLast DEF TrieInv, Rooted
  <2>4. Entries(t) = {entry}
    BY <1>1, <2>3 DEF Entries, LeafNodes
  <2> QED BY <2>2, <2>4, EmptyTrieIsTrie
<1>3. CASE n # t.root
  <2>. DEFINE p == t.node[n].parent
              s == SiblingOf(t, n)
  <2>1. Removed(t, u, n, p, s)
    BY <1>3, RemoveDoes
  <2>2. p \in DOMAIN t.node /\ s \in DOMAIN t.node /\ n # s
    BY <1>1, <1>3, Siblings
  <2>. HIDE DEF u, entry
  <2>3. TrieInv(u) /\ Entries(u) = Entries(t) \ {entry}
    BY <1>3, <2>1, RemovalKeeps DEF entry
  <2>. HIDE DEF p, s
  <2>4. Counted(u)
    <3>1. /\ u.root = t.root /\ DOMAIN u.node = DOMAIN t.node \ {n, s}
      BY <2>1 DEF Removed
    <3>2. /\ IsFiniteSet(Entries(t)) /\ IsFiniteSet(DOMAIN t.node)
          /\ Cardinality(DOMAIN t.node) = 2 * Cardinality(Entries(t)) - 1
          /\ Cardinality(Entries(t)) \in Nat /\ Cardinality(DOMAIN t.node) \in Nat
      BY <1>1, FS_CardinalityType DEF Counted, TrieInv, Typed
    <3>3. IsFiniteSet(Entries(u)) /\ Cardinality(Entries(u)) = Cardinality(Entries(t)) - 1
      <4>. DEFINE S == Entries(t)
      <4>1. entry \in S /\ IsFiniteSet(S) /\ Entries(u) = S \ {entry}
        BY <1>1, <2>3, <3>2
      <4>. HIDE DEF S
      <4>2. IsFiniteSet(S \ {entry}) /\ Cardinality(S \ {entry}) = Cardinality(S) - 1
        BY <4>1, FS_RemoveElement, Zenon
      <4> QED BY <4>1, <4>2 DEF S
    <3>4. Cardinality(DOMAIN u.node) = Cardinality(DOMAIN t.node) - 2
      <4>. DEFINE N == DOMAIN t.node
      <4>1. n \in N /\ s \in N /\ IsFiniteSet(N) /\ s \in N \ {n}
        BY <1>1, <2>2, <3>2
      <4>. HIDE DEF N
      <4>2. IsFiniteSet(N \ {n}) /\ Cardinality(N \ {n}) = Cardinality(N) - 1
        BY <4>1, FS_RemoveElement, Zenon
      <4>3. Cardinality((N \ {n}) \ {s}) = Cardinality(N \ {n}) - 1
        BY <4>1, <4>2, FS_RemoveElement, Zenon
      <4>4. DOMAIN u.node = (N \ {n}) \ {s}
        BY <3>1 DEF N
      <4>5. Cardinality(N) \in Nat
        BY <4>1, FS_CardinalityType
      <4> QED BY <4>2, <4>3, <4>4, <4>5 DEF N
    <3> QED BY <1>1, <3>1, <3>2, <3>3, <3>4 DEF Counted
  <2> QED BY <2>3, <2>4 DEF u, entry
<1> QED BY <1>2, <1>3

\* The invariant implies what the runs check of a trie.
THEOREM TrieIsWellFormed ==
  ASSUME NEW t, TrieInv(t)
  PROVE  WellFormed(t)
<1>1. t.root = NULL <=> DOMAIN t.node = {}
  BY DEF TrieInv, Rooted
<1>2. ASSUME NEW n \in Inner(t)
      PROVE  LET l == t.node[n].left
                 r == t.node[n].right
                 k == t.node[n].mask
             IN /\ l \in DOMAIN t.node /\ r \in DOMAIN t.node
                /\ t.node[l].parent = n /\ t.node[r].parent = n
                /\ k = ChildrenMask(t.node, n)
                /\ k < t.node[l].mask /\ k < t.node[r].mask
                /\ NodePrefix(t.node, n) = Prefix(t.node[l].addr, k)
                /\ NodePrefix(t.node, n) = Prefix(t.node[r].addr, k)
                /\ NodePrefix(t.node, l) < NodePrefix(t.node, r)
  <2>. DEFINE l == t.node[n].left
              r == t.node[n].right
              k == t.node[n].mask
              x == NodePrefix(t.node, l)
              y == NodePrefix(t.node, r)
  <2>1. Branch(t, n)
    BY DEF TrieInv
  <2>2. /\ l \in DOMAIN t.node /\ r \in DOMAIN t.node
        /\ t.node[l].parent = n /\ t.node[r].parent = n
        /\ k < t.node[l].mask /\ k < t.node[r].mask
        /\ Agree(t.node[l].addr, t.node[n].addr, k) /\ Agree(t.node[r].addr, t.node[n].addr, k)
        /\ Prefix(t.node[l].addr, k + 1) < Prefix(t.node[r].addr, k + 1)
    BY <2>1 DEF Branch
  <2>3. k = ChildrenMask(t.node, n)
    BY MaskOfChildren
  <2>4. NodePrefix(t.node, n) = Prefix(t.node[l].addr, k) /\ NodePrefix(t.node, n) = Prefix(t.node[r].addr, k)
    BY <2>2 DEF Agree, NodePrefix
  <2>5. /\ t.node[l].addr \in Nat /\ t.node[l].mask \in Masks /\ t.node[r].addr \in Nat
        /\ t.node[r].mask \in Masks /\ k + 1 \in Masks
        /\ k + 1 <= t.node[l].mask /\ k + 1 <= t.node[r].mask
    BY <2>2, NodeFields, Children
  <2>6. x = Prefix(t.node[l].addr, t.node[l].mask) /\ y = Prefix(t.node[r].addr, t.node[r].mask)
    BY DEF NodePrefix
  <2>. HIDE DEF l, r, k, x, y
  <2>7. x \in Nat /\ y \in Nat
    BY <2>5, <2>6, Prefixes
  <2>8. Prefix(x, k + 1) = Prefix(t.node[l].addr, k + 1) /\ Prefix(y, k + 1) = Prefix(t.node[r].addr, k + 1)
    BY <2>5, <2>6, PrefixDown
  <2>9. Prefix(x, k + 1) \in Nat /\ Prefix(y, k + 1) \in Nat
    BY <2>5, <2>7, Prefixes
  <2>10. x < y
    <3>1. y <= x => Prefix(y, k + 1) <= Prefix(x, k + 1)
      BY <2>5, <2>7, PrefixOrder
    <3> QED BY <2>2, <2>7, <2>8, <2>9, <3>1
  <2> QED BY <2>2, <2>3, <2>4, <2>10 DEF l, r, k, x, y
<1>3. ASSUME NEW n \in DOMAIN t.node
      PROVE  IF t.node[n].parent = NULL THEN n = t.root
             ELSE t.node[n].parent \in Inner(t) /\ Child(t, t.node[n].parent, n)
  <2>1. Hung(t, n) /\ (n = t.root => t.node[n].parent = NULL) /\ NULL \notin Inner(t)
    BY DEF TrieInv, Rooted, Typed, Inner, NULL
  <2> QED BY <2>1 DEF Hung
<1> QED BY <1>1, <1>2, <1>3 DEF WellFormed, Inner, Child

-----------------------------------------------------------------------------
(* Searches *)

\* A walk down the trie ends.
LEMMA Downward ==
  ASSUME NEW t, TrieInv(t), NEW next \in [DOMAIN t.node -> DOMAIN t.node],
         \A n \in DOMAIN t.node :
           next[n] = n \/ (n \in Inner(t) /\ Child(t, n, next[n])),
         NEW I \in SUBSET DOMAIN t.node, \A n \in I : next[n] \in I, NEW from \in I
  PROVE  Descend(from, next) \in I /\ next[Descend(from, next)] = Descend(from, next)
<1>. DEFINE D == DOMAIN t.node
            rank == [n \in D |-> WORDBITS - t.node[n].mask]
<1>1. WORDBITS \in Nat
  BY Units
<1>2. \A n \in D : t.node[n].mask \in Nat /\ t.node[n].mask <= WORDBITS
  BY NodeFields DEF Masks
<1>3. rank \in [D -> 0 .. WORDBITS]
  BY <1>1, <1>2
<1>4. ASSUME NEW n \in D, next[n] # n PROVE rank[next[n]] < rank[n]
  <2>1. n \in Inner(t) /\ Child(t, n, next[n]) /\ next[n] \in D
    BY <1>4
  <2>2. t.node[n].mask + 1 <= t.node[next[n]].mask
    BY <2>1, Children DEF Child
  <2>3. rank[n] = WORDBITS - t.node[n].mask /\ rank[next[n]] = WORDBITS - t.node[next[n]].mask
    BY <2>1
  <2> QED BY <1>1, <1>2, <2>1, <2>2, <2>3
<1>. HIDE DEF rank
<1>5. \A n \in D : next[n] = n \/ rank[next[n]] < rank[n]
  BY <1>4
<1> QED BY <1>1, <1>3, <1>5, Descent

\* The node that the word matches.
LEMMA MatchesLeaf ==
  ASSUME NEW t, TrieInv(t), NEW n \in LeafNodes(t), NEW m \in DOMAIN t.node
  PROVE  (NodePrefix(t.node, m) = Prefix(t.node[n].addr, t.node[m].mask)) <=> Under(t, m, n)
<1>1. n \in DOMAIN t.node /\ t.node[n].mask = WORDBITS
  BY DEF LeafNodes, TrieInv
<1>2. t.node[m].mask <= t.node[n].mask
  BY <1>1, NodeFields DEF Masks
<1> QED BY <1>2 DEF NodePrefix, Under, Agree

\* A search that goes where the word matches ends at its leaf.
LEMMA FollowsToLeaf ==
  ASSUME NEW t, TrieInv(t), NEW n \in LeafNodes(t),
         NEW next \in [DOMAIN t.node -> DOMAIN t.node],
         \A m \in LeafNodes(t) : next[m] = m,
         \A m \in Inner(t) : next[m] = m \/ Child(t, m, next[m]),
         \A m \in Inner(t) : Under(t, m, n) => Under(t, next[m], n) /\ next[m] # m
  PROVE  Descend(t.root, next) = n
<1>. DEFINE D == DOMAIN t.node
            I == {m \in D : Under(t, m, n)}
            end == Descend(t.root, next)
<1>1. n \in D /\ D = LeafNodes(t) \cup Inner(t)
  BY DEF LeafNodes, Inner
<1>2. t.root \in I
  BY <1>1 DEF TrieInv, Rooted
<1>3. \A m \in I : next[m] \in I
  BY <1>1
<1>4. \A m \in D : next[m] = m \/ (m \in Inner(t) /\ Child(t, m, next[m]))
  BY <1>1
<1>5. I \in SUBSET D
  OBVIOUS
<1>6. end \in I /\ next[end] = end
  <2>. HIDE DEF I
  <2> QED BY <1>2, <1>3, <1>4, <1>5, Downward
<1>7. end \in D /\ Under(t, end, n)
  BY <1>6
<1>. HIDE DEF end
<1>8. end \in LeafNodes(t)
  BY <1>1, <1>6, <1>7
<1>9. n = end
  BY <1>1, <1>7, <1>8, LeafIsLast
<1> QED BY <1>9 DEF end

\* Every node below an inner one is below one of its children.
LEMMA OneChild ==
  ASSUME NEW t, TrieInv(t), NEW m \in Inner(t), NEW n \in LeafNodes(t), Under(t, m, n)
  PROVE  Under(t, t.node[m].left, n) \/ Under(t, t.node[m].right, n)
<1>1. m # n /\ n \in DOMAIN t.node
  BY DEF Inner, LeafNodes
<1> QED BY <1>1 DEF TrieInv, Covered

\* pt_get_leaf_node_from_leaf finds the leaf that starts at ptr.
LEMMA GetLeafFound ==
  ASSUME NEW t, TrieInv(t), NEW n \in LeafNodes(t)
  PROVE  pt_get_leaf_node_from_leaf(t, t.node[n].addr) = n
<1>. DEFINE ptr == t.node[n].addr
            follows(child) == NodePrefix(t.node, child) = Prefix(ptr, t.node[child].mask)
            next == [m \in DOMAIN t.node |->
                 LET nd == t.node[m] IN
                 CASE nd.leaf # NULL -> m
                   [] nd.leaf = NULL /\ follows(nd.right) -> nd.right
                   [] nd.leaf = NULL /\ ~follows(nd.right) /\ follows(nd.left) -> nd.left
                   [] OTHER -> m]
            end == Descend(t.root, next)
<1>1. pt_get_leaf_node_from_leaf(t, ptr) = IF t.node[end].leaf # NULL THEN end ELSE NULL
  BY DEF pt_get_leaf_node_from_leaf
<1>2. /\ DOMAIN next = DOMAIN t.node /\ next = [m \in DOMAIN t.node |-> next[m]]
      /\ \A m \in LeafNodes(t) : next[m] = m
      /\ \A m \in Inner(t) :
           next[m] = IF follows(t.node[m].right) THEN t.node[m].right
                     ELSE IF follows(t.node[m].left) THEN t.node[m].left ELSE m
  BY DEF LeafNodes, Inner
<1>. HIDE DEF next
<1>3. \A m \in DOMAIN t.node : follows(m) <=> Under(t, m, n)
  BY MatchesLeaf
<1>. HIDE DEF follows
<1>4. ASSUME NEW m \in Inner(t)
      PROVE  /\ next[m] = m \/ Child(t, m, next[m])
             /\ next[m] \in DOMAIN t.node
             /\ Under(t, m, n) => Under(t, next[m], n) /\ next[m] # m
  <2>1. /\ t.node[m].left \in DOMAIN t.node /\ t.node[m].right \in DOMAIN t.node
        /\ t.node[m].left # m /\ t.node[m].right # m /\ m \in DOMAIN t.node
    BY Children
  <2>2. Under(t, m, n) => Under(t, t.node[m].left, n) \/ Under(t, t.node[m].right, n)
    BY OneChild
  <2> QED BY <1>2, <1>3, <2>1, <2>2 DEF Child
<1>5. next \in [DOMAIN t.node -> DOMAIN t.node]
  <2>1. DOMAIN t.node = LeafNodes(t) \cup Inner(t)
    BY DEF LeafNodes, Inner
  <2> QED BY <1>2, <1>4, <2>1
<1>6. end = n
  <2>1. /\ \A m \in Inner(t) : next[m] = m \/ Child(t, m, next[m])
        /\ \A m \in Inner(t) : Under(t, m, n) => Under(t, next[m], n) /\ next[m] # m
        /\ \A m \in LeafNodes(t) : next[m] = m
    BY <1>2, <1>4
  <2>2. Descend(t.root, next) = n
    BY <1>5, <2>1, FollowsToLeaf
  <2> QED BY <2>2
<1>. HIDE DEF end, ptr
<1>7. t.node[n].leaf # NULL
  BY DEF LeafNodes
<1> QED BY <1>1, <1>6, <1>7 DEF ptr

\* pt_lookup finds the leaf that starts at ptr.
LEMMA LookupFound ==
  ASSUME NEW t, TrieInv(t), NEW n \in LeafNodes(t)
  PROVE  pt_lookup(t, t.node[n].addr) = t.node[n].leaf
<1>. DEFINE ptr == t.node[n].addr
            follows(m) == NodePrefix(t.node, m) = Prefix(ptr, t.node[m].mask)
            next == [m \in DOMAIN t.node |->
                 LET nd == t.node[m] IN
                 CASE nd.leaf # NULL -> m
                   [] nd.leaf = NULL /\ follows(m) /\ follows(nd.right) -> nd.right
                   [] nd.leaf = NULL /\ follows(m) /\ ~follows(nd.right) /\ follows(nd.left) ->
                        nd.left
                   [] OTHER -> m]
            end == Descend(t.root, next)
<1>1. pt_lookup(t, ptr) =
        IF t.node[end].leaf # NULL /\ t.node[end].addr = ptr THEN t.node[end].leaf ELSE NULL
  BY DEF pt_lookup
<1>2. /\ DOMAIN next = DOMAIN t.node /\ next = [m \in DOMAIN t.node |-> next[m]]
      /\ \A m \in LeafNodes(t) : next[m] = m
      /\ \A m \in Inner(t) :
           next[m] = IF follows(m) /\ follows(t.node[m].right) THEN t.node[m].right
                     ELSE IF follows(m) /\ follows(t.node[m].left) THEN t.node[m].left ELSE m
  BY DEF LeafNodes, Inner
<1>. HIDE DEF next
<1>3. \A m \in DOMAIN t.node : follows(m) <=> Under(t, m, n)
  BY MatchesLeaf
<1>. HIDE DEF follows
<1>4. ASSUME NEW m \in Inner(t)
      PROVE  /\ next[m] = m \/ Child(t, m, next[m])
             /\ next[m] \in DOMAIN t.node
             /\ Under(t, m, n) => Under(t, next[m], n) /\ next[m] # m
  <2>1. /\ t.node[m].left \in DOMAIN t.node /\ t.node[m].right \in DOMAIN t.node
        /\ t.node[m].left # m /\ t.node[m].right # m /\ m \in DOMAIN t.node
    BY Children
  <2>2. Under(t, m, n) => Under(t, t.node[m].left, n) \/ Under(t, t.node[m].right, n)
    BY OneChild
  <2> QED BY <1>2, <1>3, <2>1, <2>2 DEF Child
<1>5. next \in [DOMAIN t.node -> DOMAIN t.node]
  <2>1. DOMAIN t.node = LeafNodes(t) \cup Inner(t)
    BY DEF LeafNodes, Inner
  <2> QED BY <1>2, <1>4, <2>1
<1>6. end = n
  <2>1. /\ \A m \in Inner(t) : next[m] = m \/ Child(t, m, next[m])
        /\ \A m \in Inner(t) : Under(t, m, n) => Under(t, next[m], n) /\ next[m] # m
        /\ \A m \in LeafNodes(t) : next[m] = m
    BY <1>2, <1>4
  <2>2. Descend(t.root, next) = n
    BY <1>5, <2>1, FollowsToLeaf
  <2> QED BY <2>2
<1>. HIDE DEF end, ptr
<1>7. t.node[n].leaf # NULL
  BY DEF LeafNodes
<1> QED BY <1>1, <1>6, <1>7 DEF ptr

\* Where no leaf starts it finds none.
LEMMA LookupNotFound ==
  ASSUME NEW t, TrieInv(t), t.root # NULL, NEW ptr, NoLeafAt(t, ptr)
  PROVE  pt_lookup(t, ptr) = NULL
<1>. DEFINE D == DOMAIN t.node
            follows(m) == NodePrefix(t.node, m) = Prefix(ptr, t.node[m].mask)
            next == [m \in DOMAIN t.node |->
                 LET nd == t.node[m] IN
                 CASE nd.leaf # NULL -> m
                   [] nd.leaf = NULL /\ follows(m) /\ follows(nd.right) -> nd.right
                   [] nd.leaf = NULL /\ follows(m) /\ ~follows(nd.right) /\ follows(nd.left) ->
                        nd.left
                   [] OTHER -> m]
            end == Descend(t.root, next)
<1>1. pt_lookup(t, ptr) =
        IF t.node[end].leaf # NULL /\ t.node[end].addr = ptr THEN t.node[end].leaf ELSE NULL
  BY DEF pt_lookup
<1>2. /\ DOMAIN next = DOMAIN t.node /\ next = [m \in DOMAIN t.node |-> next[m]]
      /\ \A m \in D : next[m] = m \/ (m \in Inner(t) /\ Child(t, m, next[m]))
  BY DEF Inner, Child
<1>. HIDE DEF next
<1>3. \A m \in D : next[m] \in D
  <2>1. \A m \in Inner(t) : t.node[m].left \in DOMAIN t.node /\ t.node[m].right \in DOMAIN t.node
    BY Children
  <2> QED BY <1>2, <2>1 DEF Child
<1>4. next \in [DOMAIN t.node -> DOMAIN t.node]
  BY <1>2, <1>3
<1>5. t.root \in D
  BY DEF TrieInv, Rooted
<1>6. end \in D
  BY <1>2, <1>3, <1>4, <1>5, Downward
<1>. HIDE DEF end
<1>7. t.node[end].leaf # NULL => t.node[end].addr # ptr
  BY <1>6 DEF NoLeafAt, LeafNodes
<1> QED BY <1>1, <1>7

\* Below every node there is a leaf.
LEMMA LeafBelow ==
  ASSUME NEW t, TrieInv(t), NEW n \in DOMAIN t.node
  PROVE  \E m \in LeafNodes(t) : Under(t, n, m)
<1>. DEFINE Below == {m \in DOMAIN t.node : Under(t, n, m)}
            Depth == {WORDBITS - t.node[m].mask : m \in Below}
<1>1. WORDBITS \in Nat /\ \A m \in DOMAIN t.node : t.node[m].mask \in Nat /\ t.node[m].mask <= WORDBITS
  BY NodeFields, Units DEF Masks
<1>2. Depth \subseteq Nat
  BY <1>1
<1>3. n \in Below
  BY UnderItself
<1>4. Depth # {}
  BY <1>3
<1>5. PICK d \in Depth : \A e \in Depth : d <= e
  BY <1>2, <1>4, NatMinimum
<1>6. PICK m \in Below : d = WORDBITS - t.node[m].mask
  BY <1>5
<1>7. \A k \in Below : d <= WORDBITS - t.node[k].mask
  BY <1>5
<1>8. m \in DOMAIN t.node /\ Under(t, n, m)
  BY <1>6
<1>9. ASSUME m \in Inner(t) PROVE FALSE
  <2>. DEFINE l == t.node[m].left
  <2>1. l \in DOMAIN t.node /\ Under(t, m, l) /\ t.node[m].mask + 1 <= t.node[l].mask
    BY <1>9, Children
  <2>2. Under(t, n, l)
    BY <1>8, <2>1, UnderUnder
  <2>3. l \in Below
    BY <2>1, <2>2
  <2>. HIDE DEF l, Below
  <2> QED BY <1>1, <1>6, <1>7, <1>8, <2>1, <2>3
<1> QED BY <1>8, <1>9 DEF Inner, LeafNodes

\* What is below the left child starts before what is below the right one.
LEMMA LeftBeforeRight ==
  ASSUME NEW t, TrieInv(t), NEW n \in Inner(t), NEW m \in DOMAIN t.node, NEW x \in Nat,
         Under(t, t.node[n].left, m),
         Prefix(t.node[t.node[n].right].addr, t.node[n].mask + 1) <= Prefix(x, t.node[n].mask + 1)
  PROVE  t.node[m].addr < x
<1>. DEFINE l == t.node[n].left
            r == t.node[n].right
            k == t.node[n].mask + 1
            a == t.node[m].addr
<1>1. l \in DOMAIN t.node /\ r \in DOMAIN t.node /\ k \in Masks /\ k <= t.node[l].mask
  BY Children
<1>2. a \in Nat /\ t.node[l].addr \in Nat /\ t.node[r].addr \in Nat /\ t.node[l].mask \in Masks
  BY <1>1, NodeFields
<1>3. Prefix(t.node[l].addr, k) < Prefix(t.node[r].addr, k)
  BY DEF TrieInv, Branch
<1>4. Agree(a, t.node[l].addr, t.node[l].mask)
  BY DEF Under
<1>5. Prefix(t.node[r].addr, k) <= Prefix(x, k)
  OBVIOUS
<1>. HIDE DEF l, r, k, a
<1>6. Prefix(a, k) = Prefix(t.node[l].addr, k)
  BY <1>1, <1>2, <1>4, AgreeDown DEF Agree
<1>7. /\ Prefix(a, k) \in Nat /\ Prefix(x, k) \in Nat /\ Prefix(t.node[r].addr, k) \in Nat
      /\ Prefix(t.node[l].addr, k) \in Nat
  BY <1>1, <1>2, Prefixes
<1>8. Prefix(a, k) < Prefix(x, k)
  BY <1>3, <1>5, <1>6, <1>7
<1>9. x <= a => Prefix(x, k) <= Prefix(a, k)
  BY <1>1, <1>2, PrefixOrder
<1> QED BY <1>2, <1>7, <1>8, <1>9 DEF a

\* What is on the left of a node is before what is on its right.
LEMMA LeavesInOrder ==
  ASSUME NEW t, TrieInv(t), NEW n \in Inner(t), NEW m \in DOMAIN t.node, NEW k \in DOMAIN t.node,
         Under(t, t.node[n].left, m), Under(t, t.node[n].right, k)
  PROVE  t.node[m].addr < t.node[k].addr
<1>. DEFINE r == t.node[n].right
            i == t.node[n].mask + 1
            x == t.node[k].addr
<1>1. r \in DOMAIN t.node /\ i \in Masks /\ i <= t.node[r].mask
  BY Children
<1>2. x \in Nat /\ t.node[r].addr \in Nat /\ t.node[r].mask \in Masks
  BY <1>1, NodeFields
<1>3. Prefix(x, i) = Prefix(t.node[r].addr, i)
  <2>1. Agree(x, t.node[r].addr, t.node[r].mask)
    BY DEF Under
  <2>. HIDE DEF x, i, r
  <2> QED BY <1>1, <1>2, <2>1, AgreeDown DEF Agree
<1>4. Prefix(x, i) \in Nat
  BY <1>1, <1>2, Prefixes
<1>5. Prefix(t.node[t.node[n].right].addr, t.node[n].mask + 1) <= Prefix(t.node[k].addr, t.node[n].mask + 1)
  BY <1>3, <1>4
<1> QED BY <1>2, <1>5, LeftBeforeRight

FindWalks(t) == (DOMAIN t.node) \X (DOMAIN t.node \cup {NULL})

\* The walk of pt_find on pairs of a node and the node to come back to: it ends,
\* since what is left under the two of them gets less.
LEMMA FindDescent ==
  ASSUME NEW t, TrieInv(t), NEW next \in [FindWalks(t) -> FindWalks(t)],
         \A w \in FindWalks(t) :
           \/ next[w] = w
           \/ w[1] \in Inner(t) /\ next[w] = <<t.node[w[1]].right, t.node[w[1]].left>>
           \/ w[1] \in Inner(t) /\ next[w] = <<t.node[w[1]].left, w[2]>>
           \/ w[2] # NULL /\ next[w] = <<w[2], NULL>>,
         NEW I \in SUBSET FindWalks(t), \A w \in I : next[w] \in I, NEW from \in I
  PROVE  Descend(from, next) \in I /\ next[Descend(from, next)] = Descend(from, next)
<1>. DEFINE D == DOMAIN t.node
            W == FindWalks(t)
            height(n) == WORDBITS - t.node[n].mask
            back(o) == IF o = NULL THEN 0 ELSE height(o) + 1
            most(n, o) == IF back(o) > height(n) THEN back(o) ELSE height(n)
            here(n, o) == IF o = NULL THEN WORDBITS + 1 ELSE height(n)
            weight(n, o) == 100 * most(n, o) + here(n, o)
            rank == [w \in W |-> weight(w[1], w[2])]
            top == 101 * (WORDBITS + 1)
<1>1. WORDBITS \in Nat /\ WORDBITS <= 64 /\ top \in Nat
  BY Units
<1>2. \A n \in D : height(n) \in 0 .. WORDBITS
  BY <1>1, NodeFields DEF Masks
<1>3. \A w \in W : w[1] \in D /\ w[2] \in D \cup {NULL} /\ w = <<w[1], w[2]>>
  BY DEF FindWalks
<1>4. \A w \in W : rank[w] = weight(w[1], w[2])
  OBVIOUS
<1>5. \A n \in Inner(t) :
        /\ n \in D /\ t.node[n].left \in D /\ t.node[n].right \in D
        /\ t.node[n].left # NULL /\ t.node[n].right # NULL
        /\ height(t.node[n].left) < height(n) /\ height(t.node[n].right) < height(n)
  <2>1. ASSUME NEW n \in Inner(t)
        PROVE  /\ n \in D /\ t.node[n].left \in D /\ t.node[n].right \in D
               /\ t.node[n].left # NULL /\ t.node[n].right # NULL
               /\ t.node[n].mask + 1 <= t.node[t.node[n].left].mask
               /\ t.node[n].mask + 1 <= t.node[t.node[n].right].mask
    BY Children
  <2>2. ASSUME NEW n \in D PROVE t.node[n].mask \in Nat
    BY NodeFields
  <2> QED BY <1>1, <2>1, <2>2
<1>6. rank = [w \in W |-> rank[w]]
  OBVIOUS
<1>. HIDE DEF D, height, rank
<1>7. ASSUME NEW n \in D, NEW o \in D \cup {NULL}
      PROVE  weight(n, o) \in Nat /\ weight(n, o) <= top
  <2>1. height(n) \in Nat /\ height(n) <= WORDBITS
    BY <1>2
  <2>2. CASE o = NULL
    <3>1. weight(n, o) = 100 * height(n) + (WORDBITS + 1)
      BY <1>1, <2>1, <2>2
    <3>. HIDE DEF weight
    <3> QED BY <1>1, <2>1, <3>1
  <2>3. CASE o # NULL
    <3>1. height(o) \in Nat /\ height(o) <= WORDBITS
      BY <1>2, <2>3
    <3>2. /\ most(n, o) \in Nat /\ here(n, o) \in Nat
          /\ most(n, o) <= WORDBITS + 1 /\ here(n, o) <= WORDBITS + 1
      BY <1>1, <2>1, <2>3, <3>1
    <3>. HIDE DEF most, here
    <3>3. weight(n, o) = 100 * most(n, o) + here(n, o)
      OBVIOUS
    <3>. HIDE DEF weight
    <3> QED BY <1>1, <3>2, <3>3
  <2> QED BY <2>2, <2>3
<1>. HIDE DEF weight, top
<1>8. \A w \in W : rank[w] \in 0 .. top
  <2>1. ASSUME NEW w \in W PROVE rank[w] \in Nat /\ rank[w] <= top
    BY <1>3, <1>4, <1>7
  <2> QED BY <1>1, <2>1
<1>9. ASSUME NEW w \in W, next[w] # w PROVE rank[next[w]] < rank[w]
  <2>. DEFINE n == w[1]
              o == w[2]
  <2>1. n \in D /\ o \in D \cup {NULL} /\ rank[w] = weight(n, o)
    BY <1>3, <1>4
  <2>2. next[w] \in W
    BY <1>9
  <2>3. height(n) \in 0 .. WORDBITS /\ (o # NULL => height(o) \in 0 .. WORDBITS)
    BY <1>2, <2>1
  <2>4. CASE n \in Inner(t) /\ next[w] = <<t.node[n].right, t.node[n].left>>
    <3>. DEFINE r == t.node[n].right
                l == t.node[n].left
    <3>1. rank[next[w]] = weight(r, l)
      BY <1>4, <2>2, <2>4
    <3>2. /\ l # NULL /\ height(l) < height(n) /\ height(r) < height(n)
          /\ height(l) \in 0 .. WORDBITS /\ height(r) \in 0 .. WORDBITS
      BY <1>2, <1>5, <2>4
    <3>. HIDE DEF n, o, l, r
    <3>3. most(r, l) <= most(n, o) /\ here(r, l) < here(n, o)
      BY <1>1, <2>3, <3>2
    <3>4. most(r, l) \in Nat /\ most(n, o) \in Nat /\ here(r, l) \in Nat /\ here(n, o) \in Nat
      BY <1>1, <2>3, <3>2
    <3>. HIDE DEF most, here
    <3>5. weight(r, l) < weight(n, o)
      BY <3>3, <3>4 DEF weight
    <3> QED BY <2>1, <3>1, <3>5
  <2>5. CASE n \in Inner(t) /\ next[w] = <<t.node[n].left, o>>
    <3>. DEFINE l == t.node[n].left
    <3>1. rank[next[w]] = weight(l, o)
      BY <1>4, <2>2, <2>5
    <3>2. height(l) < height(n) /\ height(l) \in 0 .. WORDBITS
      BY <1>2, <1>5, <2>5
    <3>. HIDE DEF n, o, l
    <3>3. CASE o = NULL
      <4>1. weight(l, o) = 100 * height(l) + (WORDBITS + 1) /\ weight(n, o) = 100 * height(n) + (WORDBITS + 1)
        BY <1>1, <2>3, <3>2, <3>3 DEF weight
      <4>2. weight(l, o) < weight(n, o)
        BY <1>1, <2>3, <3>2, <4>1
      <4> QED BY <2>1, <3>1, <4>2
    <3>4. CASE o # NULL
      <4>1. most(l, o) <= most(n, o) /\ here(l, o) < here(n, o)
        BY <1>1, <2>3, <3>2, <3>4
      <4>2. most(l, o) \in Nat /\ most(n, o) \in Nat /\ here(l, o) \in Nat /\ here(n, o) \in Nat
        BY <1>1, <2>3, <3>2, <3>4
      <4>. HIDE DEF most, here
      <4>3. weight(l, o) < weight(n, o)
        BY <4>1, <4>2 DEF weight
      <4> QED BY <2>1, <3>1, <4>3
    <3> QED BY <3>3, <3>4
  <2>6. CASE o # NULL /\ next[w] = <<o, NULL>>
    <3>1. rank[next[w]] = weight(o, NULL)
      BY <1>4, <2>2, <2>6
    <3>. HIDE DEF n, o
    <3>2. most(o, NULL) + 1 <= most(n, o) /\ here(o, NULL) <= 65 /\ here(n, o) >= 0
      BY <1>1, <2>3, <2>6
    <3>3. most(o, NULL) \in Nat /\ most(n, o) \in Nat /\ here(o, NULL) \in Nat /\ here(n, o) \in Nat
      BY <1>1, <2>3, <2>6
    <3>. HIDE DEF most, here
    <3>4. weight(o, NULL) < weight(n, o)
      BY <3>2, <3>3 DEF weight
    <3> QED BY <2>1, <3>1, <3>4
  <2> QED BY <1>9, <2>4, <2>5, <2>6
<1>10. rank \in [W -> 0 .. top]
  BY <1>6, <1>8
<1>11. \A w \in W : next[w] = w \/ rank[next[w]] < rank[w]
  BY <1>9
<1> QED BY <1>1, <1>10, <1>11, Descent

\* The steps of pt_find, and where they end.
FindBelow(t, ptr, n) == NodePrefix(t.node, n) <= Prefix(ptr, t.node[n].mask)

FindNext(t, ptr) ==
  [w \in (DOMAIN t.node) \X (DOMAIN t.node \cup {NULL}) |->
     LET nd == t.node[w[1]]
         other == w[2]
     IN  CASE nd.leaf # NULL -> w
           [] nd.leaf = NULL /\ FindBelow(t, ptr, nd.right) -> <<nd.right, nd.left>>
           [] nd.leaf = NULL /\ ~FindBelow(t, ptr, nd.right) /\ FindBelow(t, ptr, nd.left) ->
                <<nd.left, other>>
           [] OTHER -> IF other = NULL THEN w ELSE <<other, NULL>>]

\* pt_find as a loop on the node and the branch it has passed.
LEMMA FindSteps ==
  ASSUME NEW t, TrieInv(t), t.root # NULL, NEW ptr, ptr # NULL, NEW holders
  PROVE  LET next == FindNext(t, ptr)
             end == t.node[Descend(<<t.root, NULL>>, next)[1]]
         IN /\ pt_find(t, holders, ptr) =
                 IF end.leaf # NULL /\ end.addr <= ptr /\ end.leaf \in holders THEN end.leaf ELSE NULL
            /\ next \in [FindWalks(t) -> FindWalks(t)]
            /\ \A n \in LeafNodes(t), o \in DOMAIN t.node \cup {NULL} : next[<<n, o>>] = <<n, o>>
            /\ \A n \in Inner(t), o \in DOMAIN t.node \cup {NULL} :
                 next[<<n, o>>] =
                   IF FindBelow(t, ptr, t.node[n].right) THEN <<t.node[n].right, t.node[n].left>>
                   ELSE IF FindBelow(t, ptr, t.node[n].left) THEN <<t.node[n].left, o>>
                   ELSE IF o = NULL THEN <<n, o>> ELSE <<o, NULL>>
            /\ <<t.root, NULL>> \in FindWalks(t)
<1>. DEFINE next == FindNext(t, ptr)
            end == t.node[Descend(<<t.root, NULL>>, next)[1]]
            D == DOMAIN t.node
<1>1. pt_find(t, holders, ptr) =
         IF end.leaf # NULL /\ end.addr <= ptr /\ end.leaf \in holders THEN end.leaf ELSE NULL
  BY DEF pt_find, FindNext, FindBelow
<1>2. /\ DOMAIN next = FindWalks(t) /\ next = [w \in FindWalks(t) |-> next[w]]
      /\ \A n \in LeafNodes(t), o \in D \cup {NULL} : next[<<n, o>>] = <<n, o>>
  BY DEF FindNext, FindWalks, LeafNodes
<1>3. ASSUME NEW n \in Inner(t), NEW o \in D \cup {NULL}
      PROVE  next[<<n, o>>] =
                   IF FindBelow(t, ptr, t.node[n].right) THEN <<t.node[n].right, t.node[n].left>>
                   ELSE IF FindBelow(t, ptr, t.node[n].left) THEN <<t.node[n].left, o>>
                   ELSE IF o = NULL THEN <<n, o>> ELSE <<o, NULL>>
  <2>1. n \in D /\ t.node[n].leaf = NULL
    BY DEF Inner
  <2>2. <<n, o>> \in D \X (D \cup {NULL}) /\ <<n, o>>[1] = n /\ <<n, o>>[2] = o
    BY <2>1
  <2>3. next[<<n, o>>] =
          LET nd == t.node[n]
          IN  CASE nd.leaf # NULL -> <<n, o>>
                [] nd.leaf = NULL /\ FindBelow(t, ptr, nd.right) -> <<nd.right, nd.left>>
                [] nd.leaf = NULL /\ ~FindBelow(t, ptr, nd.right) /\ FindBelow(t, ptr, nd.left) ->
                     <<nd.left, o>>
                [] OTHER -> IF o = NULL THEN <<n, o>> ELSE <<o, NULL>>
    BY <2>2 DEF FindNext
  <2>. HIDE DEF next
  <2> QED BY <2>1, <2>3
<1>4. <<t.root, NULL>> \in FindWalks(t)
  BY DEF TrieInv, Rooted, FindWalks
<1>5. D = LeafNodes(t) \cup Inner(t)
  BY DEF LeafNodes, Inner
<1>. HIDE DEF next, end
<1>6. ASSUME NEW w \in FindWalks(t) PROVE next[w] \in FindWalks(t)
  <2>1. PICK n \in D, o \in D \cup {NULL} : w = <<n, o>>
    BY DEF FindWalks
  <2>2. CASE n \in LeafNodes(t)
    BY <1>2, <1>6, <2>1, <2>2
  <2>3. CASE n \in Inner(t)
    <3>1. t.node[n].left \in D /\ t.node[n].right \in D
      BY <2>3, Children
    <3>2. \/ next[w] = <<t.node[n].right, t.node[n].left>>
          \/ next[w] = <<t.node[n].left, o>>
          \/ next[w] = w
          \/ o # NULL /\ next[w] = <<o, NULL>>
      BY <1>3, <2>1, <2>3
    <3> QED BY <1>6, <2>1, <3>1, <3>2 DEF FindWalks
  <2> QED BY <1>5, <2>1, <2>2, <2>3
<1>7. next \in [FindWalks(t) -> FindWalks(t)]
  BY <1>2, <1>6
<1> QED BY <1>1, <1>2, <1>3, <1>4, <1>7 DEF next, end

\* pt_find ends at the last leaf that starts at ptr or before.
LEMMA FindFound ==
  ASSUME NEW t, TrieInv(t), NEW ptr \in Word \ {NULL}, NEW holders,
         NEW last \in LeafNodes(t), t.node[last].addr <= ptr,
         \A m \in LeafNodes(t) : t.node[m].addr <= ptr => t.node[m].addr <= t.node[last].addr
  PROVE  pt_find(t, holders, ptr) = IF t.node[last].leaf \in holders THEN t.node[last].leaf ELSE NULL
<1>. DEFINE D == DOMAIN t.node
            next == FindNext(t, ptr)
            below(n) == FindBelow(t, ptr, n)
            end == Descend(<<t.root, NULL>>, next)
            After(n) == \A m \in LeafNodes(t) : Under(t, n, m) => ~(t.node[m].addr <= ptr)
            Good(n, o) == \/ Under(t, n, last)
                          \/ below(n) /\ After(n) /\ o \in D /\ Under(t, o, last)
            I == {w \in FindWalks(t) : Good(w[1], w[2])}
<1>1. last \in D /\ t.root # NULL /\ t.root \in D /\ D = LeafNodes(t) \cup Inner(t)
  BY DEF LeafNodes, Inner, TrieInv, Rooted
<1>2. /\ pt_find(t, holders, ptr) =
           IF t.node[end[1]].leaf # NULL /\ t.node[end[1]].addr <= ptr /\ t.node[end[1]].leaf \in holders
           THEN t.node[end[1]].leaf ELSE NULL
      /\ next \in [FindWalks(t) -> FindWalks(t)]
      /\ \A n \in LeafNodes(t), o \in D \cup {NULL} : next[<<n, o>>] = <<n, o>>
      /\ \A n \in Inner(t), o \in D \cup {NULL} :
           next[<<n, o>>] =
             IF below(t.node[n].right) THEN <<t.node[n].right, t.node[n].left>>
             ELSE IF below(t.node[n].left) THEN <<t.node[n].left, o>>
             ELSE IF o = NULL THEN <<n, o>> ELSE <<o, NULL>>
      /\ <<t.root, NULL>> \in FindWalks(t)
  BY <1>1, FindSteps
<1>3. /\ \A n \in D, o \in D \cup {NULL} : <<n, o>> \in I <=> Good(n, o)
      /\ \A w \in FindWalks(t) : \E n \in D, o \in D \cup {NULL} : w = <<n, o>>
      /\ I \in SUBSET FindWalks(t)
  BY DEF FindWalks
<1>4. ptr \in Nat /\ \A n \in D : t.node[n].addr \in Nat /\ t.node[n].mask \in Masks
  BY NodeFields DEF Word
<1>5. \A n \in D : below(n) <=> Prefix(t.node[n].addr, t.node[n].mask) <= Prefix(ptr, t.node[n].mask)
  BY DEF FindBelow, NodePrefix
<1>. HIDE DEF next, below, end, I
\* A node on the way to the leaf is not after the word.
<1>6. ASSUME NEW n \in D, Under(t, n, last) PROVE below(n)
  <2>1. Prefix(t.node[last].addr, t.node[n].mask) = Prefix(t.node[n].addr, t.node[n].mask)
    BY <1>6 DEF Under, Agree
  <2>2. Prefix(t.node[last].addr, t.node[n].mask) <= Prefix(ptr, t.node[n].mask)
    BY <1>1, <1>4, PrefixOrder
  <2> QED BY <1>5, <2>1, <2>2
\* When its left child is, what is below the right one is after the word.
<1>7. ASSUME NEW n \in Inner(t), Under(t, t.node[n].left, last) PROVE After(t.node[n].right)
  <2>1. ASSUME NEW m \in LeafNodes(t), Under(t, t.node[n].right, m), t.node[m].addr <= ptr PROVE FALSE
    <3>1. m \in D
      BY DEF LeafNodes
    <3>2. t.node[last].addr < t.node[m].addr
      BY <1>1, <1>7, <2>1, <3>1, LeavesInOrder
    <3>3. t.node[m].addr <= t.node[last].addr
      BY <2>1
    <3> QED BY <1>1, <1>4, <3>1, <3>2, <3>3
  <2> QED BY <2>1
\* Where all is after the word, the right child is too.
<1>8. ASSUME NEW n \in Inner(t), After(n), below(t.node[n].right) PROVE FALSE
  <2>. DEFINE l == t.node[n].left
              r == t.node[n].right
              k == t.node[n].mask + 1
  <2>1. /\ n \in D /\ l \in D /\ r \in D /\ k \in Masks /\ k <= t.node[r].mask
        /\ Under(t, n, l)
    BY Children
  <2>2. PICK m \in LeafNodes(t) : Under(t, l, m)
    BY <2>1, LeafBelow
  <2>3. m \in D /\ Under(t, n, m)
    BY <2>1, <2>2, UnderUnder DEF LeafNodes
  <2>4. Prefix(t.node[r].addr, t.node[r].mask) <= Prefix(ptr, t.node[r].mask)
    BY <1>5, <1>8, <2>1
  <2>5. Prefix(t.node[r].addr, k) <= Prefix(ptr, k)
    <3>. DEFINE a == t.node[r].addr
                i == t.node[r].mask
    <3>1. a \in Nat /\ i \in Masks
      BY <1>4, <2>1
    <3>2. Prefix(a, i) <= Prefix(ptr, i)
      BY <2>4
    <3>. HIDE DEF a, i
    <3>3. Prefix(a, i) \in Nat /\ Prefix(ptr, i) \in Nat
      BY <1>4, <3>1, Prefixes
    <3>. HIDE DEF k
    <3>4. Prefix(Prefix(a, i), k) <= Prefix(Prefix(ptr, i), k)
      BY <2>1, <3>2, <3>3, PrefixOrder
    <3>5. Prefix(Prefix(a, i), k) = Prefix(a, k) /\ Prefix(Prefix(ptr, i), k) = Prefix(ptr, k)
      BY <1>4, <2>1, <3>1, PrefixDown DEF i
    <3> QED BY <3>4, <3>5 DEF a
  <2>6. t.node[m].addr < ptr
    BY <1>4, <2>2, <2>3, <2>5, LeftBeforeRight
  <2>7. t.node[m].addr <= ptr
    BY <1>4, <2>3, <2>6
  <2> QED BY <1>8, <2>3, <2>7
\* A leaf is before the word or after it.
<1>9. ASSUME NEW n \in LeafNodes(t), below(n), After(n) PROVE FALSE
  <2>1. n \in D /\ t.node[n].mask = WORDBITS /\ Under(t, n, n)
    BY UnderItself DEF LeafNodes, TrieInv
  <2>2. t.node[n].addr \in Word
    BY <2>1, NodeFields
  <2>3. Prefix(t.node[n].addr, WORDBITS) = t.node[n].addr /\ Prefix(ptr, WORDBITS) = ptr
    BY <2>2, AgreeEnds
  <2> QED BY <1>5, <1>9, <2>1, <2>3
<1>10. ASSUME NEW n \in Inner(t), NEW o \in D \cup {NULL}, Good(n, o)
       PROVE  next[<<n, o>>] \in I /\ next[<<n, o>>] # <<n, o>>
  <2>. DEFINE l == t.node[n].left
              r == t.node[n].right
              v == next[<<n, o>>]
  <2>1. l \in D /\ r \in D /\ n \in D /\ l # n /\ r # n
    BY Children
  <2>2. v = IF below(r) THEN <<r, l>> ELSE IF below(l) THEN <<l, o>>
            ELSE IF o = NULL THEN <<n, o>> ELSE <<o, NULL>>
    BY <1>2
  <2>3. CASE Under(t, n, last)
    <3>1. Under(t, l, last) \/ Under(t, r, last)
      BY <2>3, OneChild
    <3>2. CASE Under(t, r, last)
      <4>1. v = <<r, l>>
        BY <1>6, <2>1, <2>2, <3>2
      <4>2. Good(r, l)
        BY <3>2
      <4>. HIDE DEF l, r, v, Good
      <4>3. <<r, l>> \in I /\ <<r, l>> # <<n, o>>
        BY <1>3, <2>1, <4>2
      <4> QED BY <4>1, <4>3 DEF v
    <3>3. CASE Under(t, l, last) /\ below(r)
      <4>1. v = <<r, l>>
        BY <2>2, <3>3
      <4>2. Good(r, l)
        BY <1>7, <2>1, <3>3
      <4>. HIDE DEF l, r, v, Good
      <4>3. <<r, l>> \in I /\ <<r, l>> # <<n, o>>
        BY <1>3, <2>1, <4>2
      <4> QED BY <4>1, <4>3 DEF v
    <3>4. CASE Under(t, l, last) /\ ~below(r)
      <4>1. v = <<l, o>>
        BY <1>6, <2>1, <2>2, <3>4
      <4>2. Good(l, o)
        BY <3>4
      <4>. HIDE DEF l, r, v, Good
      <4>3. <<l, o>> \in I /\ <<l, o>> # <<n, o>>
        BY <1>3, <2>1, <4>2
      <4> QED BY <4>1, <4>3 DEF v
    <3> QED BY <3>1, <3>2, <3>3, <3>4
  <2>4. CASE below(n) /\ After(n) /\ o \in D /\ Under(t, o, last)
    <3>1. ~below(r)
      BY <1>8, <2>4
    <3>2. CASE below(l)
      <4>1. v = <<l, o>>
        BY <2>2, <3>1, <3>2
      <4>2. After(l)
        <5>1. ASSUME NEW m \in LeafNodes(t), Under(t, l, m) PROVE Under(t, n, m)
          <6>1. Under(t, n, l) /\ m \in D
            BY Children DEF LeafNodes
          <6> QED BY <2>1, <5>1, <6>1, UnderUnder
        <5> QED BY <2>4, <5>1
      <4>3. Good(l, o)
        BY <2>4, <3>2, <4>2
      <4>. HIDE DEF l, r, v, Good
      <4>4. <<l, o>> \in I /\ <<l, o>> # <<n, o>>
        BY <1>3, <2>1, <4>3
      <4> QED BY <4>1, <4>4 DEF v
    <3>3. CASE ~below(l)
      <4>1. o # NULL
        BY <2>4, NodeFields DEF NULL
      <4>2. v = <<o, NULL>>
        BY <2>2, <3>1, <3>3, <4>1
      <4>3. Good(o, NULL)
        BY <2>4
      <4>. HIDE DEF l, r, v, Good
      <4>4. <<o, NULL>> \in I /\ <<o, NULL>> # <<n, o>>
        BY <1>3, <2>1, <2>4, <4>1, <4>3
      <4> QED BY <4>2, <4>4 DEF v
    <3> QED BY <3>2, <3>3
  <2> QED BY <1>10, <2>3, <2>4
<1>11. ASSUME NEW w \in I PROVE next[w] \in I
  <2>1. PICK n \in D, o \in D \cup {NULL} : w = <<n, o>>
    BY <1>3
  <2>2. Good(n, o)
    BY <1>3, <2>1
  <2>. HIDE DEF Good
  <2> QED BY <1>1, <1>2, <1>10, <2>1, <2>2
<1>12. ASSUME NEW w \in FindWalks(t)
       PROVE  \/ next[w] = w
              \/ w[1] \in Inner(t) /\ next[w] = <<t.node[w[1]].right, t.node[w[1]].left>>
              \/ w[1] \in Inner(t) /\ next[w] = <<t.node[w[1]].left, w[2]>>
              \/ w[2] # NULL /\ next[w] = <<w[2], NULL>>
  <2>1. PICK n \in D, o \in D \cup {NULL} : w = <<n, o>>
    BY <1>3
  <2>2. w[1] = n /\ w[2] = o
    BY <2>1
  <2> QED BY <1>1, <1>2, <2>1, <2>2
<1>13. <<t.root, NULL>> \in I
  <2>1. Under(t, t.root, last)
    BY <1>1 DEF TrieInv, Rooted
  <2>2. Good(t.root, NULL)
    BY <2>1
  <2>. HIDE DEF Good
  <2> QED BY <1>1, <1>3, <2>2
<1>14. end \in I /\ next[end] = end
  <2>. DEFINE from == <<t.root, NULL>>
  <2>1. from \in I
    BY <1>13
  <2>. HIDE DEF from, Good
  <2>2. Descend(from, next) \in I /\ next[Descend(from, next)] = Descend(from, next)
    BY <1>2, <1>3, <1>11, <1>12, <2>1, FindDescent
  <2> QED BY <2>2 DEF end, from
<1>15. PICK n \in D, o \in D \cup {NULL} : end = <<n, o>>
  BY <1>3, <1>14
<1>16. Good(n, o) /\ n \in LeafNodes(t)
  <2>1. Good(n, o)
    BY <1>3, <1>14, <1>15
  <2>. HIDE DEF Good
  <2>2. n \notin Inner(t)
    BY <1>10, <1>14, <1>15, <2>1
  <2> QED BY <1>1, <2>1, <2>2
<1>17. Under(t, n, last)
  BY <1>9, <1>16
<1>18. n = last
  BY <1>1, <1>16, <1>17, LeafIsLast
<1>19. end[1] = last
  BY <1>15, <1>18
<1>20. t.node[last].leaf # NULL
  BY DEF LeafNodes
<1> QED BY <1>2, <1>19, <1>20

\* Where every leaf starts after ptr there is none.
LEMMA FindNotFound ==
  ASSUME NEW t, TrieInv(t), NEW ptr, NEW holders,
         \A m \in LeafNodes(t) : ~(t.node[m].addr <= ptr)
  PROVE  pt_find(t, holders, ptr) = NULL
<1>1. CASE t.root = NULL \/ ptr = NULL
  BY <1>1 DEF pt_find
<1>2. CASE t.root # NULL /\ ptr # NULL
  <2>. DEFINE D == DOMAIN t.node
              next == FindNext(t, ptr)
              end == Descend(<<t.root, NULL>>, next)
  <2>1. /\ pt_find(t, holders, ptr) =
             IF t.node[end[1]].leaf # NULL /\ t.node[end[1]].addr <= ptr /\ t.node[end[1]].leaf \in holders
             THEN t.node[end[1]].leaf ELSE NULL
        /\ next \in [FindWalks(t) -> FindWalks(t)]
        /\ \A n \in LeafNodes(t), o \in D \cup {NULL} : next[<<n, o>>] = <<n, o>>
        /\ \A n \in Inner(t), o \in D \cup {NULL} :
             next[<<n, o>>] =
               IF FindBelow(t, ptr, t.node[n].right) THEN <<t.node[n].right, t.node[n].left>>
               ELSE IF FindBelow(t, ptr, t.node[n].left) THEN <<t.node[n].left, o>>
               ELSE IF o = NULL THEN <<n, o>> ELSE <<o, NULL>>
        /\ <<t.root, NULL>> \in FindWalks(t)
    BY <1>2, FindSteps
  <2>2. /\ \A w \in FindWalks(t) : \E n \in D, o \in D \cup {NULL} : w = <<n, o>>
        /\ D = LeafNodes(t) \cup Inner(t)
    BY DEF FindWalks, LeafNodes, Inner
  <2>. HIDE DEF next, end
  <2>3. ASSUME NEW w \in FindWalks(t)
        PROVE  \/ next[w] = w
               \/ w[1] \in Inner(t) /\ next[w] = <<t.node[w[1]].right, t.node[w[1]].left>>
               \/ w[1] \in Inner(t) /\ next[w] = <<t.node[w[1]].left, w[2]>>
               \/ w[2] # NULL /\ next[w] = <<w[2], NULL>>
    <3>1. PICK n \in D, o \in D \cup {NULL} : w = <<n, o>>
      BY <2>2
    <3>2. w[1] = n /\ w[2] = o
      BY <3>1
    <3>. HIDE DEF D
    <3>3. CASE n \in LeafNodes(t)
      BY <2>1, <3>1, <3>3
    <3>4. CASE n \in Inner(t)
      <4>1. \/ next[<<n, o>>] = <<t.node[n].right, t.node[n].left>>
            \/ next[<<n, o>>] = <<t.node[n].left, o>>
            \/ next[<<n, o>>] = <<n, o>>
            \/ o # NULL /\ next[<<n, o>>] = <<o, NULL>>
        BY <2>1, <3>4
      <4> QED BY <3>1, <3>2, <3>4, <4>1
    <3> QED BY <2>2, <3>3, <3>4
  <2>4. \A w \in FindWalks(t) : next[w] \in FindWalks(t)
    BY <2>1
  <2>5. end \in FindWalks(t)
    <3>. DEFINE from == <<t.root, NULL>>
                I == FindWalks(t)
    <3>1. from \in I /\ I \in SUBSET FindWalks(t) /\ \A w \in I : next[w] \in I
      BY <2>1, <2>4
    <3>. HIDE DEF from, I
    <3>2. Descend(from, next) \in I
      BY <2>1, <2>3, <3>1, FindDescent
    <3> QED BY <3>2 DEF end, from, I
  <2>6. PICK n \in D, o \in D \cup {NULL} : end = <<n, o>>
    BY <2>2, <2>5
  <2>7. end[1] = n
    BY <2>6
  <2>8. t.node[n].leaf # NULL => ~(t.node[n].addr <= ptr)
    BY DEF LeafNodes
  <2> QED BY <2>1, <2>7, <2>8
<1> QED BY <1>1, <1>2

-----------------------------------------------------------------------------
(* What the operations do to the entries of the trie *)

\* An entry is in a leaf node of its own.
LEMMA EntryNode ==
  ASSUME NEW t, TrieInv(t), NEW e \in Entries(t)
  PROVE  \E n \in LeafNodes(t) :
           /\ e = <<t.node[n].addr, t.node[n].leaf>> /\ e[1] = t.node[n].addr /\ e[2] = t.node[n].leaf
           /\ e[1] \in Word /\ e[2] \in Nat \ {0} /\ t.root # NULL
<1>1. PICK n \in LeafNodes(t) : e = <<t.node[n].addr, t.node[n].leaf>>
  BY DEF Entries
<1>2. n \in DOMAIN t.node /\ t.node[n].leaf # NULL
  BY DEF LeafNodes
<1>3. t.node[n].addr \in Word /\ t.node[n].leaf \in Nat \ {0}
  BY <1>2, NodeFields DEF NULL
<1>4. t.root # NULL
  BY <1>2 DEF TrieInv, Rooted
<1> QED BY <1>1, <1>3, <1>4

\* An address has one entry at most.
LEMMA OneEntry ==
  ASSUME NEW t, TrieInv(t), NEW e \in Entries(t), NEW f \in Entries(t), e[1] = f[1]
  PROVE  e = f
<1>1. PICK n \in LeafNodes(t) : e = <<t.node[n].addr, t.node[n].leaf>> /\ e[1] = t.node[n].addr
  BY EntryNode
<1>2. PICK m \in LeafNodes(t) : f = <<t.node[m].addr, t.node[m].leaf>> /\ f[1] = t.node[m].addr
  BY EntryNode
<1>3. n = m
  BY <1>1, <1>2, LeafAddresses
<1> QED BY <1>1, <1>2, <1>3

\* Entries are leaves.
LEMMA NoEntryNoLeaf ==
  ASSUME NEW t, NEW ptr, \A e \in Entries(t) : e[1] # ptr
  PROVE  NoLeafAt(t, ptr)
<1>1. ASSUME NEW n \in LeafNodes(t) PROVE t.node[n].addr # ptr
  <2>1. <<t.node[n].addr, t.node[n].leaf>> \in Entries(t)
    BY DEF Entries
  <2> QED BY <2>1
<1> QED BY <1>1 DEF NoLeafAt

\* pt_remove takes the entry of ptr away, and nothing else.
THEOREM RemoveTakesEntry ==
  ASSUME NEW t, TrieInv(t), Counted(t), NEW e \in Entries(t)
  PROVE  LET u == pt_remove(t, e[1]) IN
         TrieInv(u) /\ Counted(u) /\ Entries(u) = Entries(t) \ {e}
<1>1. PICK n \in LeafNodes(t) : e = <<t.node[n].addr, t.node[n].leaf>> /\ e[1] = t.node[n].addr
  BY EntryNode
<1>2. pt_get_leaf_node_from_leaf(t, e[1]) = n
  BY <1>1, GetLeafFound
<1>3. pt_remove(t, e[1]) = pt_remove_leaf_node(t, n)
  BY <1>2 DEF pt_remove
<1> QED BY <1>1, <1>3, RemoveKeepsTrie

\* pt_lookup returns the leaf of the entry of ptr, or NULL.
THEOREM LookupIsExact ==
  ASSUME NEW t, TrieInv(t), t.root # NULL, NEW ptr
  PROVE  /\ \A e \in Entries(t) : e[1] = ptr => pt_lookup(t, ptr) = e[2]
         /\ (\A e \in Entries(t) : e[1] # ptr) => pt_lookup(t, ptr) = NULL
<1>1. ASSUME NEW e \in Entries(t), e[1] = ptr PROVE pt_lookup(t, ptr) = e[2]
  <2>1. PICK n \in LeafNodes(t) : e[1] = t.node[n].addr /\ e[2] = t.node[n].leaf
    BY EntryNode
  <2> QED BY <1>1, <2>1, LookupFound
<1>2. ASSUME \A e \in Entries(t) : e[1] # ptr PROVE pt_lookup(t, ptr) = NULL
  BY <1>2, NoEntryNoLeaf, LookupNotFound
<1> QED BY <1>1, <1>2

\* pt_find considers the entry of the greatest address that is at most ptr, and
\* no other.
THEOREM FindIsExact ==
  ASSUME NEW t, TrieInv(t), NEW ptr \in Word \ {NULL}, NEW holders
  PROVE  /\ \A e \in Entries(t) :
              e[1] <= ptr /\ (\A f \in Entries(t) : f[1] <= ptr => f[1] <= e[1])
              => pt_find(t, holders, ptr) = IF e[2] \in holders THEN e[2] ELSE NULL
         /\ (\A e \in Entries(t) : ~(e[1] <= ptr)) => pt_find(t, holders, ptr) = NULL
<1>0. \A n \in LeafNodes(t) : <<t.node[n].addr, t.node[n].leaf>> \in Entries(t)
  BY DEF Entries
<1>1. ASSUME NEW e \in Entries(t), e[1] <= ptr,
             \A f \in Entries(t) : f[1] <= ptr => f[1] <= e[1]
      PROVE  pt_find(t, holders, ptr) = IF e[2] \in holders THEN e[2] ELSE NULL
  <2>1. PICK n \in LeafNodes(t) : e[1] = t.node[n].addr /\ e[2] = t.node[n].leaf
    BY EntryNode
  <2>2. ASSUME NEW m \in LeafNodes(t), t.node[m].addr <= ptr PROVE t.node[m].addr <= t.node[n].addr
    <3>1. <<t.node[m].addr, t.node[m].leaf>> \in Entries(t)
      BY <1>0
    <3>2. <<t.node[m].addr, t.node[m].leaf>>[1] = t.node[m].addr
      OBVIOUS
    <3> QED BY <1>1, <2>1, <2>2, <3>1, <3>2
  <2> QED BY <1>1, <2>1, <2>2, FindFound
<1>2. ASSUME \A e \in Entries(t) : ~(e[1] <= ptr) PROVE pt_find(t, holders, ptr) = NULL
  <2>1. ASSUME NEW m \in LeafNodes(t) PROVE ~(t.node[m].addr <= ptr)
    <3>1. <<t.node[m].addr, t.node[m].leaf>> \in Entries(t)
      BY <1>0
    <3> QED BY <1>2, <3>1
  <2> QED BY <2>1, FindNotFound
<1> QED BY <1>1, <1>2

\* The leaves are those of the entries.
LEMMA LeavesOfEntries ==
  ASSUME NEW t
  PROVE  Leaves(t) = {e[2] : e \in Entries(t)}
<1>1. Leaves(t) = {t.node[n].leaf : n \in LeafNodes(t)}
  BY DEF Leaves, LeafNodes
<1>2. ASSUME NEW l \in Leaves(t) PROVE l \in {e[2] : e \in Entries(t)}
  <2>1. PICK n \in LeafNodes(t) : l = t.node[n].leaf
    BY <1>1
  <2>2. <<t.node[n].addr, t.node[n].leaf>> \in Entries(t)
    BY DEF Entries
  <2> QED BY <2>1, <2>2
<1>3. ASSUME NEW e \in Entries(t) PROVE e[2] \in Leaves(t)
  <2>1. PICK n \in LeafNodes(t) : e = <<t.node[n].addr, t.node[n].leaf>>
    BY DEF Entries
  <2> QED BY <1>1, <2>1
<1> QED BY <1>2, <1>3

-----------------------------------------------------------------------------
(* Removal of the leaves of a set *)

\* A leaf node has no children.
LeafEnds(t) == \A n \in LeafNodes(t) : t.node[n].left = NULL /\ t.node[n].right = NULL

\* The empty trie has no leaf.
LEMMA EmptyTrieEnds == LeafEnds(EmptyTrie)
<1>1. DOMAIN EmptyTrie.node = {}
  BY DEF EmptyTrie
<1> QED BY <1>1 DEF LeafEnds, LeafNodes

\* pt_insert makes a leaf without children, and gives none to another leaf.
LEMMA InsertKeepsEnds ==
  ASSUME NEW t, TrieInv(t), LeafEnds(t), NEW ptr \in Word, NEW leaf \in Nat \ {0}, NoLeafAt(t, ptr)
  PROVE  LeafEnds(pt_insert(t, leaf, ptr))
<1>. DEFINE u == pt_insert(t, leaf, ptr)
<1>1. CASE t.root = NULL
  <2>. DEFINE new == Fresh(DOMAIN t.node)
  <2>1. u = [root |-> new, node |-> With(<<>>, new, [addr |-> ptr, mask |-> WORDBITS, leaf |-> leaf,
                   left |-> NULL, right |-> NULL, parent |-> NULL])]
    BY <1>1 DEF pt_insert
  <2>. HIDE DEF new, u
  <2>2. DOMAIN u.node = {new} /\ u.node[new].left = NULL /\ u.node[new].right = NULL
    BY <2>1 DEF With
  <2>3. LeafEnds(u)
    BY <2>2 DEF LeafEnds, LeafNodes
  <2> QED BY <2>3 DEF u
<1>2. CASE t.root # NULL
  <2>. DEFINE s == pt_most_similar_node(t, ptr)
  <2>1. Slot(t, s, ptr)
    BY <1>2, SlotFound
  <2>2. \E new, p : Inserted(t, u, leaf, ptr, s, new, p)
    BY <1>2, <2>1, InsertDoes
  <2>. HIDE DEF s, u
  <2>3. PICK new, p : Inserted(t, u, leaf, ptr, s, new, p)
    BY <2>2
  <2>4. ASSUME NEW n \in LeafNodes(u) PROVE u.node[n].left = NULL /\ u.node[n].right = NULL
    <3>1. n \in DOMAIN t.node \cup {new, p} /\ u.node[n].leaf # NULL
      BY <2>3 DEF Inserted, LeafNodes
    <3>2. CASE n = new
      BY <2>3, <3>2 DEF Inserted
    <3>3. CASE n = p
      <4>1. u.node[p].leaf = NULL
        BY <2>3 DEF Inserted
      <4> QED BY <3>1, <3>3, <4>1
    <3>4. CASE n \in DOMAIN t.node
      <4>1. /\ u.node[n].leaf = t.node[n].leaf
            /\ u.node[n].left = IF n \in Inner(t) /\ t.node[n].left = s THEN p ELSE t.node[n].left
            /\ u.node[n].right = IF n \in Inner(t) /\ t.node[n].right = s THEN p ELSE t.node[n].right
        BY <2>3, <3>4 DEF Inserted
      <4>2. n \in LeafNodes(t) /\ n \notin Inner(t)
        BY <3>1, <3>4, <4>1 DEF LeafNodes, Inner
      <4> QED BY <4>1, <4>2 DEF LeafEnds
    <3> QED BY <3>1, <3>2, <3>3, <3>4
  <2>5. LeafEnds(u)
    BY <2>4 DEF LeafEnds
  <2> QED BY <2>5 DEF u
<1> QED BY <1>1, <1>2

\* pt_remove_leaf_node copies the children of a leaf with it.
LEMMA RemoveKeepsEnds ==
  ASSUME NEW t, TrieInv(t), LeafEnds(t), NEW n \in LeafNodes(t)
  PROVE  LeafEnds(pt_remove_leaf_node(t, n))
<1>1. n \in DOMAIN t.node /\ t.root # NULL /\ t.root \in DOMAIN t.node
  BY DEF LeafNodes, TrieInv, Rooted
<1>2. CASE n = t.root
  <2>1. t.node[n].parent = NULL
    BY <1>1, <1>2 DEF TrieInv, Rooted
  <2>2. pt_remove_leaf_node(t, n) = EmptyTrie
    BY <2>1 DEF pt_remove_leaf_node
  <2> QED BY <2>2, EmptyTrieEnds
<1>3. CASE n # t.root
  <2>. DEFINE p == t.node[n].parent
              s == SiblingOf(t, n)
              u == pt_remove_leaf_node(t, n)
  <2>1. Removed(t, u, n, p, s)
    BY <1>3, RemoveDoes
  <2>2. p \in DOMAIN t.node /\ s \in DOMAIN t.node
    BY <1>1, <1>3, Siblings
  <2>. HIDE DEF u, p, s
  <2>3. ASSUME NEW i \in LeafNodes(u) PROVE u.node[i].left = NULL /\ u.node[i].right = NULL
    <3>. DEFINE o == IF i = p THEN s ELSE i
    <3>1. i \in DOMAIN t.node \ {n, s} /\ u.node[i].leaf # NULL
      BY <2>1 DEF Removed, LeafNodes
    <3>2. /\ u.node[i].leaf = t.node[o].leaf
          /\ u.node[i].left = t.node[o].left /\ u.node[i].right = t.node[o].right
      BY <2>1, <3>1 DEF Removed
    <3>3. o \in LeafNodes(t)
      BY <2>2, <3>1, <3>2 DEF LeafNodes
    <3>. HIDE DEF o
    <3> QED BY <3>2, <3>3 DEF LeafEnds
  <2>4. LeafEnds(u)
    BY <2>3 DEF LeafEnds
  <2> QED BY <2>4 DEF u
<1> QED BY <1>2, <1>3

Sides == {"left", "right"}

\* The sides that are still to be visited are those of nodes above one another.
Rising(t, todo) ==
  \A i, j \in DOMAIN todo : i < j => t.node[todo[j][1]].mask < t.node[todo[i][1]].mask

\* The removal of the leaves of a set from a trie t, under way: what is left
\* is a trie, nothing is new in it, and what is not of the set is there.
Removing(t, w, chosen) ==
  /\ w = [trie |-> w.trie, todo |-> w.todo]
  /\ TrieInv(w.trie) /\ Counted(w.trie) /\ LeafEnds(w.trie)
  /\ Entries(w.trie) \subseteq Entries(t)
  /\ \A e \in Entries(t) : e[2] \notin chosen => e \in Entries(w.trie)
  /\ w.todo \in Seq((DOMAIN w.trie.node) \X Sides)
  /\ Rising(w.trie, w.todo)

\* Sides to visit, one of them more: of a node below.
LEMMA RisingPush ==
  ASSUME NEW t, TrieInv(t), NEW todo \in Seq((DOMAIN t.node) \X Sides), Rising(t, todo),
         NEW n \in DOMAIN t.node, NEW side \in Sides,
         \A i \in DOMAIN todo : t.node[todo[i][1]].mask < t.node[n].mask
  PROVE  LET more == <<<<n, side>>>> \o todo IN
         more \in Seq((DOMAIN t.node) \X Sides) /\ Rising(t, more)
<1>. DEFINE S == (DOMAIN t.node) \X Sides
            x == <<n, side>>
            more == <<x>> \o todo
<1>1. x \in S /\ x[1] = n
  OBVIOUS
<1>. HIDE DEF x, S
<1>2. more \in Seq(S) /\ DOMAIN more = 1 .. Len(todo) + 1
  BY <1>1 DEF S
<1>3. more[1] = x /\ \A i \in 1 .. Len(todo) : more[i + 1] = todo[i]
  BY <1>1 DEF S
<1>4. DOMAIN todo = 1 .. Len(todo) /\ Len(todo) \in Nat
  OBVIOUS
<1>. HIDE DEF more
<1>5. ASSUME NEW i \in DOMAIN more, NEW j \in DOMAIN more, i < j
      PROVE  t.node[more[j][1]].mask < t.node[more[i][1]].mask
  <2>1. j - 1 \in 1 .. Len(todo) /\ more[j] = todo[j - 1]
    <3>1. j - 1 \in 1 .. Len(todo) /\ (j - 1) + 1 = j
      BY <1>2, <1>4, <1>5
    <3> QED BY <1>3, <3>1
  <2>2. CASE i = 1
    BY <1>1, <1>3, <1>4, <2>1, <2>2
  <2>3. CASE i # 1
    <3>1. i - 1 \in 1 .. Len(todo) /\ (i - 1) + 1 = i /\ i - 1 < j - 1
      BY <1>2, <1>4, <1>5, <2>3
    <3>2. more[i] = todo[i - 1]
      BY <1>3, <3>1
    <3> QED BY <1>4, <2>1, <3>1, <3>2 DEF Rising
  <2> QED BY <2>2, <2>3
<1>6. Rising(t, more)
  BY <1>5 DEF Rising
<1> QED BY <1>2, <1>6 DEF more, x, S

\* What is to be visited after a side of n: its other side, and what was after it.
LEMMA RisingThen ==
  ASSUME NEW t, TrieInv(t), NEW todo \in Seq((DOMAIN t.node) \X Sides), Rising(t, todo), todo # <<>>
  PROVE  LET n == Head(todo)[1]
             side == Head(todo)[2]
             then == IF side = "left" THEN <<<<n, "right">>>> \o Tail(todo) ELSE Tail(todo)
         IN  /\ n \in DOMAIN t.node /\ side \in Sides
             /\ then \in Seq((DOMAIN t.node) \X Sides) /\ Rising(t, then)
             /\ Tail(todo) \in Seq((DOMAIN t.node) \X Sides) /\ Rising(t, Tail(todo))
             /\ \A i \in DOMAIN then : t.node[then[i][1]].mask <= t.node[n].mask
             /\ \A i \in DOMAIN todo : t.node[todo[i][1]].mask <= t.node[n].mask
             /\ \A i \in DOMAIN Tail(todo) : t.node[Tail(todo)[i][1]].mask < t.node[n].mask
<1>. DEFINE S == (DOMAIN t.node) \X Sides
            n == Head(todo)[1]
            side == Head(todo)[2]
            tail == Tail(todo)
            then == IF side = "left" THEN <<<<n, "right">>>> \o tail ELSE tail
<1>1. Head(todo) \in S /\ Head(todo) = todo[1] /\ n \in DOMAIN t.node /\ side \in Sides
  OBVIOUS
<1>2. /\ tail \in Seq(S) /\ Len(tail) = Len(todo) - 1 /\ Len(todo) \in Nat /\ Len(todo) # 0
      /\ DOMAIN tail = 1 .. Len(tail) /\ DOMAIN todo = 1 .. Len(todo)
  OBVIOUS
<1>3. \A i \in 1 .. Len(tail) : tail[i] = todo[i + 1]
  OBVIOUS
<1>4. \A m \in DOMAIN t.node : t.node[m].mask \in Nat
  BY NodeFields
<1>5. \A i \in DOMAIN todo : todo[i][1] \in DOMAIN t.node
  OBVIOUS
<1>. HIDE DEF tail, S
<1>6. ASSUME NEW i \in DOMAIN tail PROVE t.node[tail[i][1]].mask < t.node[n].mask
  <2>1. i + 1 \in DOMAIN todo /\ 1 \in DOMAIN todo /\ 1 < i + 1
    BY <1>2
  <2>2. t.node[todo[i + 1][1]].mask < t.node[todo[1][1]].mask
    BY <2>1 DEF Rising
  <2> QED BY <1>1, <1>2, <1>3, <2>2
<1>7. Rising(t, tail)
  <2>1. ASSUME NEW i \in DOMAIN tail, NEW j \in DOMAIN tail, i < j
        PROVE  t.node[tail[j][1]].mask < t.node[tail[i][1]].mask
    <3>1. i + 1 \in DOMAIN todo /\ j + 1 \in DOMAIN todo /\ i + 1 < j + 1
      BY <1>2, <2>1
    <3>2. t.node[todo[j + 1][1]].mask < t.node[todo[i + 1][1]].mask
      BY <3>1 DEF Rising
    <3> QED BY <1>2, <1>3, <2>1, <3>1, <3>2
  <2> QED BY <2>1 DEF Rising
<1>8. \A i \in DOMAIN todo : t.node[todo[i][1]].mask <= t.node[n].mask
  <2>1. ASSUME NEW i \in DOMAIN todo PROVE t.node[todo[i][1]].mask <= t.node[n].mask
    <3>1. CASE i = 1
      BY <1>1, <1>4, <3>1
    <3>2. CASE i # 1
      <4>1. 1 \in DOMAIN todo /\ 1 < i
        BY <1>2, <3>2
      <4>2. t.node[todo[i][1]].mask < t.node[todo[1][1]].mask
        BY <4>1 DEF Rising
      <4> QED BY <1>1, <1>4, <1>5, <4>2
    <3> QED BY <3>1, <3>2
  <2> QED BY <2>1
<1>. DEFINE more == <<<<n, "right">>>> \o tail
<1>9. more \in Seq(S) /\ Rising(t, more)
  BY <1>1, <1>2, <1>6, <1>7, RisingPush DEF S, Sides
<1>10. \A i \in DOMAIN more : t.node[more[i][1]].mask <= t.node[n].mask
  <2>. DEFINE x == <<n, "right">>
  <2>1. x \in S /\ x[1] = n
    BY <1>1 DEF S, Sides
  <2>. HIDE DEF x
  <2>2. DOMAIN (<<x>> \o tail) = 1 .. Len(tail) + 1 /\ (<<x>> \o tail)[1] = x
        /\ \A i \in 1 .. Len(tail) : (<<x>> \o tail)[i + 1] = tail[i]
    BY <1>2, <2>1
  <2>3. ASSUME NEW i \in DOMAIN (<<x>> \o tail) PROVE t.node[(<<x>> \o tail)[i][1]].mask <= t.node[n].mask
    <3>1. CASE i = 1
      BY <1>1, <1>4, <2>1, <2>2, <3>1
    <3>2. CASE i # 1
      <4>1. i - 1 \in 1 .. Len(tail) /\ (i - 1) + 1 = i
        BY <1>2, <2>2, <3>2
      <4>2. (<<x>> \o tail)[i] = tail[i - 1]
        BY <2>2, <4>1
      <4>3. tail[i - 1][1] \in DOMAIN t.node
        BY <1>2, <1>3, <1>5, <4>1
      <4> QED BY <1>1, <1>2, <1>4, <1>6, <4>1, <4>2, <4>3
    <3> QED BY <3>1, <3>2
  <2> QED BY <2>3 DEF x
<1>11. \A i \in DOMAIN tail : t.node[tail[i][1]].mask <= t.node[n].mask
  <2>1. ASSUME NEW i \in DOMAIN tail PROVE t.node[tail[i][1]].mask <= t.node[n].mask
    <3>1. i + 1 \in DOMAIN todo /\ tail[i] = todo[i + 1]
      BY <1>2, <1>3, <2>1
    <3>2. tail[i][1] \in DOMAIN t.node
      BY <1>5, <3>1
    <3> QED BY <1>1, <1>4, <1>6, <2>1, <3>2
  <2> QED BY <2>1
<1>. HIDE DEF more
<1>12. then = IF side = "left" THEN more ELSE tail
  BY DEF more
<1>. HIDE DEF then
<1>13. then \in Seq(S) /\ Rising(t, then) /\ \A i \in DOMAIN then : t.node[then[i][1]].mask <= t.node[n].mask
  BY <1>2, <1>7, <1>9, <1>10, <1>11, <1>12
<1> QED BY <1>1, <1>2, <1>6, <1>7, <1>8, <1>13 DEF tail, S, then

\* The child of n is removed: the nodes that are still to be visited are kept, since
\* what the removal frees is below n, and their masks stay, but for that of n.
LEMMA RisingAfter ==
  ASSUME NEW t, TrieInv(t), NEW child \in LeafNodes(t), child # t.root,
         NEW todo \in Seq((DOMAIN t.node) \X Sides), Rising(t, todo),
         \A i \in DOMAIN todo : t.node[todo[i][1]].mask <= t.node[t.node[child].parent].mask
  PROVE  LET u == pt_remove_leaf_node(t, child) IN
         todo \in Seq((DOMAIN u.node) \X Sides) /\ Rising(u, todo)
<1>. DEFINE n == t.node[child].parent
            s == SiblingOf(t, child)
            u == pt_remove_leaf_node(t, child)
<1>1. child \in DOMAIN t.node
  BY DEF LeafNodes
<1>2. Removed(t, u, child, n, s)
  BY RemoveDoes
<1>3. /\ n \in DOMAIN t.node /\ s \in DOMAIN t.node
      /\ t.node[n].mask + 1 <= t.node[child].mask /\ t.node[n].mask + 1 <= t.node[s].mask
  BY <1>1, Siblings
<1>4. \A m \in DOMAIN t.node : t.node[m].mask \in Nat
  BY NodeFields
<1>. HIDE DEF n, s, u
<1>5. DOMAIN u.node = DOMAIN t.node \ {child, s}
  BY <1>2 DEF Removed
<1>6. \A i \in DOMAIN t.node \ {child, s} : u.node[i].mask = t.node[IF i = n THEN s ELSE i].mask
  BY <1>2 DEF Removed
<1>7. \A i \in DOMAIN todo : todo[i][1] \in DOMAIN t.node /\ todo[i][2] \in Sides /\ todo[i] = <<todo[i][1], todo[i][2]>>
  OBVIOUS
<1>8. \A i \in DOMAIN todo : t.node[todo[i][1]].mask <= t.node[n].mask
  BY DEF n
<1>9. ASSUME NEW i \in DOMAIN todo PROVE todo[i][1] \in DOMAIN u.node
  <2>1. t.node[todo[i][1]].mask < t.node[child].mask /\ t.node[todo[i][1]].mask < t.node[s].mask
    BY <1>1, <1>3, <1>4, <1>7, <1>8
  <2>2. todo[i][1] \in DOMAIN t.node /\ todo[i][1] # child /\ todo[i][1] # s
    <3>1. \A m \in DOMAIN t.node : ~(t.node[m].mask < t.node[m].mask)
      BY <1>4
    <3>2. todo[i][1] \in DOMAIN t.node
      BY <1>7, <1>9
    <3> QED BY <2>1, <3>1, <3>2
  <2> QED BY <1>5, <2>2
<1>10. todo \in Seq((DOMAIN u.node) \X Sides)
  <2>1. DOMAIN todo = 1 .. Len(todo) /\ Len(todo) \in Nat /\ todo = [i \in 1 .. Len(todo) |-> todo[i]]
    OBVIOUS
  <2>2. \A i \in 1 .. Len(todo) : todo[i] \in (DOMAIN u.node) \X Sides
    BY <1>7, <1>9, <2>1
  <2> QED BY <2>1, <2>2
<1>11. ASSUME NEW i \in DOMAIN todo, NEW j \in DOMAIN todo, i < j
       PROVE  u.node[todo[j][1]].mask < u.node[todo[i][1]].mask
  <2>1. t.node[todo[j][1]].mask < t.node[todo[i][1]].mask
    BY <1>11 DEF Rising
  <2>2. todo[j][1] # n
    BY <1>3, <1>4, <1>7, <1>8, <2>1
  <2>3. u.node[todo[j][1]].mask = t.node[todo[j][1]].mask
    BY <1>5, <1>6, <1>9, <2>2
  <2>4. u.node[todo[i][1]].mask = IF todo[i][1] = n THEN t.node[s].mask ELSE t.node[todo[i][1]].mask
    BY <1>5, <1>6, <1>9
  <2>5. t.node[todo[i][1]].mask \in Nat /\ t.node[todo[j][1]].mask \in Nat /\ t.node[s].mask \in Nat
        /\ t.node[n].mask \in Nat
    BY <1>3, <1>4, <1>7
  <2> QED BY <1>3, <2>1, <2>3, <2>4, <2>5
<1>12. Rising(u, todo)
  BY <1>11 DEF Rising
<1> QED BY <1>10, <1>12 DEF u

\* A step of the removal, as the code.
LEMMA RemoveStepKeeps ==
  ASSUME NEW t, NEW chosen, NEW w, Removing(t, w, chosen), w.todo # <<>>
  PROVE  Removing(t, RemoveStep(w, chosen), chosen)
<1>. DEFINE v == w.trie
            todo == w.todo
            S == (DOMAIN v.node) \X Sides
            n == Head(todo)[1]
            side == Head(todo)[2]
            child == IF side = "left" THEN v.node[n].left ELSE v.node[n].right
            then == IF side = "left" THEN <<<<n, "right">>>> \o Tail(todo) ELSE Tail(todo)
            next == RemoveStep(w, chosen)
            again == IF side = "left" THEN todo ELSE Tail(todo)
<1>1. /\ w = [trie |-> v, todo |-> todo]
      /\ TrieInv(v) /\ Counted(v) /\ LeafEnds(v)
      /\ Entries(v) \subseteq Entries(t)
      /\ \A e \in Entries(t) : e[2] \notin chosen => e \in Entries(v)
      /\ todo \in Seq(S) /\ Rising(v, todo) /\ todo # <<>>
  BY DEF Removing
<1>2. /\ n \in DOMAIN v.node /\ side \in Sides
      /\ then \in Seq(S) /\ Rising(v, then)
      /\ Tail(todo) \in Seq(S) /\ Rising(v, Tail(todo))
      /\ \A i \in DOMAIN then : v.node[then[i][1]].mask <= v.node[n].mask
      /\ \A i \in DOMAIN todo : v.node[todo[i][1]].mask <= v.node[n].mask
      /\ \A i \in DOMAIN Tail(todo) : v.node[Tail(todo)[i][1]].mask < v.node[n].mask
  BY <1>1, RisingThen, Zenon
<1>3. next = CASE child = NULL -> [w EXCEPT !.todo = then]
               [] child # NULL /\ v.node[child].leaf = NULL ->
                    [w EXCEPT !.todo = <<<<child, "left">>>> \o then]
               [] child # NULL /\ v.node[child].leaf \in chosen \ {NULL} ->
                    [trie |-> pt_remove_leaf_node(v, child), todo |-> again]
               [] OTHER -> [w EXCEPT !.todo = then]
  BY DEF RemoveStep
<1>4. child # NULL => n \in Inner(v)
  <2>1. CASE n \in LeafNodes(v)
    BY <1>1, <2>1 DEF LeafEnds
  <2>2. CASE n \notin LeafNodes(v)
    BY <1>2, <2>2 DEF LeafNodes, Inner
  <2> QED BY <2>1, <2>2
<1>5. ASSUME child # NULL
      PROVE  /\ child \in DOMAIN v.node /\ v.node[child].parent = n
             /\ v.node[n].mask + 1 <= v.node[child].mask /\ child # v.root
  <2>1. n \in Inner(v)
    BY <1>4, <1>5
  <2>a. child \in {v.node[n].left, v.node[n].right}
    OBVIOUS
  <2>. HIDE DEF child, next, then, again, n, v
  <2>2. /\ child \in DOMAIN v.node /\ v.node[child].parent = n
        /\ v.node[n].mask + 1 <= v.node[child].mask /\ n # NULL
    BY <1>1, <2>1, <2>a, Children
  <2>3. v.root # NULL => v.node[v.root].parent = NULL
    BY <1>1 DEF TrieInv, Rooted
  <2> QED BY <1>5, <2>2, <2>3
<1>6. \A m \in DOMAIN v.node : v.node[m].mask \in Nat
  BY <1>1, NodeFields
<1>7. \A i \in DOMAIN then : then[i][1] \in DOMAIN v.node
  <2>1. then \in Seq(S)
    BY <1>2
  <2>. HIDE DEF then
  <2> QED BY <2>1
<1>8. ASSUME NEW x \in Seq(S), Rising(v, x) PROVE Removing(t, [w EXCEPT !.todo = x], chosen)
  <2>. DEFINE z == [w EXCEPT !.todo = x]
  <2>1. z.trie = v /\ z.todo = x /\ z = [trie |-> v, todo |-> x]
    BY <1>1
  <2>. HIDE DEF z, v
  <2>2. Removing(t, z, chosen)
    BY <1>1, <1>8, <2>1 DEF Removing
  <2> QED BY <2>2 DEF z
<1>9. CASE child = NULL
  <2>1. next = [w EXCEPT !.todo = then]
    BY <1>3, <1>9
  <2>. HIDE DEF then, next
  <2> QED BY <1>2, <1>8, <2>1 DEF next
<1>10. CASE child # NULL /\ v.node[child].leaf = NULL
  <2>1. next = [w EXCEPT !.todo = <<<<child, "left">>>> \o then]
    BY <1>3, <1>10
  <2>2. ASSUME NEW i \in DOMAIN then PROVE v.node[then[i][1]].mask < v.node[child].mask
    <3>1. v.node[then[i][1]].mask <= v.node[n].mask
      BY <1>2
    <3>2. v.node[then[i][1]].mask \in Nat /\ v.node[n].mask \in Nat /\ v.node[child].mask \in Nat
      BY <1>2, <1>5, <1>6, <1>7, <1>10
    <3>3. v.node[n].mask + 1 <= v.node[child].mask
      BY <1>5, <1>10
    <3>. HIDE DEF then, child, v, n
    <3> QED BY <3>1, <3>2, <3>3
  <2>3. child \in DOMAIN v.node /\ "left" \in Sides
    BY <1>5, <1>10 DEF Sides
  <2>. HIDE DEF then, next, child, v, n
  <2>4. <<<<child, "left">>>> \o then \in Seq(S) /\ Rising(v, <<<<child, "left">>>> \o then)
    BY <1>1, <1>2, <2>2, <2>3, RisingPush
  <2> QED BY <1>8, <2>1, <2>4 DEF next
<1>11. CASE child # NULL /\ v.node[child].leaf \in chosen \ {NULL}
  <2>. DEFINE u == pt_remove_leaf_node(v, child)
  <2>1. next = [trie |-> u, todo |-> again]
    BY <1>3, <1>11
  <2>2. child \in LeafNodes(v) /\ child # v.root /\ v.node[child].parent = n
    BY <1>5, <1>11 DEF LeafNodes
  <2>3. again \in Seq(S) /\ Rising(v, again)
    BY <1>1, <1>2
  <2>4. \A i \in DOMAIN again : v.node[again[i][1]].mask <= v.node[n].mask
    <3>1. \A i \in DOMAIN Tail(todo) : v.node[Tail(todo)[i][1]].mask <= v.node[n].mask
      <4>. DEFINE rest == Tail(todo)
      <4>1. rest \in Seq(S) /\ \A i \in DOMAIN rest : v.node[rest[i][1]].mask < v.node[n].mask
        BY <1>2
      <4>2. n \in DOMAIN v.node
        BY <1>2
      <4>. HIDE DEF rest, next, then, again, n, child, v, u
      <4>3. \A i \in DOMAIN rest : rest[i][1] \in DOMAIN v.node
        BY <4>1
      <4>4. \A i \in DOMAIN rest : v.node[rest[i][1]].mask <= v.node[n].mask
        BY <1>6, <4>1, <4>2, <4>3
      <4> QED BY <4>4 DEF rest
    <3> QED BY <1>2, <3>1
  <2>. HIDE DEF again, next, child, v, n, todo
  <2>5. again \in Seq((DOMAIN u.node) \X Sides) /\ Rising(u, again)
    BY <1>1, <2>2, <2>3, <2>4, RisingAfter
  <2>6. TrieInv(u) /\ Counted(u) /\ Entries(u) = Entries(v) \ {<<v.node[child].addr, v.node[child].leaf>>}
    BY <1>1, <2>2, RemoveKeepsTrie
  <2>7. LeafEnds(u)
    BY <1>1, <2>2, RemoveKeepsEnds
  <2>8. \A e \in Entries(t) : e[2] \notin chosen => e \in Entries(u)
    <3>1. <<v.node[child].addr, v.node[child].leaf>>[2] \in chosen
      BY <1>11
    <3> QED BY <1>1, <2>6, <3>1
  <2>. DEFINE z == [trie |-> u, todo |-> again]
  <2>9. z.trie = u /\ z.todo = again /\ z = [trie |-> z.trie, todo |-> z.todo]
    OBVIOUS
  <2>10. Entries(u) \subseteq Entries(t)
    BY <1>1, <2>6
  <2>. HIDE DEF z, u
  <2>11. Removing(t, z, chosen)
    BY <2>5, <2>6, <2>7, <2>8, <2>9, <2>10 DEF Removing
  <2> QED BY <2>1, <2>11 DEF next, z, u
<1>12. CASE child # NULL /\ v.node[child].leaf # NULL /\ v.node[child].leaf \notin chosen \ {NULL}
  <2>1. next = [w EXCEPT !.todo = then]
    BY <1>3, <1>12
  <2>. HIDE DEF then, next
  <2> QED BY <1>2, <1>8, <2>1 DEF next
<1> QED BY <1>9, <1>10, <1>11, <1>12

IsRemoval(walk, w0, chosen) ==
  walk = [k \in Nat |->
           IF k = 0 THEN w0
           ELSE LET w == walk[k - 1] IN IF w.todo = <<>> THEN w ELSE RemoveStep(w, chosen)]

\* The states of the loop, one after the other: the recursive function of
\* pt_remove_node_if exists.
LEMMA RemoveWalkExists ==
  ASSUME NEW w0, NEW chosen
  PROVE  \E walk : IsRemoval(walk, w0, chosen)
<1>. DEFINE After(w) == IF w.todo = <<>> THEN w ELSE RemoveStep(w, chosen)
            Upto(k, f) == f[0] = w0 /\ \A i \in 0 .. k : i # k => f[i + 1] = After(f[i])
            Reached == {k \in Nat : \E f : Upto(k, f)}
<1>1. 0 \in Reached
  <2>1. Upto(0, [i \in {0} |-> w0])
    OBVIOUS
  <2> QED BY <2>1
<1>. HIDE DEF After
<1>2. ASSUME NEW k \in Nat, k \in Reached PROVE k + 1 \in Reached
  <2>1. PICK f : Upto(k, f)
    BY <1>2
  <2>. DEFINE g == [i \in 0 .. k + 1 |-> IF i <= k THEN f[i] ELSE After(f[k])]
  <2>2. g[0] = w0
    BY <2>1
  <2>3. ASSUME NEW i \in 0 .. k + 1, i # k + 1 PROVE g[i + 1] = After(g[i])
    <3>1. g[i] = f[i]
      BY <2>3
    <3>2. CASE i = k
      BY <3>1, <3>2
    <3>3. CASE i # k
      <4>1. i \in 0 .. k /\ i + 1 \in 0 .. k + 1 /\ i + 1 <= k
        BY <2>3, <3>3
      <4>2. g[i + 1] = f[i + 1]
        BY <4>1
      <4> QED BY <2>1, <3>1, <3>3, <4>1, <4>2
    <3> QED BY <3>2, <3>3
  <2>. HIDE DEF g
  <2>4. Upto(k + 1, g)
    BY <2>2, <2>3
  <2> QED BY <2>4
<1>3. ASSUME NEW k \in Nat PROVE k \in Reached
  <2>1. \A i \in Nat : i < k /\ i \in Reached => i + 1 \in Reached
    BY <1>2
  <2>. HIDE DEF Reached
  <2>2. \A i \in 0 .. k : i \in Reached
    BY <1>1, <2>1, CountUp
  <2> QED BY <2>2
<1>. DEFINE path(k) == CHOOSE f : Upto(k, f)
<1>4. \A k \in Nat : Upto(k, path(k))
  BY <1>3
<1>5. ASSUME NEW k \in Nat, NEW f, NEW g, Upto(k, f), Upto(k, g) PROVE \A i \in 0 .. k : f[i] = g[i]
  <2>. DEFINE Same == {i \in Nat : f[i] = g[i]}
  <2>1. 0 \in Same
    BY <1>5
  <2>2. ASSUME NEW i \in Nat, i < k, i \in Same PROVE i + 1 \in Same
    <3>1. i \in 0 .. k /\ i # k
      BY <2>2
    <3>2. f[i + 1] = After(f[i]) /\ g[i + 1] = After(g[i])
      BY <1>5, <3>1
    <3> QED BY <2>2, <3>2
  <2>. HIDE DEF Same
  <2>3. \A i \in 0 .. k : i \in Same
    BY <2>1, <2>2, CountUp
  <2> QED BY <2>3 DEF Same
<1>6. ASSUME NEW k \in Nat PROVE path(k + 1)[k] = path(k)[k]
  <2>1. Upto(k, path(k)) /\ Upto(k + 1, path(k + 1))
    BY <1>4
  <2>. HIDE DEF path
  <2>2. Upto(k, path(k + 1))
    <3>1. \A i \in 0 .. k : i \in 0 .. k + 1 /\ i # k + 1
      OBVIOUS
    <3> QED BY <2>1, <3>1
  <2>. HIDE DEF Upto
  <2>3. \A i \in 0 .. k : path(k + 1)[i] = path(k)[i]
    BY <1>5, <2>1, <2>2
  <2> QED BY <2>3
<1>. DEFINE walk == [k \in Nat |-> path(k)[k]]
<1>7. ASSUME NEW k \in Nat PROVE walk[k] = IF k = 0 THEN w0 ELSE After(walk[k - 1])
  <2>1. walk[k] = path(k)[k]
    OBVIOUS
  <2>2. CASE k = 0
    <3>1. Upto(0, path(0))
      BY <1>4
    <3>. HIDE DEF path
    <3> QED BY <2>1, <2>2, <3>1
  <2>3. CASE k # 0
    <3>1. PICK j \in Nat : k = j + 1 /\ j = k - 1
      BY <2>3
    <3>a. walk[j] = path(j)[j] /\ j + 1 \in Nat
      OBVIOUS
    <3>. HIDE DEF path, walk, Upto
    <3>2. walk[j] = path(j)[j] /\ Upto(j + 1, path(j + 1)) /\ path(j + 1)[j] = path(j)[j]
      BY <1>4, <1>6, <3>a
    <3>. USE DEF Upto
    <3>3. path(j + 1)[j + 1] = After(path(j + 1)[j])
      <4>1. j \in 0 .. j + 1 /\ j # j + 1
        OBVIOUS
      <4> QED BY <3>2, <4>1
    <3> QED BY <2>1, <2>3, <3>1, <3>2, <3>3
  <2> QED BY <2>2, <2>3
<1>8. walk = [k \in Nat |-> IF k = 0 THEN w0 ELSE After(walk[k - 1])]
  <2>1. walk = [k \in Nat |-> walk[k]]
    OBVIOUS
  <2>. HIDE DEF walk
  <2> QED BY <1>7, <2>1
<1>. HIDE DEF walk
<1>9. walk = [k \in Nat |->
           IF k = 0 THEN w0
           ELSE LET w == walk[k - 1] IN IF w.todo = <<>> THEN w ELSE RemoveStep(w, chosen)]
  BY <1>8 DEF After
<1> QED BY <1>9 DEF IsRemoval

\* pt_remove_if keeps the invariant and what is not of the set, and adds nothing.
THEOREM RemoveIfKeepsTrie ==
  ASSUME NEW t, TrieInv(t), Counted(t), LeafEnds(t), NEW chosen
  PROVE  LET u == pt_remove_if(t, chosen) IN
         /\ TrieInv(u) /\ Counted(u) /\ LeafEnds(u)
         /\ Entries(u) \subseteq Entries(t)
         /\ \A e \in Entries(t) : e[2] \notin chosen => e \in Entries(u)
<1>1. CASE t.root = NULL
  BY <1>1 DEF pt_remove_if
<1>2. CASE t.root # NULL /\ t.node[t.root].leaf = NULL
  <2>. DEFINE w0 == [trie |-> t, todo |-> <<<<t.root, "left">>>>]
              walk == CHOOSE f : f = [k \in Nat |->
                IF k = 0 THEN w0
                ELSE LET w == f[k - 1] IN IF w.todo = <<>> THEN w ELSE RemoveStep(w, chosen)]
              last == 2 * Cardinality(DOMAIN t.node)
              u == pt_remove_if(t, chosen)
  <2>1. walk = [k \in Nat |->
           IF k = 0 THEN w0
           ELSE LET w == walk[k - 1] IN IF w.todo = <<>> THEN w ELSE RemoveStep(w, chosen)]
    <3>. HIDE DEF w0
    <3>1. \E f : IsRemoval(f, w0, chosen)
      BY RemoveWalkExists
    <3>2. PICK f : IsRemoval(f, w0, chosen)
      BY <3>1
    <3>3. f = [k \in Nat |->
                IF k = 0 THEN w0
                ELSE LET w == f[k - 1] IN IF w.todo = <<>> THEN w ELSE RemoveStep(w, chosen)]
      BY <3>2 DEF IsRemoval
    <3> QED BY <3>3, Zenon
  <2>2. u = walk[last].trie
    BY <1>2 DEF pt_remove_if, pt_remove_node_if
  <2>. HIDE DEF walk, u
  <2>3. last \in Nat
    BY FS_CardinalityType DEF TrieInv, Typed
  <2>. HIDE DEF last
  <2>4. Removing(t, w0, chosen)
    <3>1. w0.trie = t /\ w0.todo = <<<<t.root, "left">>>> /\ w0 = [trie |-> w0.trie, todo |-> w0.todo]
      OBVIOUS
    <3>. HIDE DEF w0
    <3>2. t.root \in DOMAIN t.node
      BY <1>2 DEF TrieInv, Rooted
    <3>3. w0.todo \in Seq((DOMAIN t.node) \X Sides) /\ DOMAIN w0.todo = {1}
      <4>. DEFINE x == <<t.root, "left">>
      <4>1. x \in (DOMAIN t.node) \X Sides
        BY <3>2 DEF Sides
      <4>. HIDE DEF x
      <4>2. <<x>> \in Seq((DOMAIN t.node) \X Sides) /\ DOMAIN <<x>> = {1}
        BY <4>1
      <4> QED BY <3>1, <4>2 DEF x
    <3>4. Rising(t, w0.todo)
      BY <3>3 DEF Rising
    <3> QED BY <3>1, <3>3, <3>4 DEF Removing
  <2>. DEFINE Good == {k \in Nat : Removing(t, walk[k], chosen)}
  <2>5. 0 \in Good
    <3>1. walk[0] = w0
      BY <2>1
    <3> QED BY <2>4, <3>1
  <2>. HIDE DEF w0
  <2>6. ASSUME NEW k \in Nat, k < last, k \in Good PROVE k + 1 \in Good
    <3>. DEFINE w == walk[k]
    <3>1. walk[k + 1] = IF w.todo = <<>> THEN w ELSE RemoveStep(w, chosen)
      <4>1. k + 1 \in Nat /\ k + 1 # 0 /\ (k + 1) - 1 = k
        OBVIOUS
      <4> QED BY <2>1, <4>1
    <3>2. Removing(t, w, chosen)
      BY <2>6
    <3>. HIDE DEF w
    <3>3. Removing(t, walk[k + 1], chosen)
      BY <3>1, <3>2, RemoveStepKeeps
    <3> QED BY <3>3
  <2>. HIDE DEF Good
  <2>7. \A k \in 0 .. last : k \in Good
    BY <2>3, <2>5, <2>6, CountUp
  <2>8. last \in Good
    BY <2>3, <2>7
  <2>9. Removing(t, walk[last], chosen)
    BY <2>8 DEF Good
  <2>10. /\ TrieInv(u) /\ Counted(u) /\ LeafEnds(u)
         /\ Entries(u) \subseteq Entries(t)
         /\ \A e \in Entries(t) : e[2] \notin chosen => e \in Entries(u)
    BY <2>2, <2>9 DEF Removing
  <2> QED BY <2>10 DEF u
<1>3. CASE t.root # NULL /\ t.node[t.root].leaf # NULL /\ t.node[t.root].leaf \in chosen
  <2>1. pt_remove_if(t, chosen) = pt_remove_leaf_node(t, t.root)
    BY <1>3 DEF pt_remove_if
  <2>2. t.root \in LeafNodes(t)
    BY <1>3 DEF TrieInv, Rooted, LeafNodes
  <2>. DEFINE u == pt_remove_leaf_node(t, t.root)
              f == <<t.node[t.root].addr, t.node[t.root].leaf>>
  <2>3. TrieInv(u) /\ Counted(u) /\ Entries(u) = Entries(t) \ {f}
    BY <2>2, RemoveKeepsTrie
  <2>4. LeafEnds(u)
    BY <2>2, RemoveKeepsEnds
  <2>5. f[2] \in chosen
    BY <1>3
  <2> QED BY <2>1, <2>3, <2>4, <2>5
<1>4. CASE t.root # NULL /\ t.node[t.root].leaf # NULL /\ t.node[t.root].leaf \notin chosen
  BY <1>4 DEF pt_remove_if
<1> QED BY <1>1, <1>2, <1>3, <1>4
=============================================================================
