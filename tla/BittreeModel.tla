---------------------------- MODULE BittreeModel ----------------------------
(***************************************************************************)
(* The bittree observation model of the E-ACSL runtime                     *)
(* (bittree_model/e_acsl_bittree_observation_model.c): the blocks of the   *)
(* instrumented program are bt_block structures in a Patricia trie.        *)
(*                                                                         *)
(* The actions are the calls that instrumentation puts in the program and  *)
(* the allocation functions it replaces.  The program is any one that uses *)
(* its own memory: it stores the objects it has (Objects), writes inside   *)
(* its blocks, and may free or reallocate any address.  The C library is   *)
(* external: its allocator returns any free place of the heap.  Given a    *)
(* variable to free or to move, it stops the process or goes on; nothing   *)
(* is said of what the program does then.                                  *)
(***************************************************************************)
EXTENDS PatriciaTrie, FiniteSetsExt

CONSTANTS Objects,         \* the variables of the program: base and size
          HeapBases,       \* where the allocator can put a block
          HeapEnd,         \* the first address after the heap
          Sizes,           \* sizes asked for
          Parts,           \* <<offset, length>> that the program assigns
          Pointers,        \* what it gives to free, realloc and __e_acsl_*
          CHAR_BIT,        \* bits of a byte of init_ptr: 8
          MaxBlocks,       \* bound on the blocks alive at a time
          LookupReturns,   \* what pt_lookup returns for a leaf it has found
          ShrinksPartly    \* the program shrinks blocks it has partly written

VARIABLES bittree,         \* the trie; its leaves are the bases of blk
          blk,             \* the bt_block of each leaf
          heap,            \* heap_internal_allocation_size, .._allocated_blocks
          status,          \* "running", "aborted" by the runtime, "crashed", or
                           \* "undefined": the C library was given a variable
          written          \* the bytes to which the program has given a value

vars == <<bittree, blk, heap, status, written>>

Span(p, n) == p .. (p + n - 1)
Footprint(p, n) == Span(p, n) \cup {p}

Addr == (UNION {Footprint(o.base, o.size) : o \in Objects})
          \cup (UNION {Span(p, HeapEnd - p) : p \in HeapBases})

(* What MCRuntime gives to the constants: addresses are words, and no      *)
(* variable is on the heap.                                                *)
BittreeAssumption ==
  /\ Objects \subseteq [base : Nat \ {0}, size : Nat]
  /\ HeapEnd \in Nat /\ HeapBases \subseteq 1 .. HeapEnd - 1
  /\ Addr \subseteq Word /\ Pointers \subseteq Addr
  /\ \A o \in Objects, p \in HeapBases :
       Footprint(o.base, o.size) \cap Span(p, HeapEnd - p) = {}
  /\ Sizes \subseteq Nat \ {0}
  /\ Parts \subseteq Nat \X (Nat \ {0})
  /\ CHAR_BIT \in Nat \ {0}
  /\ LookupReturns \in {"leaf", "null"}
  /\ ShrinksPartly \in BOOLEAN

-----------------------------------------------------------------------------
(* bt_contains_ptr *)
bt_contains_ptr(b, p) ==
  \/ b <= p /\ p < b + blk[b].size
  \/ blk[b].size = 0 /\ p = b

bt_find(p) == pt_find(bittree, {b \in DOMAIN blk : bt_contains_ptr(b, p)}, p)

(* pt_lookup assigns its result when it finds nothing, and only then: when *)
(* the leaf is there the value of an uninitialized variable is returned.   *)
bt_lookup(p) ==
  IF p = NULL \/ bittree.root = NULL \/ LookupReturns = "null" THEN NULL
  ELSE pt_lookup(bittree, p)

bt_alloc_block(n) ==
  [size |-> n, init_ptr |-> FALSE, bits |-> {}, init_bytes |-> 0,
   is_readonly |-> FALSE, is_freeable |-> FALSE]

bt_clean_block_init(r) ==
  [r EXCEPT !.init_ptr = FALSE, !.bits = {}, !.init_bytes = 0]

needed_bytes(n) ==
  IF n % CHAR_BIT = 0 THEN n \div CHAR_BIT ELSE n \div CHAR_BIT + 1

Init ==
  /\ bittree = EmptyTrie
  /\ blk = <<>>
  /\ heap = [size |-> 0, blocks |-> 0]
  /\ status = "running"
  /\ written = {}

(* Mutant: the size is unsigned, what is freed is not counted out. *)
update_heap_allocation_Unsigned(h, n) ==
  [size |-> h.size + n, blocks |-> IF n > 0 THEN h.blocks + 1 ELSE h.blocks]

update_heap_allocation(h, n) ==
  [size |-> h.size + n,
   blocks |-> IF n > 0 THEN h.blocks + 1 ELSE IF n < 0 THEN h.blocks - 1 ELSE h.blocks]

-----------------------------------------------------------------------------
(* Mutant: bytes that were marked already are counted again. *)
Initialized_Twice(r, from, n) ==
  LET start == IF r.init_bytes = 0 THEN {} ELSE r.bits
      marked == from .. (from + n - 1)
      count == r.init_bytes + n
  IN  IF r.init_bytes = r.size THEN r
      ELSE IF count >= r.size
      THEN [r EXCEPT !.init_ptr = FALSE, !.bits = {}, !.init_bytes = r.size]
      ELSE [r EXCEPT !.init_ptr = TRUE, !.bits = start \cup marked, !.init_bytes = count]

(* eacsl_initialize, of bytes of a block *)
Initialized(r, from, n) ==
  LET start == IF r.init_bytes = 0 THEN {} ELSE r.bits
      marked == from .. (from + n - 1)
      count == r.init_bytes + Cardinality(marked \ start)
  IN  IF r.init_bytes = r.size THEN r
      ELSE IF count = r.size
      THEN [r EXCEPT !.init_ptr = FALSE, !.bits = {}, !.init_bytes = count]
      ELSE [r EXCEPT !.init_ptr = TRUE, !.bits = start \cup marked, !.init_bytes = count]

eacsl_initialize(start, part) ==
  LET p == start + part[1]
      n == part[2]
      b == bt_find(p)
  IN
  /\ start \in DOMAIN blk /\ part[1] + n <= blk[start].size
  /\ blk' = [blk EXCEPT ![b] = Initialized(@, p - b, n)]
  /\ written' = written \cup Span(p, n)
  /\ UNCHANGED <<bittree, heap, status>>

eacsl_full_init(p) ==
  LET b == bt_lookup(p) IN
  /\ p \in DOMAIN blk
  /\ blk' = IF b = NULL THEN blk
            ELSE [blk EXCEPT ![b].init_ptr = FALSE, ![b].bits = {},
                             ![b].init_bytes = blk[b].size]
  /\ written' = written \cup Span(p, blk[p].size)
  /\ UNCHANGED <<bittree, heap, status>>

eacsl_mark_readonly(p) ==
  LET b == bt_lookup(p) IN
  /\ p \in DOMAIN blk /\ ~blk[p].is_freeable
  /\ blk' = IF b = NULL THEN blk ELSE [blk EXCEPT ![b].is_readonly = TRUE]
  /\ UNCHANGED <<bittree, heap, status, written>>

-----------------------------------------------------------------------------
eacsl_store_block(o) ==
  /\ Cardinality(DOMAIN blk) < MaxBlocks
  /\ \A b \in DOMAIN blk : Footprint(b, blk[b].size) \cap Footprint(o.base, o.size) = {}
  /\ blk' = With(blk, o.base, bt_alloc_block(o.size))
  /\ bittree' = pt_insert(bittree, o.base, o.base)
  /\ UNCHANGED <<heap, status, written>>

Stored(o) == o.base \in DOMAIN blk /\ blk[o.base].size = o.size

eacsl_delete_block(o) ==
  LET b == bt_lookup(o.base) IN
  /\ Stored(o)
  /\ IF b = NULL THEN UNCHANGED <<bittree, blk>>
     ELSE /\ bittree' = pt_remove(bittree, b)
          /\ blk' = Without(blk, {b})
  /\ written' = written \ Span(o.base, o.size)
  /\ UNCHANGED <<heap, status>>

(* The object starts a new life before the end of the one before. *)
eacsl_store_block_duplicate(o) ==
  LET b == bt_lookup(o.base) IN
  /\ Stored(o)
  /\ bittree' = pt_insert(IF b = NULL THEN bittree ELSE pt_remove(bittree, b),
                          o.base, o.base)
  /\ blk' = [blk EXCEPT ![o.base] = bt_alloc_block(o.size)]
  /\ written' = written \ Span(o.base, o.size)
  /\ UNCHANGED <<heap, status>>

-----------------------------------------------------------------------------
(* The allocator can put n bytes at p, where the block at old is or where  *)
(* there is none.                                                          *)
Available(p, n, old) ==
  /\ p \in HeapBases /\ p + n <= HeapEnd
  /\ \A b \in DOMAIN blk \ {old} : Span(b, blk[b].size) \cap Span(p, n) = {}

(* malloc, aligned_alloc and posix_memalign (zeroed = FALSE) and calloc;   *)
(* nothing happens when the size is 0 or the allocator fails.              *)
malloc(p, n, zeroed) ==
  /\ Cardinality(DOMAIN blk) < MaxBlocks
  /\ n > 0 /\ Available(p, n, NULL)
  /\ blk' = With(blk, p, [bt_alloc_block(n) EXCEPT
                           !.is_freeable = TRUE, !.init_bytes = IF zeroed THEN n ELSE 0])
  /\ bittree' = pt_insert(bittree, p, p)
  /\ heap' = update_heap_allocation(heap, n)
  /\ written' = IF zeroed THEN written \cup Span(p, n) ELSE written
  /\ UNCHANGED status

(* Of a variable too the block is removed, or replaced: there is no test   *)
(* of is_freeable.                                                         *)
AfterLibrary(b) == IF blk[b].is_freeable THEN status ELSE "undefined"

LibraryStops(b) ==
  /\ ~blk[b].is_freeable
  /\ status' = "crashed"
  /\ UNCHANGED <<bittree, blk, written>>

(* free of a block, or of a variable, that starts at p. *)
free(p) ==
  LET b == bt_lookup(p) IN
  /\ b # NULL
  /\ heap' = update_heap_allocation(heap, -blk[b].size)
  /\ \/ /\ bittree' = pt_remove(bittree, b)
        /\ blk' = Without(blk, {b})
        /\ written' = written \ Span(b, blk[b].size)
        /\ status' = AfterLibrary(b)
     \/ LibraryStops(b)

(* What is not the start of a block is reported; but in a trie without a   *)
(* leaf pt_lookup reads the root that is not there.                        *)
free_invalid(p) ==
  /\ p # NULL /\ bt_lookup(p) = NULL
  /\ status' = IF bittree.root = NULL THEN "crashed" ELSE "aborted"
  /\ UNCHANGED <<bittree, blk, heap, written>>

(* Mutant: the block keeps its length. *)
Resized_SameSize(r, n) ==
  LET full == r.init_bytes = r.size IN
  [r EXCEPT !.init_bytes = IF full THEN n ELSE r.init_bytes, !.is_freeable = TRUE]

(* The initialization of a block of size r.size that now has n bytes. *)
Resized(r, n) ==
  LET full == r.init_bytes = r.size
      partly == r.init_bytes # 0 /\ ~full
      kept == {i \in r.bits : i < needed_bytes(n) * CHAR_BIT}
      count == Cardinality(kept)
      grown == CASE r.init_bytes = 0 -> r
                 [] r.init_bytes # 0 /\ full /\ n <= r.size -> [r EXCEPT !.init_bytes = n]
                 [] r.init_bytes # 0 /\ full /\ n > r.size ->
                      [r EXCEPT !.init_ptr = TRUE, !.bits = 0 .. (r.size - 1)]
                 [] partly /\ count \in {0, n} ->
                      [r EXCEPT !.init_ptr = FALSE, !.bits = {}, !.init_bytes = count]
                 [] OTHER -> [r EXCEPT !.bits = kept, !.init_bytes = count]
  IN  [grown EXCEPT !.size = n, !.is_freeable = TRUE]

(* A block that moves is taken out of the trie, which cleans it, and put   *)
(* back with its new address.  What is not the start of a block is not     *)
(* recognized, but in debug mode: its bt_block is read all the same.       *)
realloc(p, q, n) ==
  LET b == bt_lookup(p)
      r == IF q = p THEN blk[b] ELSE bt_clean_block_init(blk[b])
      moved == {a \in Span(q, n) : a - q + p \in written \cap Span(p, blk[p].size)}
  IN  /\ b # NULL
      /\ n >= blk[b].size \/ blk[b].init_bytes \in {0, blk[b].size} \/ ShrinksPartly
      /\ Available(q, n, p)
      /\ heap' = update_heap_allocation(update_heap_allocation(heap, n), -blk[b].size)
      /\ blk' = With(Without(blk, {b}), q, Resized(r, n))
      /\ bittree' = IF q = p THEN bittree
                    ELSE pt_insert(pt_remove(bittree, b), q, q)
      /\ written' = (written \ Span(p, blk[p].size)) \cup moved
      /\ status' = AfterLibrary(b)

realloc_invalid(p) ==
  LET b == bt_lookup(p) IN
  /\ UNCHANGED heap
  /\ IF b # NULL THEN LibraryStops(b)
     ELSE status' = "crashed" /\ UNCHANGED <<bittree, blk, written>>

Next ==
  /\ status = "running"
  /\ \/ \E o \in Objects : \/ eacsl_store_block(o) \/ eacsl_delete_block(o)
                           \/ eacsl_store_block_duplicate(o)
     \/ \E p \in Pointers : \/ \E part \in Parts : eacsl_initialize(p, part)
                        \/ eacsl_full_init(p) \/ eacsl_mark_readonly(p)
                        \/ free(p) \/ free_invalid(p) \/ realloc_invalid(p)
     \/ \E p \in HeapBases, n \in Sizes :
          \/ \E zeroed \in BOOLEAN : malloc(p, n, zeroed)
          \/ \E q \in Pointers : realloc(q, p, n)

Spec == Init /\ [][Next]_vars

-----------------------------------------------------------------------------
(* The answers to the annotations. *)
lookup_allocated(p, n, base) ==
  LET b == bt_find(p) IN
  b # NULL /\ bt_find(base) = b /\ blk[b].size - (p - b) >= n

eacsl_valid_read(p, n, base) == n = 0 \/ lookup_allocated(p, n, base)

eacsl_valid(p, n, base) ==
  n = 0 \/ (lookup_allocated(p, n, base) /\ ~blk[bt_find(p)].is_readonly)

eacsl_freeable(p) == LET b == bt_lookup(p) IN b # NULL /\ blk[b].is_freeable

eacsl_initialized(p, n) ==
  LET b == bt_find(p)
      r == blk[b]
  IN  /\ b # NULL /\ r.init_bytes # 0
      /\ r.init_bytes = r.size \/ (p - b) .. (p - b + n - 1) \subseteq r.bits

eacsl_base_addr(p) == bt_find(p)
eacsl_block_length(p) == blk[bt_find(p)].size
eacsl_offset(p) == p - bt_find(p)

-----------------------------------------------------------------------------
AbstractBlock(b) ==
  [base |-> b, size |-> blk[b].size, heap |-> blk[b].is_freeable,
   readonly |-> blk[b].is_readonly]

Blocks == {AbstractBlock(b) : b \in DOMAIN blk}

Abstract(now) == INSTANCE BlockMap
  WITH blocks <- now, init <- written,
       aborted <- (status = "aborted"),
       Size <- Sizes \cup {o.size : o \in Objects}

Memory == INSTANCE BlockMap
  WITH blocks <- Blocks, init <- written,
       aborted <- (status = "aborted"),
       Size <- Sizes \cup {o.size : o \in Objects}

(* Where BlockMap aborts the bittree may also lose the process, and takes  *)
(* a variable that is freed or moved for a block of the heap.              *)
Crashes == status' = "crashed" /\ UNCHANGED <<Blocks, written>>

TakesVariable ==
  \E b \in Blocks :
    /\ ~b.heap /\ status' = "undefined"
    /\ \/ Blocks' = Blocks \ {b}
       \/ \E c \in Blocks' : c.heap /\ Blocks' = (Blocks \ {b}) \cup {c}

(* Each call does to the blocks and the values of the program what the     *)
(* memory of a C program does, but for those two: the bt_block structures  *)
(* of the trie are at every step the blocks of BlockMap.                   *)
KeepsTheBlocks ==
  /\ Memory!Init
  /\ [][\/ status' \in {"running", "aborted"} /\ Memory!Next
        \/ Crashes \/ TakesVariable]_<<Memory!vars, status>>

(* The trie has a leaf for each block and nothing else, its prefixes and   *)
(* links are those of its leaves, whatever came and went in between.       *)
TrieHoldsBlocks ==
  /\ WellFormed(bittree)
  /\ Leaves(bittree) = DOMAIN blk
  /\ Cardinality(DOMAIN bittree.node) = Max({0, 2 * Cardinality(DOMAIN blk) - 1})

Bases == {o.base : o \in Objects} \cup HeapBases

(* For every region the program can ask about, in a block, over its end or *)
(* between two, the walk down the trie gives the answer of the contract.   *)
AnswersAgree ==
  LET now == Blocks IN
  /\ \A p \in Addr : \A n \in Sizes, base \in {p} \cup Bases :
       /\ eacsl_valid(p, n, base) <=> Abstract(now)!valid(p, n, base)
       /\ eacsl_valid_read(p, n, base) <=> Abstract(now)!valid_read(p, n, base)
  /\ \A p \in Addr :
       /\ eacsl_freeable(p) <=> Abstract(now)!freeable(p)
       /\ Abstract(now)!Holders(p) # {} =>
            /\ eacsl_base_addr(p) = Abstract(now)!base_addr(p)
            /\ eacsl_block_length(p) = Abstract(now)!block_length(p)
            /\ eacsl_offset(p) = Abstract(now)!offset(p)

(* A region inside a block that is said to be initialized was written, or  *)
(* kept by realloc, byte for byte (e_acsl_observation_model.h:403).  The   *)
(* converse is false: a block that realloc moves loses its initialization. *)
InBlock(p, n) == \E b \in DOMAIN blk : b <= p /\ p + n <= b + blk[b].size

OnlyWrittenIsInitialized ==
  LET now == Blocks IN
  \A p \in Addr, n \in Sizes :
    InBlock(p, n) /\ eacsl_initialized(p, n) => Abstract(now)!initialized(p, n)

(* The counters that the leak report and __e_acsl_heap_allocation_size use *)
(* are those of the blocks that can be freed, also through realloc, which  *)
(* counts one block in before the other one out; less those of a variable  *)
(* that was given to free or realloc.                                      *)
CountersMatch ==
  LET freeable == {b \in DOMAIN blk : blk[b].is_freeable}
      Match(size, blocks) ==
        /\ heap.blocks + blocks = Cardinality(freeable)
        /\ heap.size + size = FoldSet(LAMBDA b, sum : blk[b].size + sum, 0, freeable)
  IN  \/ Match(0, 0)
      \/ /\ status \in {"crashed", "undefined"}
         /\ \E o \in Objects : Match(o.size, IF o.size > 0 THEN 1 ELSE 0)
=============================================================================
