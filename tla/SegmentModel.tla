---------------------------- MODULE SegmentModel ----------------------------
(***************************************************************************)
(* The shadow memory of the E-ACSL runtime (segment_model/                 *)
(* e_acsl_segment_tracking.c): what is known of a byte of the program is   *)
(* at a place of its own, computed from its address, in a shadow of its    *)
(* segment.  A byte of a variable has a code (the length of its block and  *)
(* its offset in it), with the rest in a secondary shadow when the block   *)
(* is long.  The heap is cut in segments, each with the base of its block, *)
(* the first one with its length, and has one initialization bit per byte. *)
(*                                                                         *)
(* Every call takes the global lock of the model (                         *)
(* e_acsl_segment_observation_model.c), so that it is one step.            *)
(***************************************************************************)
EXTENDS Integers, Sequences, FiniteSets, FiniteSetsExt, TLC

CONSTANTS Objects,         \* the variables of the program: base and size
          GlobalEnd,       \* the first address after the global variables
          StaticEnd,       \* the first address after all variables
          HeapBases,       \* where the allocator can put a block
          HeapEnd,         \* the first address after the heap
          HEAP_SEGMENT,    \* bytes of a heap segment: 32
          CHAR_BIT,        \* bits of a byte of the init shadow: 8
          Sizes,           \* sizes asked for
          Parts,           \* <<offset, length>> that the program assigns
          Pointers,        \* what it gives to free, realloc and __e_acsl_*
          MaxBlocks        \* bound on the blocks alive at a time

VARIABLES prim,            \* primary shadow of each byte of a variable
          sec,             \* secondary shadow, by the first byte of 8
          segment,         \* shadow of each heap segment: base and length
          init,            \* the bits of the heap init shadow that are set
          heap,            \* heap_internal_allocation_size, .._allocated_blocks
          status,          \* "running", "aborted" by the runtime, or "crashed"
          written,         \* the bytes to which the program has given a value
          uncleared        \* those it has not, with bits that realloc leaves set

vars == <<prim, sec, segment, init, heap, status, written, uncleared>>

NULL == 0
HEAP_START == Min(HeapBases)
StaticAddr == 1 .. StaticEnd - 1
HeapAddr == HEAP_START .. HeapEnd - 1
Segments == {a \in HeapAddr : a % HEAP_SEGMENT = 0}
Addr == StaticAddr \cup HeapAddr

ASSUME SegmentAssumption ==
  /\ CHAR_BIT \in Nat \ {0} /\ HEAP_SEGMENT \in Nat \ {0}
  /\ HeapBases \in SUBSET (Nat \ {0}) /\ HeapBases # {}
  /\ GlobalEnd \in Nat /\ StaticEnd \in Nat /\ HeapEnd \in Nat
  /\ HEAP_SEGMENT % CHAR_BIT = 0 /\ HeapEnd % HEAP_SEGMENT = 0
  /\ \A p \in HeapBases : p % HEAP_SEGMENT = 0 /\ StaticEnd <= p
  /\ Sizes \subseteq Nat \ {0}
  /\ Parts \subseteq Nat \X (Nat \ {0})
  /\ Objects \subseteq [base : Nat \ {0}, size : Nat \ {0}]
  /\ \A o \in Objects : /\ o.base + o.size <= StaticEnd
                        /\ o.base < GlobalEnd => o.base + o.size <= GlobalEnd
  /\ Pointers \subseteq Addr
  /\ MaxBlocks \in Nat

Span(p, n) == p .. (p + n - 1)
Overlay(f, g) == [a \in DOMAIN f |-> IF a \in DOMAIN g THEN g[a] ELSE f[a]]
DivUp(n, m) == (n + m - 1) \div m

-----------------------------------------------------------------------------
(* The codes of the primary shadow. *)
LONG_BLOCK == 8
LONG_BLOCK_INDEX_START == 48
LONG_BLOCK_BOUNDARY(n) == n - (n % LONG_BLOCK)

short_lengths ==
  <<0, 1, 2, 2, 3, 3, 3, 4, 4, 4, 4, 5, 5, 5, 5, 5, 6, 6, 6, 6, 6, 6,
    7, 7, 7, 7, 7, 7, 7, 8, 8, 8, 8, 8, 8, 8, 8>>
short_offsets ==
  <<0, 0, 0, 1, 0, 1, 2, 0, 1, 2, 3, 0, 1, 2, 3, 4, 0, 1, 2, 3, 4, 5,
    0, 1, 2, 3, 4, 5, 6, 0, 1, 2, 3, 4, 5, 6, 7>>
short_offsets_base == <<0, 1, 2, 4, 7, 11, 16, 22, 29>>

Zero == [code |-> 0, init |-> FALSE, ro |-> FALSE]
Coded(c) == [Zero EXCEPT !.code = c]

(* Mutant: the first byte after the boundary gets a code of those before. *)
Code_AtBoundary(n, i) ==
  IF n <= LONG_BLOCK THEN short_offsets_base[n + 1] + i
  ELSE IF i <= LONG_BLOCK_BOUNDARY(n) THEN LONG_BLOCK_INDEX_START + (i % LONG_BLOCK)
  ELSE LONG_BLOCK_INDEX_START + LONG_BLOCK + (i % LONG_BLOCK)

(* The code of byte i of a block of n bytes. *)
Code(n, i) ==
  IF n <= LONG_BLOCK THEN short_offsets_base[n + 1] + i
  ELSE IF i < LONG_BLOCK_BOUNDARY(n) THEN LONG_BLOCK_INDEX_START + (i % LONG_BLOCK)
  ELSE LONG_BLOCK_INDEX_START + LONG_BLOCK + (i % LONG_BLOCK)

Secondary(p, n) ==
  IF n <= LONG_BLOCK THEN <<>>
  ELSE [a \in {p + i : i \in {j \in 0 .. LONG_BLOCK_BOUNDARY(n) - 1 : j % LONG_BLOCK = 0}}
          |-> [length |-> n, offset |-> a - p]]

NoInfo == [length |-> 0, offset |-> 0]

(* What static_info and static_allocated read of the block of a byte. *)
static_info(p) ==
  LET c == prim[p].code
      off == c - LONG_BLOCK_INDEX_START
  IN  IF c >= LONG_BLOCK_INDEX_START
      THEN [length |-> sec[p - off].length, offset |-> sec[p - off].offset + off]
      ELSE [length |-> short_lengths[c + 1], offset |-> short_offsets[c + 1]]

Tracked(p) == prim[p] # Zero

HeapBlockBases == {a \in Segments : segment[a].base = a}
StaticBlockBases == {a \in StaticAddr : Tracked(a) /\ static_info(a).offset = 0}
Alive == Cardinality(HeapBlockBases \cup StaticBlockBases)

Init ==
  /\ prim = [a \in StaticAddr |-> Zero]
  /\ sec = [a \in StaticAddr |-> NoInfo]
  /\ segment = [a \in Segments |-> [base |-> NULL, length |-> 0]]
  /\ init = {}
  /\ heap = [size |-> 0, blocks |-> 0]
  /\ status = "running"
  /\ written = {}
  /\ uncleared = {}

-----------------------------------------------------------------------------
(* Variables *)
Alloca(pr, p, n) == Overlay(pr, [a \in Span(p, n) |-> Coded(Code(n, a - p))])
Freea(pr, p, n) == Overlay(pr, [a \in Span(p, n) |-> Zero])

shadow_alloca(o) ==
  /\ Alive < MaxBlocks
  /\ \A a \in Span(o.base, o.size) : ~Tracked(a)
  /\ prim' = Alloca(prim, o.base, o.size)
  /\ sec' = Overlay(sec, Secondary(o.base, o.size))
  /\ UNCHANGED <<segment, init, heap, status, written, uncleared>>

(* Mutant: what is known of a long block stays in the secondary shadow. *)
ForgetSec_Kept(p, n) == sec

ForgetSec(p, n) == Overlay(sec, [a \in Span(p, n) |-> NoInfo])

Stored(o) == /\ Tracked(o.base)
            /\ static_info(o.base) = [length |-> o.size, offset |-> 0]

shadow_freea(o) ==
  LET n == static_info(o.base).length IN
  /\ Stored(o)
  /\ prim' = Freea(prim, o.base, n)
  /\ sec' = ForgetSec(o.base, n)
  /\ written' = written \ Span(o.base, o.size)
  /\ UNCHANGED <<segment, init, heap, status, uncleared>>

(* The object starts a new life before the end of the one before. *)
eacsl_store_block_duplicate(o) ==
  /\ Stored(o)
  /\ prim' = Alloca(Freea(prim, o.base, static_info(o.base).length), o.base, o.size)
  /\ sec' = Overlay(ForgetSec(o.base, static_info(o.base).length),
                    Secondary(o.base, o.size))
  /\ written' = written \ Span(o.base, o.size)
  /\ UNCHANGED <<segment, init, heap, status, uncleared>>

eacsl_mark_readonly(o) ==
  /\ Stored(o) /\ o.base < GlobalEnd
  /\ prim' = Overlay(prim, [a \in Span(o.base, static_info(o.base).length) |->
                              [prim[a] EXCEPT !.ro = TRUE]])
  /\ UNCHANGED <<sec, segment, init, heap, status, written, uncleared>>

-----------------------------------------------------------------------------
(* The heap *)
(* Mutant: the segment of the last bytes is not counted. *)
ALLOC_SIZE_RoundDown(n) ==
  IF n < HEAP_SEGMENT THEN HEAP_SEGMENT ELSE n - (n % HEAP_SEGMENT)

ALLOC_SIZE(n) == DivUp(n, HEAP_SEGMENT) * HEAP_SEGMENT

AlignLeft(p) == p - (p % HEAP_SEGMENT)
heap_base(p) == segment[AlignLeft(p)].base
heap_length(p) == segment[heap_base(p)].length

(* Mutant: the size is unsigned, what is freed is not counted out. *)
update_heap_allocation_Unsigned(h, n) ==
  [size |-> h.size + n, blocks |-> IF n > 0 THEN h.blocks + 1 ELSE h.blocks]

update_heap_allocation(h, n) ==
  [size |-> h.size + n,
   blocks |-> IF n > 0 THEN h.blocks + 1 ELSE IF n < 0 THEN h.blocks - 1 ELSE h.blocks]

set_heap_segment(sg, p, n) ==
  Overlay(sg, [a \in Span(p, ALLOC_SIZE(n)) \cap Segments |->
                 [base |-> p, length |-> IF a = p THEN n ELSE 0]])

unset_heap_segment(sg, p) ==
  Overlay(sg, [a \in Span(p, ALLOC_SIZE(sg[p].length)) \cap Segments |->
                 [base |-> NULL, length |-> 0]])

(* The allocator finds room for n bytes at p in the segments of sg. *)
Available(sg, p, n) ==
  /\ p \in HeapBases /\ p + ALLOC_SIZE(n) <= HeapEnd
  /\ \A a \in Span(p, ALLOC_SIZE(n)) \cap Segments : sg[a].base = NULL

unsafe_freeable(p) == p \in HeapAddr /\ heap_base(p) = p

(* malloc, aligned_alloc and posix_memalign (zeroed = FALSE) and calloc,   *)
(* which marks what it asked the allocator for.                            *)
unsafe_malloc(p, n, zeroed) ==
  /\ Alive < MaxBlocks
  /\ Available(segment, p, n)
  /\ segment' = set_heap_segment(segment, p, n)
  /\ heap' = update_heap_allocation(heap, n)
  /\ init' = IF zeroed THEN init \cup Span(p, ALLOC_SIZE(n)) ELSE init
  /\ written' = IF zeroed THEN written \cup Span(p, n) ELSE written
  /\ UNCHANGED <<prim, sec, status, uncleared>>

unsafe_free(p) ==
  /\ unsafe_freeable(p)
  /\ segment' = unset_heap_segment(segment, p)
  /\ heap' = update_heap_allocation(heap, -heap_length(p))
  /\ init' = init \ Span(p, ALLOC_SIZE(heap_length(p)))
  /\ written' = written \ Span(p, heap_length(p))
  /\ uncleared' = uncleared \ Span(p, heap_length(p))
  /\ UNCHANGED <<prim, sec, status>>

(* free or realloc of what is not the start of a block. *)
not_a_start_of_block(p) ==
  /\ ~unsafe_freeable(p)
  /\ status' = "aborted"
  /\ UNCHANGED <<prim, sec, segment, init, heap, written, uncleared>>

(* Mutant: what a block loses when it shrinks in place is not cleared. *)
MovedInit_KeepsTail(p, q, old, n) ==
  IF q = p THEN init
  ELSE (init \ (Span(p, ALLOC_SIZE(old)) \cup Span(q, n)))
         \cup {q + i : i \in {j \in 0 .. Min({n, old}) - 1 : p + j \in init}}

(* The init shadow of a block of old bytes at p that has n bytes at q: it  *)
(* is cleared from n on when it shrinks, what remains is copied by whole   *)
(* bytes and their last one completed with zeros when it grows.            *)
MovedInit(p, q, old, n) ==
  LET keep == DivUp(Min({n, old}), CHAR_BIT) * CHAR_BIT
      shrunk == IF old > n THEN init \ (p + n .. p + ALLOC_SIZE(old) - 1) ELSE init
      copied == IF q = p THEN shrunk
                ELSE (shrunk \ (Span(p, ALLOC_SIZE(old)) \cup Span(q, keep)))
                       \cup {q + i : i \in {j \in 0 .. keep - 1 : p + j \in shrunk}}
      rounded == IF n > old THEN copied \ (q + old .. q + keep - 1) ELSE copied
  IN  IF n > old /\ q = p
      THEN rounded \ (q + keep .. q + (n \div CHAR_BIT) * CHAR_BIT - 1)
      ELSE rounded

(* The bytes to reset are counted as size / 8 - idx, of unsigned numbers:  *)
(* memset gets the whole memory when the size is in the last byte kept.    *)
Overruns(p, q, old, n) ==
  n > old /\ q = p /\ n \div CHAR_BIT < DivUp(old, CHAR_BIT)

(* The division also leaves out the last byte of the init shadow when the  *)
(* block ends inside it: what calloc has marked there, past the end of the *)
(* block, is then in the block.                                            *)
LeftSet(p, q, old, n) ==
  IF n > old /\ q = p /\ ~Overruns(p, q, old, n)
  THEN init \cap (q + (n \div CHAR_BIT) * CHAR_BIT .. q + n - 1) ELSE {}

(* The bytes of S at p, where they are in a block of n bytes at q. *)
Moved(S, p, q, old, n) ==
  (S \ Span(p, old)) \cup {a \in Span(q, n) : a - q + p \in S \cap Span(p, old)}

unsafe_realloc(p, q, n) ==
  LET old == heap_length(p) IN
  /\ unsafe_freeable(p)
  /\ Available(IF q = p THEN unset_heap_segment(segment, p) ELSE segment, q, n)
  /\ segment' = set_heap_segment(unset_heap_segment(segment, p), q, n)
  /\ heap' = update_heap_allocation(update_heap_allocation(heap, -old), n)
  /\ init' = MovedInit(p, q, old, n)
  /\ status' = IF Overruns(p, q, old, n) THEN "crashed" ELSE status
  /\ written' = Moved(written, p, q, old, n)
  /\ uncleared' = Moved(uncleared, p, q, old, n) \cup LeftSet(p, q, old, n)
  /\ UNCHANGED <<prim, sec>>

-----------------------------------------------------------------------------
(* Initialization, of what the program assigns in one of its blocks. *)
initialize_heap_region(p, n) ==
  /\ init' = init \cup Span(p, n)
  /\ UNCHANGED prim

initialize_static_region(p, n) ==
  /\ prim' = Overlay(prim, [a \in Span(p, n) |-> [prim[a] EXCEPT !.init = TRUE]])
  /\ UNCHANGED init

Initialize(p, n) ==
  /\ IF p \in HeapAddr THEN initialize_heap_region(p, n)
                       ELSE initialize_static_region(p, n)
  /\ written' = written \cup Span(p, n)
  /\ UNCHANGED <<sec, segment, heap, status, uncleared>>

(* The predicate 'L', 'B' and 'O' of a pointer. *)
eacsl_block_length(p) ==
  IF p \in HeapAddr THEN heap_length(p) ELSE static_info(p).length
eacsl_base_addr(p) ==
  IF p \in HeapAddr THEN heap_base(p) ELSE p - static_info(p).offset
eacsl_offset(p) ==
  IF p \in HeapAddr THEN p - heap_base(p) ELSE static_info(p).offset

Base(p) == unsafe_freeable(p) \/ \E o \in Objects : o.base = p /\ Stored(o)

eacsl_full_init(p) == Base(p) /\ Initialize(p, eacsl_block_length(p))

eacsl_initialize(p, part) ==
  /\ Base(p) /\ part[1] + part[2] <= eacsl_block_length(p)
  /\ Initialize(p + part[1], part[2])

Next ==
  /\ status = "running"
  /\ \/ \E o \in Objects : \/ shadow_alloca(o) \/ shadow_freea(o)
                           \/ eacsl_store_block_duplicate(o) \/ eacsl_mark_readonly(o)
     \/ \E p \in Pointers : \/ eacsl_full_init(p) \/ \E part \in Parts : eacsl_initialize(p, part)
                        \/ unsafe_free(p) \/ not_a_start_of_block(p)
     \/ \E p \in HeapBases, n \in Sizes :
          \/ \E zeroed \in BOOLEAN : unsafe_malloc(p, n, zeroed)
          \/ \E q \in HeapBases : unsafe_realloc(q, p, n)

Spec == Init /\ [][Next]_vars

-----------------------------------------------------------------------------
(* The answers to the annotations. *)
static_allocated(p, n, base) ==
  LET i == static_info(p) IN
  /\ Tracked(p)
  /\ p # base => base \in Span(p - i.offset, i.length)
  /\ i.offset + n <= i.length

(* The segment of the base is read in the heap shadow wherever the base is. *)
heap_allocated(p, n, base) ==
  /\ heap_base(p) # NULL
  /\ heap_base(base) = heap_base(p)
  /\ p - heap_base(p) + n <= heap_length(p)

allocated(p, n, base) ==
  IF p \in HeapAddr THEN heap_allocated(p, n, base) ELSE static_allocated(p, n, base)

readonly(p) == p \in StaticAddr /\ p < GlobalEnd /\ prim[p].ro

eacsl_valid_read(p, n, base) == n = 0 \/ allocated(p, n, base)
eacsl_valid(p, n, base) == n = 0 \/ (allocated(p, n, base) /\ ~readonly(p))
eacsl_freeable(p) == unsafe_freeable(p)

(* The first byte of the init shadow is read for the bits that follow it   *)
(* too, when the region does not start with one of its own.                *)
heap_initialized(p, n) ==
  LET skip == (p - HEAP_START) % CHAR_BIT
      set == IF skip = 0 THEN 0 ELSE Min({n, CHAR_BIT - skip})
  IN  Span(p, set) \cup Span(p - skip, n - set) \subseteq init

static_initialized(p, n) ==
  static_allocated(p, n, p) /\ \A a \in Span(p, n) : prim[a].init

eacsl_initialized(p, n) ==
  IF p \in HeapAddr THEN heap_initialized(p, n) ELSE static_initialized(p, n)

-----------------------------------------------------------------------------
(* The blocks that the shadows stand for. *)
StaticBlocks ==
  {[base |-> a, size |-> static_info(a).length, heap |-> FALSE, readonly |-> prim[a].ro] :
     a \in StaticBlockBases}

HeapBlocks ==
  {[base |-> a, size |-> segment[a].length, heap |-> TRUE, readonly |-> FALSE] :
     a \in HeapBlockBases}

Blocks == StaticBlocks \cup HeapBlocks

Abstract(now) == INSTANCE BlockMap
  WITH blocks <- now, init <- written,
       aborted <- (status = "aborted"),
       Size <- Sizes \cup {o.size : o \in Objects}

Memory == INSTANCE BlockMap
  WITH blocks <- Blocks, init <- written,
       aborted <- (status = "aborted"),
       Size <- Sizes \cup {o.size : o \in Objects}

(* Each call does to the blocks and the values of the program what the     *)
(* memory of a C program does: the shadows, decoded, are at every step the *)
(* blocks of BlockMap.  The process is lost only where realloc overruns    *)
(* the init shadow of a block that grows in place.                         *)
KeepsTheBlocks ==
  /\ Memory!Spec
  /\ [][status' = "crashed" =>
         \E b \in HeapBlocks, c \in HeapBlocks' : Overruns(b.base, c.base, b.size, c.size)]_vars

(* The secondary shadow, which static_info reads without a test, is zero   *)
(* outside of the long blocks; so are the shadow of a free segment and its *)
(* init bits: a block that malloc puts there has no value.                 *)
FreeIsNullified ==
  /\ \A a \in StaticAddr : ~Tracked(a) => sec[a] = NoInfo
  /\ \A a \in Segments : segment[a].base = NULL =>
       segment[a].length = 0 /\ init \cap Span(a, HEAP_SEGMENT) = {}

(* The bytes between the end of a block and the end of its last segment:   *)
(* a base pointer there passes for one in the block.                       *)
Padding(p) == p \in HeapAddr /\ heap_base(p) # NULL /\ p - heap_base(p) >= heap_length(p)

Bases == {o.base : o \in Objects} \cup HeapBases

(* The base of a pointer that has left its variable for a heap block:      *)
(* heap_allocated reads a place that is not of the heap shadow.            *)
ReadsOutside(p, base) == p \in HeapAddr /\ heap_base(p) # NULL /\ base \notin HeapAddr

(* For every region, in a block, over its end or between two, the shadow   *)
(* gives the answer of the contract, where it reads what it has written.   *)
AnswersAgree ==
  LET now == Blocks IN
  /\ \A p \in Addr : \A n \in Sizes, base \in {p} \cup Bases :
       ~Padding(base) /\ ~ReadsOutside(p, base) =>
         /\ eacsl_valid(p, n, base) <=> Abstract(now)!valid(p, n, base)
         /\ eacsl_valid_read(p, n, base) <=> Abstract(now)!valid_read(p, n, base)
  /\ \A p \in Addr :
       /\ eacsl_freeable(p) <=> Abstract(now)!freeable(p)
       /\ Abstract(now)!Holders(p) # {} =>
            /\ eacsl_base_addr(p) = Abstract(now)!base_addr(p)
            /\ eacsl_block_length(p) = Abstract(now)!block_length(p)
            /\ eacsl_offset(p) = Abstract(now)!offset(p)

(* The answer to \initialized for a region of a block.                     *)
InBlock(now, p, n) == \E b \in now : Span(p, n) \subseteq Abstract(now)!Bytes(b)

ExactOn(now, p, n) ==
  InBlock(now, p, n) => (eacsl_initialized(p, n) <=> Abstract(now)!initialized(p, n))

(* A region that starts on a byte of the init shadow, or stays in it, is   *)
(* said to be initialized when all its bytes were written, or kept by      *)
(* realloc, and then only, whatever the blocks there before left; but for  *)
(* what calloc has marked past the end of a block that grew in place.      *)
InitializedIffWritten ==
  LET now == Blocks IN
  \A p \in Addr, n \in Sizes :
    LET skip == (p - HEAP_START) % CHAR_BIT IN
    /\ p \in StaticAddr \/ skip = 0 \/ skip + n <= CHAR_BIT
    /\ InBlock(now, p, n)
    => (eacsl_initialized(p, n) <=> Span(p, n) \subseteq written \cup uncleared)

(* The contract of the predicate (e_acsl_observation_model.h:403): any     *)
(* region of a block.                                                      *)
InitializedAnywhere ==
  LET now == Blocks IN \A p \in Addr, n \in Sizes : ExactOn(now, p, n)

(* The counters that the leak report and __e_acsl_heap_allocation_size use *)
(* are those of the blocks of the heap, also through realloc.              *)
CountersMatch ==
  /\ heap.blocks = Cardinality(HeapBlocks)
  /\ heap.size = FoldSet(LAMBDA b, sum : b.size + sum, 0, HeapBlocks)
=============================================================================
