------------------------------ MODULE BlockMap ------------------------------
(***************************************************************************)
(* What the E-ACSL runtime promises to an instrumented program, whatever   *)
(* observation model it is compiled with (e_acsl_observation_model.h): it  *)
(* knows the memory blocks of the program and the bytes that have a value, *)
(* and answers the predicates of the annotations from them.  The bittree   *)
(* and the shadow model are shown to implement it.                         *)
(***************************************************************************)
EXTENDS Integers, FiniteSets

CONSTANTS Addr,                         \* the addresses of the program
          Size                          \* the sizes of its blocks

VARIABLES blocks,                       \* the memory blocks of the program
          init,                         \* the bytes that have a value
          aborted                       \* the runtime has stopped the program

vars == <<blocks, init, aborted>>

Block == [base : Addr, size : Size, heap : BOOLEAN, readonly : BOOLEAN]

Span(p, n) == p .. (p + n - 1)
Bytes(b) == Span(b.base, b.size)

(* A block of no byte still has an address of its own. *)
Footprint(b) == Bytes(b) \cup {b.base}

Clear(b, others) ==
  /\ Footprint(b) \subseteq Addr
  /\ \A c \in others : Footprint(b) \cap Footprint(c) = {}

Init == blocks = {} /\ init = {} /\ aborted = FALSE

-----------------------------------------------------------------------------
Store(b) ==
  /\ b \in Block /\ ~b.heap /\ ~b.readonly /\ Clear(b, blocks)
  /\ blocks' = blocks \cup {b}
  /\ UNCHANGED <<init, aborted>>

(* The end of the life of b, or the start of a new one at its place. *)
Delete(b) ==
  /\ b \in blocks /\ ~b.heap
  /\ blocks' = blocks \ {b}
  /\ init' = init \ Bytes(b)
  /\ UNCHANGED aborted

StoreAgain(b) ==
  /\ b \in blocks /\ ~b.heap
  /\ blocks' = (blocks \ {b}) \cup {[b EXCEPT !.readonly = FALSE]}
  /\ init' = init \ Bytes(b)
  /\ UNCHANGED aborted

Initialize(b, p, n) ==
  /\ b \in blocks /\ Span(p, n) \subseteq Bytes(b)
  /\ init' = init \cup Span(p, n)
  /\ UNCHANGED <<blocks, aborted>>

MarkReadonly(b) ==
  /\ b \in blocks /\ ~b.heap
  /\ blocks' = (blocks \ {b}) \cup {[b EXCEPT !.readonly = TRUE]}
  /\ UNCHANGED <<init, aborted>>

Malloc(b, zeroed) ==
  /\ b \in Block /\ b.heap /\ ~b.readonly /\ b.size > 0 /\ Clear(b, blocks)
  /\ blocks' = blocks \cup {b}
  /\ init' = IF zeroed THEN init \cup Bytes(b) ELSE init
  /\ UNCHANGED aborted

(* b becomes c, at its place or elsewhere, and keeps the values of the     *)
(* bytes both have.                                                        *)
Kept(b, c) ==
  {a \in Bytes(c) : a - c.base + b.base \in init \cap Bytes(b)}

Realloc(b, c) ==
  /\ b \in blocks /\ b.heap
  /\ c \in Block /\ c.heap /\ ~c.readonly /\ c.size > 0 /\ Clear(c, blocks \ {b})
  /\ blocks' = (blocks \ {b}) \cup {c}
  /\ init' = (init \ Bytes(b)) \cup Kept(b, c)
  /\ UNCHANGED aborted

Free(b) ==
  /\ b \in blocks /\ b.heap
  /\ blocks' = blocks \ {b}
  /\ init' = init \ Bytes(b)
  /\ UNCHANGED aborted

(* free or realloc of what is not the start of a heap block. *)
Abort(p) ==
  /\ \A b \in blocks : b.heap => b.base # p
  /\ aborted' = TRUE
  /\ UNCHANGED <<blocks, init>>

(* A step is stated of the blocks it adds, rather than of any block. *)
Added == blocks' \ blocks

Next ==
  /\ ~aborted
  /\ \/ \E b \in Added : Store(b) \/ Malloc(b, TRUE) \/ Malloc(b, FALSE)
     \/ \E b \in blocks :
          \/ Delete(b) \/ StoreAgain(b) \/ MarkReadonly(b) \/ Free(b)
          \/ \E p \in Bytes(b), n \in 1 .. b.size : Initialize(b, p, n)
          \/ \E c \in Added \cup {b} : Realloc(b, c)
     \/ \E p \in Addr : Abort(p)

Spec == Init /\ [][Next]_vars

-----------------------------------------------------------------------------
(* The answers: the contracts of the predicates. *)
Holders(p) == {b \in blocks : p \in Footprint(b)}

valid_read(p, n, base) ==
  n = 0 \/ \E b \in blocks : Span(p, n) \subseteq Bytes(b) /\ base \in Footprint(b)

valid(p, n, base) ==
  n = 0 \/ \E b \in blocks : /\ Span(p, n) \subseteq Bytes(b) /\ base \in Footprint(b)
                             /\ ~b.readonly

freeable(p) == \E b \in blocks : b.heap /\ b.base = p

initialized(p, n) == Span(p, n) \subseteq init

base_addr(p) == (CHOOSE b \in Holders(p) : TRUE).base
block_length(p) == (CHOOSE b \in Holders(p) : TRUE).size
offset(p) == p - base_addr(p)

-----------------------------------------------------------------------------
TypeOK ==
  /\ blocks \subseteq Block
  /\ init \subseteq Addr
  /\ aborted \in BOOLEAN

(* An address is in one block at most. *)
Disjoint ==
  \A b, c \in blocks : b # c => Footprint(b) \cap Footprint(c) = {}

(* What has a value is in a block: a byte that a block gets back was never *)
(* written.                                                                *)
ValuesInBlocks == init \subseteq UNION {Bytes(b) : b \in blocks}

(* Nothing read-only is on the heap, so that realloc and free cannot take  *)
(* a constant of the program away.                                         *)
HeapIsWritable == \A b \in blocks : b.heap => ~b.readonly
=============================================================================
