------------------------------- MODULE Runtime -------------------------------
(***************************************************************************)
(* A program linked with one of the two libraries of the E-ACSL runtime,   *)
(* which e-acsl-gcc chooses: the shadow memory, whose variables are those  *)
(* of SegmentModel, or the bittree.  The variables of the other one keep   *)
(* their initial values.                                                   *)
(***************************************************************************)
EXTENDS SegmentModel, WordBits

CONSTANTS LookupReturns, ShrinksPartly,   \* as in BittreeModel,
          BittreeSizes                    \* and its Sizes

VARIABLES library,                  \* "segment" or "bittree"
          bittree, blk,             \* as in BittreeModel,
          bheap, bstatus, bwritten  \* where the last three have no b

(* BittreeModel, with its theorems for RuntimeProofs. *)
Bittree == INSTANCE BittreeModelProofs
  WITH heap <- bheap, status <- bstatus, written <- bwritten, Sizes <- BittreeSizes

ASSUME BittreeConstants == WORDBITS \in {16, 32, 64} /\ Bittree!BittreeAssumption

bvars == <<bittree, blk, bheap, bstatus, bwritten>>

LinkedInit == library \in {"segment", "bittree"} /\ Init /\ Bittree!Init

LinkedNext ==
  /\ UNCHANGED library
  /\ \/ library = "segment" /\ Next /\ UNCHANGED bvars
     \/ library = "bittree" /\ Bittree!Next /\ UNCHANGED vars

LinkedSpec == LinkedInit /\ [][LinkedNext]_<<library, vars, bvars>>

-----------------------------------------------------------------------------
(* KeepsTheBlocks of the bittree: at each step the bt_block structures are *)
(* the blocks of a C program that makes the same calls.                    *)
BittreeKeepsTheBlocks == Bittree!KeepsTheBlocks

(* AnswersAgree of the bittree: for every region, the walk down the trie   *)
(* gives the answer of the contract.                                       *)
BittreeAnswers == Bittree!AnswersAgree

(* OnlyWrittenIsInitialized of the bittree: what it says to be initialized *)
(* was written, or kept by realloc, byte for byte.                         *)
BittreeInitialized == Bittree!OnlyWrittenIsInitialized

(* TrieHoldsBlocks of the bittree: a leaf for each block and nothing else, *)
(* well linked, whatever came and went in between.                         *)
BittreeIsExact == Bittree!TrieHoldsBlocks

(* Whatever the library, the counters of the leak report are those of the  *)
(* heap blocks (update_heap_allocation, which both have).                  *)
HeapIsCounted == CountersMatch /\ Bittree!CountersMatch
=============================================================================
