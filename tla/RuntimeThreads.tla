--------------------------- MODULE RuntimeThreads ---------------------------
(***************************************************************************)
(* The threads of a program linked with the shadow memory, which must be   *)
(* compiled with E_ACSL_CONCURRENCY_PTHREAD: the part of the runtime that  *)
(* Runtime leaves out.                                                     *)
(***************************************************************************)
EXTENDS WordBits

CONSTANTS MaxThreads, Areas, STACK_SIZE, TLS_OFFSET, TLS_SIZE     \* as in ThreadShadow

VARIABLES thread_partitions, partition, phase, area, access, fault

(* ThreadShadow, with its invariants and the theorems on its trie.         *)
Thread == INSTANCE ThreadShadowInv

ASSUME ThreadConstants == Thread!ThreadAssumption

ThreadSpec == Thread!Spec

-----------------------------------------------------------------------------
(* The leaves of the trie are the partitions that were not freed, while    *)
(* threads start, are canceled and end in any order, and the trie is well  *)
(* formed but where a thread starts at a partition that an ended one left. *)
TrieOfPartitions == Thread!TrieOfPartitions

(* An address of a thread that runs is found in the partition of that      *)
(* thread which is nearest, the thread-local storage being inside of the   *)
(* stack; if ended threads have left partitions at its place, in the       *)
(* oldest of these; past the thread-local storage, in none.                *)
FindsItsOwn == Thread!FindsItsOwn

(* An access reads a null or freed partition only if the thread at whose   *)
(* memory it looks ends during the access: what any other thread does to   *)
(* the trie meanwhile, starting at a place used before included, does not  *)
(* take away a partition between the searches or before the read.          *)
NoFault == Thread!NoFault

(* No partition of a thread outlives it ("Remove all leaves that satisfy   *)
(* the given predicate", e_acsl_patricia_trie.h:84).                       *)
NothingLeft == Thread!NothingLeft
================================================================================
