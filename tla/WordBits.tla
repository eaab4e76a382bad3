------------------------------ MODULE WordBits ------------------------------
(* The width of uintptr_t (e_acsl_patricia_trie.c 22-34), of the trie and  *)
(* of what is built on it.                                                 *)

CONSTANT WORDBITS

ASSUME WordAssumption == WORDBITS \in {16, 32, 64}
=============================================================================
