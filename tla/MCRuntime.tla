------------------------------ MODULE MCRuntime ------------------------------
(* An instance of Runtime for TLC, with the variables of MCSegmentModel.   *)
EXTENDS MCSegmentModel, Runtime

(* The tables of pt_mask, for every pair of words. *)
ASSUME Bittree!MasksAreExact

(* Two tries that differ only in where their nodes were allocated, or in   *)
(* the bits of an address under its mask, are one.  A program that was     *)
(* stopped, or may do anything, does nothing: two of them with the same    *)
(* blocks and counters are one.                                            *)
Node(n) == <<Bittree!NodePrefix(bittree.node, n), bittree.node[n].mask, bittree.node[n].leaf>>
Links(n) == {Node(m) : m \in {bittree.node[n].left, bittree.node[n].right} \cap DOMAIN bittree.node}
Shape == {<<Node(n), Links(n), n = bittree.root>> : n \in DOMAIN bittree.node}

LinkedView ==
  IF library = "segment" THEN <<library, MCView>>
  ELSE CASE bstatus = "running" -> <<library, <<bstatus, Shape, blk, bheap, bwritten>>>>
         [] bstatus = "aborted" -> <<library, <<bstatus>>>>
         [] OTHER -> <<library, <<bstatus, bheap, Bittree!Blocks>>>>
=============================================================================
