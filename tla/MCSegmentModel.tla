--------------------------- MODULE MCSegmentModel ---------------------------
(* An instance of SegmentModel for TLC: variables of less than 8 bytes, of *)
(* 8 and of more, the first one global, just before the two others, which  *)
(* are at the same place of the stack, and a heap of segments that have    *)
(* two bytes of the init shadow.                                           *)
EXTENDS SegmentModel

MCObjects == {[base |-> 21, size |-> 1], [base |-> 22, size |-> 11], [base |-> 24, size |-> 8]}
MCParts == {<<0, 3>>, <<7, 4>>}
MCPointers == {21, 22, 24, 25, 40, 43, 48}

(* A program that was stopped does nothing. *)
MCView == IF status = "running" THEN <<status, vars>> ELSE <<status>>
=============================================================================
