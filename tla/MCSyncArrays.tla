---------------------------- MODULE MCSyncArrays ----------------------------
(* An instance of SyncArrays for TLC. *)
EXTENDS SyncArrays

CONSTANTS A, B, k1, k2, v

(* Two rows where the client starts, so that there is more than one page,  *)
(* and one in the other project, unless they share the table.              *)
MCInit == /\ Init /\ current = A
          /\ table = [p \in Projects |->
                        [k \in Keys |-> IF Shared \/ p = A \/ k = k1 THEN v ELSE None]]
MCSpec == MCInit /\ [][Next]_vars /\ Fairness
=============================================================================
