----------------------------- MODULE MCTaskServer -----------------------------
(* Instances of TaskServer for TLC: threads are interchangeable.           *)
EXTENDS TaskServer, TLC

CONSTANTS t1, t2, t3

ThreadSymmetry == Permutations(Threads)

===============================================================================
