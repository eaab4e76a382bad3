--------------------------- MODULE MCHipsleekRun ---------------------------
(* Two runs of a program that was edited in between: its loop moved from   *)
(* the function f to the function g.                                       *)
EXTENDS HipsleekRun, TLC

CONSTANTS r1, r2, f, g, l1, d1

MCSpan == (r1 :> [l \in Lines |-> f]) @@ (r2 :> [l \in Lines |-> g])
MCDir == [r \in Runs |-> d1]
=============================================================================
