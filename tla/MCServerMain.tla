----------------------------- MODULE MCServerMain -----------------------------
(* Instances of ServerMain for TLC: model values for requests and jobs.    *)
EXTENDS ServerMain

CONSTANTS g1, x1, e1, e2, u1, j1, sg1

===============================================================================
