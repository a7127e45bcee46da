------------------------------ MODULE MCEngines ------------------------------
(* An instance of Engines for TLC: the connections of one worker, one at a    *)
(* time, next to a thread of another worker.                                 *)
EXTENDS Engines, TLC

CONSTANTS r1, h1, w1, w2

Owners == r1 :> w1 @@ h1 :> w2
=============================================================================
