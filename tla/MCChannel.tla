------------------------------ MODULE MCChannel -------------------------------
(* Model checking of Channel.                                                  *)
EXTENDS Channel

CONSTANTS sub, p1, p2

MCRequests == {sub, p1, p2}
MCBatches == {<<>>, <<p1>>, <<p2>>, <<p1, p2>>}
===============================================================================
