------------------------------- MODULE MCDevReg -------------------------------
(* Model checking of DevReg: one key, one other number, two trace masks.        *)
EXTENDS DevReg, TLC

CONSTANTS port, key, trace1, trace2

MCOrder == <<port, key, trace1, trace2>>
MCValues == {Zero, Default}
==============================================================================
