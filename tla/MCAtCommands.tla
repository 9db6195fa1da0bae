----------------------------- MODULE MCAtCommands -----------------------------
(* Model checking of AtCommands, and through it of DevReg: one key and two      *)
(* trace masks.                                                                 *)
EXTENDS AtCommands, TLC

CONSTANTS key, trace1, trace2

MCOrder == <<key, trace1, trace2>>
MCValues == {Zero, Default}
==============================================================================
