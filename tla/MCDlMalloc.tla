------------------------------ MODULE MCDlMalloc -------------------------------
(* Model checking of DlMalloc.                                                 *)
EXTENDS DlMalloc

MCBases == {10, 27, 40}
MCRequests == {2, 4, 8, MAX_SIZE_T}
===============================================================================
