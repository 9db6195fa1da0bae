----------------------------- MODULE MCVeTimer -------------------------------
(* Model checking of VeTimer.                                                  *)
EXTENDS VeTimer, TLC

CONSTANTS t1, t2, t3

MCTimers == {t1, t2, t3}

\* The one timer of this program, set or cancelled by its own callback; and
\* several, whose callbacks set none.
MCUses == {[timers |-> {t1}, calls |-> {"set_self", "cancel_self"}],
           [timers |-> MCTimers, calls |-> {"cancel_self"}]}
==============================================================================
