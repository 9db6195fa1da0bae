------------------------------- MODULE VeTimer -------------------------------
(***************************************************************************)
(* The one shot timers of src/utils/ve_timer.c: a singly linked list of    *)
(* the running ones, walked once per second by ve_timer_tick.  The list is *)
(* modelled with its pointers, because callbacks may call ve_timer and     *)
(* ve_timer_cancel while ve_timer_tick holds three of them: tmr, prev and  *)
(* next.  Each turn of its loop and each call from a callback is a step;   *)
(* calls from other handlers come between two ticks only.                  *)
(***************************************************************************)
EXTENDS Naturals, FiniteSets

CONSTANTS
    Timers,       \* struct VeTimer objects
    MaxValue,     \* bound: the longest timeout, in ticks
    Uses,         \* what a program does with them: the timers it has, and the calls
                  \* its callbacks make ("set_self", "cancel_self", "cancel_other")
    Null

ASSUME MaxValueAssumption == MaxValue \in Nat \ {0}
ASSUME NullAssumption == Null \notin Timers
ASSUME UsesAssumption ==
    Uses \subseteq [timers : SUBSET Timers,
                    calls : SUBSET {"set_self", "cancel_self", "cancel_other"}]

VARIABLES
    use,     \* the use made of the timers, one of Uses; fixed
    queue,   \* the head of the list
    next,    \* tmr->next
    value,   \* tmr->value, the ticks left
    pc,      \* where ve_timer_tick is: "idle" outside, "loop" or "callback"
    tmr,     \* its locals
    prev,
    nxt,
    due,     \* what the owner was promised: ticks left, 0 when not running
    expiring \* those whose last second has passed and that have not fired yet

list == <<queue, next, value>>
locals == <<use, pc, tmr, prev, nxt>>
promise == <<due, expiring>>
vars == <<use, queue, next, value, pc, tmr, prev, nxt, due, expiring>>

Init ==
    /\ use \in Uses
    /\ queue = Null
    /\ next = [t \in Timers |-> Null]
    /\ value = [t \in Timers |-> 0]
    /\ pc = "idle"
    /\ tmr = Null
    /\ prev = Null
    /\ nxt = Null
    /\ due = [t \in Timers |-> 0]
    /\ expiring = {}

\* The timers a walk along the list nx comes to from p on: those that are in every set which
\* has p and, with a timer, the next one.
From(p, nx) ==
    {t \in Timers : \A S \in SUBSET Timers :
        /\ p # Null => p \in S
        /\ \A s \in S : nx[s] # Null => nx[s] \in S
        => t \in S}

\* The walk "already enqueued?" from the head.
Linked == From(queue, next)

------------------------------------------------------------------------------
(* The interface.                                                             *)

Promise(t, sec) ==
    /\ due' = [due EXCEPT ![t] = sec]
    /\ expiring' = expiring \ {t}

\* Mutant of Start: the walk is left out, a running timer is linked again.
StartAgain(t, sec) ==
    /\ value' = [value EXCEPT ![t] = sec]
    /\ Promise(t, sec)
    /\ next' = [next EXCEPT ![t] = queue]
    /\ queue' = t

\* ve_timer with sec > 0: (re)load, and link in front when not in the list.
Start(t, sec) ==
    /\ value' = [value EXCEPT ![t] = sec]
    /\ Promise(t, sec)
    /\ IF t \in Linked
       THEN UNCHANGED <<queue, next>>
       ELSE next' = [next EXCEPT ![t] = queue] /\ queue' = t

\* Mutant of Cancel: it looks for the timer and leaves it where it is.
CancelKeepsLink(t) ==
    /\ Promise(t, 0)
    /\ UNCHANGED list

\* ve_timer_cancel, also ve_timer with sec = 0.
Cancel(t) ==
    /\ Promise(t, 0)
    /\ UNCHANGED value
    /\ CASE t \notin Linked -> UNCHANGED <<queue, next>>
         [] queue = t -> queue' = next[t] /\ next' = [next EXCEPT ![t] = Null]
         [] OTHER ->
              /\ next' = [p \in Timers |-> CASE p = t -> Null
                                             [] p # t /\ p \in Linked /\ next[p] = t -> next[t]
                                             [] OTHER -> next[p]]
              /\ UNCHANGED queue

StartFromHandler(t, sec) == pc = "idle" /\ Start(t, sec) /\ UNCHANGED locals

CancelFromHandler(t) == pc = "idle" /\ Cancel(t) /\ UNCHANGED locals

------------------------------------------------------------------------------
(* ve_timer_tick.                                                             *)

\* A second has passed for every running timer.
TickBegin ==
    /\ pc = "idle"
    /\ queue # Null
    /\ pc' = "loop"
    /\ tmr' = queue
    /\ prev' = Null
    /\ due' = [t \in Timers |-> IF due[t] > 0 THEN due[t] - 1 ELSE 0]
    /\ expiring' = {t \in Timers : due[t] = 1}
    /\ UNCHANGED <<use, queue, next, value, nxt>>

\* Mutant of Decremented: counted down in the comparison and once more.
DecrementedTwice(v) == v - 2

\* --tmr->value, an unsigned number: zero wraps to the largest one, for which
\* MaxValue stands.
Decremented(v) == IF v = 0 THEN MaxValue ELSE v - 1

\* One turn of the loop for a timer that goes on running.
CountDown ==
    /\ pc = "loop"
    /\ tmr # Null
    /\ Decremented(value[tmr]) # 0
    /\ value' = [value EXCEPT ![tmr] = Decremented(@)]
    /\ nxt' = next[tmr]
    /\ prev' = tmr
    /\ tmr' = next[tmr]
    /\ UNCHANGED <<use, queue, next, pc, promise>>

\* One that has run out: unlinked by way of prev, then its callback is called.
Expire ==
    /\ pc = "loop"
    /\ tmr # Null
    /\ Decremented(value[tmr]) = 0
    /\ value' = [value EXCEPT ![tmr] = 0]
    /\ nxt' = next[tmr]
    /\ IF prev # Null
       THEN next' = [next EXCEPT ![prev] = next[tmr], ![tmr] = Null] /\ UNCHANGED queue
       ELSE next' = [next EXCEPT ![tmr] = Null] /\ queue' = next[tmr]
    /\ pc' = "callback"
    /\ expiring' = expiring \ {tmr}
    /\ UNCHANGED <<use, tmr, prev, due>>

\* The callback calls the interface ...
CallbackStarts(sec) ==
    /\ pc = "callback"
    /\ "set_self" \in use.calls
    /\ Start(tmr, sec)
    /\ UNCHANGED locals

CallbackCancels(t) ==
    /\ pc = "callback"
    /\ IF t = tmr THEN "cancel_self" \in use.calls ELSE "cancel_other" \in use.calls
    /\ Cancel(t)
    /\ UNCHANGED locals

\* ... and returns: the loop goes on with the next it had read before.
CallbackReturns ==
    /\ pc = "callback"
    /\ pc' = "loop"
    /\ tmr' = nxt
    /\ UNCHANGED <<use, list, prev, nxt, promise>>

TickEnd ==
    /\ pc = "loop"
    /\ tmr = Null
    /\ pc' = "idle"
    /\ prev' = Null
    /\ nxt' = Null
    /\ UNCHANGED <<use, list, tmr, promise>>

Next ==
    \/ \E t \in use.timers : \/ \E sec \in 1..MaxValue : StartFromHandler(t, sec)
                         \/ CancelFromHandler(t)
                         \/ CallbackCancels(t)
    \/ \E sec \in 1..MaxValue : CallbackStarts(sec)
    \/ TickBegin \/ CountDown \/ Expire \/ CallbackReturns \/ TickEnd

Spec == Init /\ [][Next]_vars

------------------------------------------------------------------------------
(* Properties.                                                                *)

TypeOK ==
    /\ use \in Uses
    /\ queue \in Timers \cup {Null}
    /\ next \in [Timers -> Timers \cup {Null}]
    /\ value \in [Timers -> 0..MaxValue]
    /\ pc \in {"idle", "loop", "callback"}
    /\ tmr \in Timers \cup {Null}
    /\ prev \in Timers \cup {Null}
    /\ nxt \in Timers \cup {Null}
    /\ due \in [Timers -> 0..MaxValue]
    /\ expiring \subseteq Timers

\* Between two ticks the list holds the running timers and no other, each with
\* the time it was promised: none is lost by a callback that touches the list
\* under the loop's feet, none is late or early by a tick, and those whose time
\* was up have fired.  In particular a timer set again in its callback keeps
\* running ("to create a periodic timer, set the timer again in the callback").
RunningIsLinked ==
    pc = "idle" =>
        /\ expiring = {}
        /\ \A t \in Timers : IF due[t] = 0 THEN t \notin Linked
                                        ELSE t \in Linked /\ value[t] = due[t]

\* No timer fires but one that has run out: a timer that was cancelled ("to
\* cancel call cancel or set zero timeout") or has time left never does.
FiresWhenDue ==
    [][Expire => tmr \in expiring]_vars
==============================================================================
