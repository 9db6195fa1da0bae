---------------------------- MODULE VeTimerProofs -----------------------------
(* Proofs about VeTimer, for any timers and timeouts.                           *)
EXTENDS VeTimer, TLAPS

\* No callback cancels another timer, and one that sets its own is that of the only timer:
\* the use this program makes of the interface.
ProperUses ==
    \A u \in Uses :
        /\ "cancel_other" \notin u.calls
        /\ "set_self" \in u.calls => \E t \in Timers : u.timers = {t}

------------------------------------------------------------------------------
(* Walks along a list.                                                          *)

Links == [Timers -> Timers \cup {Null}]

ClosedUnder(S, nx) == \A s \in S : nx[s] # Null => nx[s] \in S

\* The timers linked from q on are a list that ends: nothing points at its head, and no two
\* of them at the same one.
WellLinked(q, nx) ==
    /\ \A s \in From(q, nx) : nx[s] # Null => nx[s] # q
    /\ \A s, t \in From(q, nx) : nx[s] = nx[t] /\ nx[s] # Null => s = t

\* A walk comes to where it begins and to what follows, and to nothing else.
LEMMA WalkLeast ==
    ASSUME NEW nx, NEW p, NEW S, S \subseteq Timers, p # Null => p \in S, ClosedUnder(S, nx)
    PROVE  From(p, nx) \subseteq S
BY DEF From, ClosedUnder

LEMMA WalkCloses ==
    ASSUME NEW nx \in Links, NEW p \in Timers \cup {Null}
    PROVE  /\ From(p, nx) \subseteq Timers
           /\ p # Null => p \in From(p, nx)
           /\ ClosedUnder(From(p, nx), nx)
<1>1. From(p, nx) \subseteq Timers /\ (p # Null => p \in From(p, nx))
  BY DEF From
<1>2. ASSUME NEW s \in From(p, nx), nx[s] # Null PROVE nx[s] \in From(p, nx)
  <2>1. nx[s] \in Timers
    BY <1>1, <1>2 DEF Links
  <2>2. ASSUME NEW S \in SUBSET Timers, p # Null => p \in S, ClosedUnder(S, nx)
        PROVE  nx[s] \in S
    BY <1>2, <2>2 DEF From, ClosedUnder
  <2> QED BY <2>1, <2>2 DEF From, ClosedUnder
<1> QED BY <1>1, <1>2 DEF ClosedUnder

LEMMA WalkOfNull ==
    ASSUME NEW nx
    PROVE  From(Null, nx) = {}
<1> ClosedUnder({}, nx) /\ {} \subseteq Timers
  BY DEF ClosedUnder
<1>1. From(Null, nx) \subseteq {}
  BY WalkLeast, Zenon
<1> QED BY <1>1

\* Links outside of a walk do not matter to it.
LEMMA WalkFrame ==
    ASSUME NEW nx \in Links, NEW nx2 \in Links, NEW p \in Timers \cup {Null},
           \A s \in From(p, nx) : nx2[s] = nx[s]
    PROVE  From(p, nx2) = From(p, nx)
<1>1. From(p, nx2) \subseteq From(p, nx)
  BY WalkCloses, WalkLeast DEF ClosedUnder
<1>2. From(p, nx) \subseteq From(p, nx) \cap From(p, nx2)
  <2>1. ClosedUnder(From(p, nx) \cap From(p, nx2), nx)
    BY WalkCloses DEF ClosedUnder
  <2> QED BY <2>1, WalkCloses, WalkLeast
<1> QED BY <1>1, <1>2

\* Every timer a walk comes to, but the first, is the next one of another.
LEMMA WalkPredecessor ==
    ASSUME NEW nx \in Links, NEW p \in Timers \cup {Null}, NEW t \in From(p, nx), t # p
    PROVE  \E s \in From(p, nx) : nx[s] = t
<1> DEFINE S == {x \in From(p, nx) : x = p \/ \E s \in From(p, nx) : nx[s] = x}
<1>1. ClosedUnder(S, nx) /\ (p # Null => p \in S) /\ S \subseteq Timers
  BY WalkCloses DEF ClosedUnder
<1>2. From(p, nx) \subseteq S
  BY <1>1, WalkLeast
<1> QED BY <1>2

\* The walk from a member goes on in the list.
LEMMA WalkWithin ==
    ASSUME NEW nx \in Links, NEW q \in Timers \cup {Null}, NEW c \in From(q, nx)
    PROVE  /\ From(c, nx) \subseteq From(q, nx)
           /\ From(c, nx) = {c} \cup From(nx[c], nx)
           /\ nx[c] \in Timers \cup {Null}
<1>1. c \in Timers /\ nx[c] \in Timers \cup {Null}
  BY WalkCloses DEF Links
<1>2. From(c, nx) \subseteq From(q, nx)
  BY <1>1, WalkCloses, WalkLeast
<1>3. From(c, nx) \subseteq {c} \cup From(nx[c], nx)
  <2>1. ClosedUnder({c} \cup From(nx[c], nx), nx)
    BY <1>1, WalkCloses DEF ClosedUnder
  <2>2. {c} \cup From(nx[c], nx) \subseteq Timers
    BY <1>1, WalkCloses
  <2> QED BY <2>1, <2>2, WalkLeast
<1>4. From(nx[c], nx) \subseteq From(c, nx)
  <2>1. ClosedUnder(From(c, nx), nx) /\ c \in From(c, nx) /\ From(c, nx) \subseteq Timers
    BY <1>1, WalkCloses, NullAssumption
  <2>2. nx[c] # Null => nx[c] \in From(c, nx)
    BY <2>1 DEF ClosedUnder
  <2> QED BY <2>1, <2>2, WalkLeast
<1>5. c \in From(c, nx)
  BY <1>1, WalkCloses, NullAssumption
<1> QED BY <1>1, <1>2, <1>3, <1>4, <1>5

\* A list is no ring.
LEMMA WalkForward ==
    ASSUME NEW nx \in Links, NEW q \in Timers \cup {Null}, WellLinked(q, nx),
           NEW c \in From(q, nx)
    PROVE  c \notin From(nx[c], nx)
<1> SUFFICES ASSUME c \in From(nx[c], nx) PROVE FALSE
  OBVIOUS
<1> DEFINE C == From(c, nx)
<1>1. /\ c \in Timers /\ C \subseteq From(q, nx) /\ C = {c} \cup From(nx[c], nx)
      /\ nx[c] \in Timers \cup {Null} /\ c \in C
  BY WalkWithin, WalkCloses, NullAssumption
<1>2. ASSUME NEW x \in C PROVE \E y \in C : nx[y] = x
  <2>1. CASE x # c
    BY <1>1, <2>1, WalkPredecessor
  <2>2. CASE x = c
    <3>1. CASE nx[c] = c
      BY <1>1, <2>2, <3>1
    <3>2. CASE nx[c] # c
      <4>1. \E s \in From(nx[c], nx) : nx[s] = c
        BY <1>1, <3>2, WalkPredecessor
      <4> QED BY <1>1, <2>2, <4>1
    <3> QED BY <3>1, <3>2
  <2> QED BY <2>1, <2>2
<1>3. ClosedUnder(From(q, nx) \ C, nx)
  <2> SUFFICES ASSUME NEW s \in From(q, nx) \ C, nx[s] # Null PROVE nx[s] \in From(q, nx) \ C
    BY DEF ClosedUnder
  <2>1. nx[s] \in From(q, nx)
    BY WalkCloses DEF ClosedUnder
  <2>2. nx[s] \notin C
    BY <1>1, <1>2 DEF WellLinked
  <2> QED BY <2>1, <2>2
<1>4. q # Null => q \in From(q, nx) \ C
  <2>1. q # Null => q \notin C
    BY <1>1, <1>2 DEF WellLinked
  <2> QED BY <2>1, WalkCloses
<1>5. From(q, nx) \subseteq From(q, nx) \ C
  BY <1>3, <1>4, WalkCloses, WalkLeast
<1> QED BY <1>1, <1>5

\* Unlinking: the one before points at the one behind.
LEMMA Unlink ==
    ASSUME NEW nx \in Links, NEW q \in Timers \cup {Null}, WellLinked(q, nx),
           NEW nx2 \in Links, NEW t \in From(q, nx), NEW q2 \in Timers \cup {Null},
           q2 = IF q = t THEN nx[t] ELSE q,
           \A s \in From(q, nx) \ {t} : nx2[s] = IF nx[s] = t THEN nx[t] ELSE nx[s]
    PROVE  From(q2, nx2) = From(q, nx) \ {t} /\ WellLinked(q2, nx2)
<1> DEFINE L == From(q, nx)
           M == From(q2, nx2)
<1>1. /\ L \subseteq Timers /\ (q # Null => q \in L) /\ ClosedUnder(L, nx) /\ t # Null
  BY WalkCloses, NullAssumption
<1>2. /\ \A s \in L : nx[s] # Null => nx[s] # q
      /\ \A s, u \in L : nx[s] = nx[u] /\ nx[s] # Null => s = u
  BY DEF WellLinked
<1>3. M \subseteq L \ {t}
  <2>1. q2 # Null => q2 \in L \ {t}
    BY <1>1, <1>2 DEF ClosedUnder
  <2>2. ASSUME NEW s \in L \ {t}, nx2[s] # Null PROVE nx2[s] \in L \ {t}
    <3>1. CASE nx[s] = t
      BY <1>1, <1>2, <2>2, <3>1 DEF ClosedUnder
    <3>2. CASE nx[s] # t
      BY <1>1, <2>2, <3>2 DEF ClosedUnder
    <3> QED BY <3>1, <3>2
  <2>3. ClosedUnder(L \ {t}, nx2)
    BY <2>2 DEF ClosedUnder
  <2> HIDE DEF L, M
  <2>4. L \ {t} \subseteq Timers
    BY <1>1
  <2> QED BY <2>1, <2>3, <2>4, WalkLeast, Zenon DEF M
<1>4. L \subseteq M \cup {t}
  <2> DEFINE X == {x \in M \cup {t} : x \in M \/ q = t \/ \E s \in M : nx[s] = t}
  <2>1. /\ M \subseteq Timers /\ (q2 # Null => q2 \in M) /\ ClosedUnder(M, nx2)
    BY WalkCloses
  <2>2. q # Null => q \in X
    BY <2>1
  <2>3. ASSUME NEW s \in X, nx[s] # Null PROVE nx[s] \in X
    <3>1. CASE s \in M
      <4>1. CASE nx[s] = t
        BY <3>1, <4>1
      <4>2. CASE nx[s] # t
        BY <1>3, <2>1, <2>3, <3>1, <4>2 DEF ClosedUnder
      <4> QED BY <4>1, <4>2
    <3>2. CASE s = t /\ q = t
      BY <2>1, <2>3, <3>2
    <3>3. CASE s = t /\ \E u \in M : nx[u] = t
      <4>1. PICK u \in M : nx[u] = t
        BY <3>3
      <4>2. nx2[u] = nx[t]
        BY <1>3, <4>1
      <4> QED BY <2>1, <2>3, <3>3, <4>1, <4>2 DEF ClosedUnder
    <3> QED BY <3>1, <3>2, <3>3
  <2>4. X \subseteq Timers
    BY <1>1, <2>1
  <2>5. ClosedUnder(X, nx)
    BY <2>3 DEF ClosedUnder
  <2>6. X \subseteq M \cup {t}
    OBVIOUS
  <2> HIDE DEF L, M, X
  <2>7. L \subseteq X
    BY <2>2, <2>4, <2>5, WalkLeast, Zenon DEF L
  <2> QED BY <2>6, <2>7
<1>5. M = L \ {t}
  BY <1>3, <1>4
<1>6. ASSUME NEW s \in M, nx2[s] # Null PROVE nx2[s] # q2
  <2>1. s \in L /\ s # t /\ t \in L
    BY <1>3
  <2>2. CASE nx[s] = t
    BY <1>2, <1>6, <2>1, <2>2, <1>1
  <2>3. CASE nx[s] # t
    BY <1>2, <1>6, <2>1, <2>3
  <2> QED BY <2>2, <2>3
<1>7. ASSUME NEW s \in M, NEW u \in M, nx2[s] = nx2[u], nx2[s] # Null PROVE s = u
  BY <1>1, <1>2, <1>3, <1>7
<1> QED BY <1>5, <1>6, <1>7 DEF WellLinked

\* Linking in front.
LinkedBefore(t, q, nx, nx2) ==
    /\ t \notin From(q, nx)
    /\ nx2[t] = q
    /\ \A s \in From(q, nx) : nx2[s] = nx[s]

LEMMA LinkInFront ==
    ASSUME NEW nx \in Links, NEW q \in Timers \cup {Null}, WellLinked(q, nx),
           NEW t \in Timers, NEW nx2 \in Links, LinkedBefore(t, q, nx, nx2)
    PROVE  From(t, nx2) = From(q, nx) \cup {t} /\ WellLinked(t, nx2)
<1> DEFINE L == From(q, nx)
           M == From(t, nx2)
<1>1. /\ L \subseteq Timers /\ (q # Null => q \in L) /\ ClosedUnder(L, nx) /\ t # Null
  BY WalkCloses, NullAssumption
<1>2. /\ \A s \in L : nx[s] # Null => nx[s] # q
      /\ \A s, u \in L : nx[s] = nx[u] /\ nx[s] # Null => s = u
  BY DEF WellLinked
<1>3. t \notin L /\ nx2 \in Links /\ nx2[t] = q /\ \A s \in L : nx2[s] = nx[s]
  BY DEF LinkedBefore
<1>4. M \subseteq L \cup {t}
  <2>1. ClosedUnder(L \cup {t}, nx2)
    BY <1>1, <1>3 DEF ClosedUnder
  <2> QED BY <1>1, <2>1, WalkLeast
<1>5. L \subseteq M
  <2>1. ClosedUnder(M, nx2) /\ t \in M
    BY <1>1, <1>3, WalkCloses
  <2>2. ClosedUnder(L \cap M, nx) /\ (q # Null => q \in L \cap M)
    BY <1>1, <1>3, <2>1 DEF ClosedUnder
  <2>3. L \subseteq L \cap M
    BY <1>1, <2>2, WalkLeast
  <2> QED BY <2>3
<1>6. M = L \cup {t}
  BY <1>1, <1>3, <1>4, <1>5, WalkCloses
<1>7. ASSUME NEW s \in M, nx2[s] # Null PROVE nx2[s] # t
  BY <1>1, <1>3, <1>6, <1>7 DEF ClosedUnder
<1>8. ASSUME NEW s \in M, NEW u \in M, nx2[s] = nx2[u], nx2[s] # Null PROVE s = u
  BY <1>1, <1>2, <1>3, <1>6, <1>8
<1> QED BY <1>6, <1>7, <1>8 DEF WellLinked

------------------------------------------------------------------------------
(* The invariant.                                                               *)

\* Where the loop goes on, and the timers it has still to come to.
Cursor == IF pc = "callback" THEN nxt ELSE tmr
Ahead == From(Cursor, next)

ListIsWhole ==
    /\ WellLinked(queue, next)
    /\ Linked \subseteq use.timers

\* What ve_timer_tick holds fits the list: it goes on inside of it, behind prev.
CursorFits ==
    /\ Cursor # Null => Cursor \in Linked
    /\ prev # Null => prev \in Linked \ Ahead /\ next[prev] = Cursor
    /\ prev = Null /\ Cursor # Null => queue = Cursor

PhaseFits ==
    /\ pc = "idle" => tmr = Null /\ prev = Null
    /\ pc = "callback" =>
         /\ tmr \in use.timers \ Ahead
         /\ tmr # prev
         /\ tmr \notin Linked \/ use.timers = {tmr}

\* Who is still ahead has the second that passed in its value; who is behind has not.
TimesAreKept ==
    /\ \A t \in Timers : IF t \in Ahead THEN value[t] = due[t] + 1
                         ELSE IF t \in Linked THEN value[t] = due[t] /\ due[t] > 0
                         ELSE due[t] = 0
    /\ expiring = {t \in Ahead : due[t] = 0}

TInv == TypeOK /\ ListIsWhole /\ CursorFits /\ PhaseFits /\ TimesAreKept

LEMMA TInvInit == Init => TInv
<1> SUFFICES ASSUME Init PROVE TInv
  OBVIOUS
<1>1. TypeOK
  BY MaxValueAssumption DEF Init, TypeOK
<1>2. Linked = {} /\ Ahead = {} /\ Cursor = Null
  BY WalkOfNull DEF Init, Linked, Ahead, Cursor
<1>3. ListIsWhole
  BY <1>2 DEF ListIsWhole, WellLinked, Linked
<1> QED BY <1>1, <1>2, <1>3 DEF TInv, CursorFits, PhaseFits, TimesAreKept, Init

\* What every step begins from.
LEMMA Facts ==
    ASSUME TInv
    PROVE  /\ next \in Links /\ queue \in Timers \cup {Null} /\ Cursor \in Timers \cup {Null}
           /\ Ahead \subseteq Linked /\ Linked \subseteq Timers
           /\ Cursor # Null => Cursor \in Ahead
           /\ Cursor = Null => Ahead = {}
           /\ use.timers \subseteq Timers
           /\ prev # tmr \/ prev = Null
<1>1. next \in Links /\ queue \in Timers \cup {Null} /\ Cursor \in Timers \cup {Null}
  BY DEF TInv, TypeOK, Links, Cursor
<1>2. Linked \subseteq Timers /\ (Cursor # Null => Cursor \in Ahead)
  BY <1>1, WalkCloses DEF Linked, Ahead
<1>3. Cursor = Null => Ahead = {}
  BY WalkOfNull DEF Ahead
<1>4. Ahead \subseteq Linked
  <2>1. CASE Cursor = Null
    BY <1>3, <2>1
  <2>2. CASE Cursor # Null
    BY <1>1, <2>2, WalkWithin DEF Ahead, Linked, TInv, CursorFits
  <2> QED BY <2>1, <2>2
<1>5. use.timers \subseteq Timers
  BY UsesAssumption DEF TInv, TypeOK
<1>6. prev # tmr \/ prev = Null
  BY <1>2 DEF TInv, CursorFits, PhaseFits, TypeOK, Cursor
<1> QED BY <1>1, <1>2, <1>3, <1>4, <1>5, <1>6

LEMMA TypeKept ==
    ASSUME TInv, [Next]_vars
    PROVE  TypeOK'
<1> TypeOK
  BY DEF TInv
<1>0. use.timers \subseteq Timers
  BY UsesAssumption DEF TypeOK
<1>1. ASSUME NEW t \in Timers, NEW sec \in 1..MaxValue, Start(t, sec), UNCHANGED locals PROVE TypeOK'
  BY <1>1, MaxValueAssumption DEF Start, Promise, TypeOK, locals
<1>2. ASSUME NEW t \in Timers, Cancel(t), UNCHANGED locals PROVE TypeOK'
  <2>1. due' \in [Timers -> 0..MaxValue] /\ expiring' \subseteq Timers
    BY <1>2, MaxValueAssumption DEF Cancel, Promise, TypeOK
  <2>2. queue' \in Timers \cup {Null} /\ next' \in [Timers -> Timers \cup {Null}]
    BY <1>2 DEF Cancel, TypeOK
  <2> QED BY <1>2, <2>1, <2>2 DEF Cancel, TypeOK, locals
<1>3. CASE TickBegin
  <2>1. \A t \in Timers : (IF due[t] > 0 THEN due[t] - 1 ELSE 0) \in 0..MaxValue
    BY MaxValueAssumption DEF TypeOK
  <2> QED BY <1>3, <2>1 DEF TickBegin, TypeOK
<1>4. CASE CountDown
  BY <1>4, MaxValueAssumption DEF CountDown, Decremented, TypeOK, promise
<1>5. CASE Expire
  BY <1>5, MaxValueAssumption DEF Expire, TypeOK
<1>6. CASE CallbackReturns
  BY <1>6 DEF CallbackReturns, TypeOK, list, promise
<1>7. CASE TickEnd
  BY <1>7 DEF TickEnd, TypeOK, list, promise
<1>8. CASE UNCHANGED vars
  BY <1>8 DEF vars, TypeOK
<1>9. ASSUME NEW t \in use.timers, NEW sec \in 1..MaxValue, StartFromHandler(t, sec) PROVE TypeOK'
  BY <1>0, <1>1, <1>9 DEF StartFromHandler
<1>10. ASSUME NEW t \in use.timers, CancelFromHandler(t) \/ CallbackCancels(t) PROVE TypeOK'
  BY <1>0, <1>2, <1>10 DEF CancelFromHandler, CallbackCancels
<1>11. ASSUME NEW sec \in 1..MaxValue, CallbackStarts(sec) PROVE TypeOK'
  <2>1. tmr \in Timers
    BY <1>0, <1>11 DEF CallbackStarts, TInv, PhaseFits
  <2> QED BY <1>1, <1>11, <2>1 DEF CallbackStarts
<1> QED
  BY <1>3, <1>4, <1>5, <1>6, <1>7, <1>8, <1>9, <1>10, <1>11 DEF Next

\* ve_timer on a list no loop has anything ahead in.
LEMMA StartKeeps ==
    ASSUME TInv, TypeOK', Cursor = Null, prev = Null, NEW t \in use.timers,
           NEW sec \in 1..MaxValue, Start(t, sec), UNCHANGED locals,
           pc = "callback" => use.timers = {tmr}
    PROVE  TInv'
<1>1. /\ next \in Links /\ queue \in Timers \cup {Null} /\ Linked \subseteq Timers
      /\ t \in Timers /\ Ahead = {}
  BY Facts
<1>2. Cursor' = Null /\ prev' = Null /\ use' = use /\ pc' = pc /\ tmr' = tmr
  BY DEF locals, Cursor
<1>3. Ahead' = {}
  BY <1>2, WalkOfNull DEF Ahead
<1>4. WellLinked(queue', next') /\ Linked' = Linked \cup {t}
  <2>1. CASE t \in Linked
    BY <2>1 DEF Start, TInv, ListIsWhole, Linked
  <2>2. CASE t \notin Linked
    <3>1. next' = [next EXCEPT ![t] = queue] /\ queue' = t
      BY <2>2 DEF Start
    <3>2. t \notin From(queue, next) /\ WellLinked(queue, next)
      BY <1>1, <2>2 DEF Linked, TInv, ListIsWhole
    <3>3. next' \in Links /\ LinkedBefore(t, queue, next, next')
      BY <1>1, <3>1, <3>2 DEF TypeOK, Links, LinkedBefore
    <3>4. From(t, next') = From(queue, next) \cup {t} /\ WellLinked(t, next')
      BY <1>1, <3>1, <3>2, <3>3, LinkInFront
    <3> QED BY <3>1, <3>4 DEF Linked
  <2> QED BY <2>1, <2>2
<1>5. ListIsWhole'
  BY <1>2, <1>4 DEF ListIsWhole, TInv
<1>6. CursorFits' /\ PhaseFits'
  BY <1>1, <1>2, <1>3 DEF CursorFits, PhaseFits, TInv
<1>7. TimesAreKept'
  <2>1. value' = [value EXCEPT ![t] = sec] /\ due' = [due EXCEPT ![t] = sec]
    BY DEF Start, Promise
  <2>2. expiring' = {}
    BY <1>1 DEF Start, Promise, TInv, TimesAreKept
  <2>3. ASSUME NEW x \in Timers
        PROVE  IF x \in Linked' THEN value'[x] = due'[x] /\ due'[x] > 0 ELSE due'[x] = 0
    <3>1. value'[x] = (IF x = t THEN sec ELSE value[x]) /\ due'[x] = (IF x = t THEN sec ELSE due[x])
      BY <2>1 DEF TInv, TypeOK
    <3>2. IF x \in Linked THEN value[x] = due[x] /\ due[x] > 0 ELSE due[x] = 0
      BY <1>1 DEF TInv, TimesAreKept
    <3>3. sec > 0
      BY MaxValueAssumption
    <3> QED BY <1>4, <3>1, <3>2, <3>3
  <2> QED BY <1>3, <2>2, <2>3 DEF TimesAreKept
<1> QED BY <1>5, <1>6, <1>7 DEF TInv

\* ve_timer_cancel of a timer that is linked, on such a list.
LEMMA CancelKeeps ==
    ASSUME TInv, TypeOK', Cursor = Null, prev = Null, NEW t \in Linked,
           Cancel(t), UNCHANGED locals
    PROVE  TInv'
<1>1. /\ next \in Links /\ queue \in Timers \cup {Null} /\ Linked \subseteq Timers
      /\ t \in Timers /\ Ahead = {}
  BY Facts
<1>2. Cursor' = Null /\ prev' = Null /\ use' = use /\ pc' = pc /\ tmr' = tmr
  BY DEF locals, Cursor
<1>3. Ahead' = {}
  BY <1>2, WalkOfNull DEF Ahead
<1>4. WellLinked(queue', next') /\ Linked' = Linked \ {t}
  <2>1. next' \in Links /\ queue' \in Timers \cup {Null}
    BY DEF TypeOK, Links
  <2>2. queue' = IF queue = t THEN next[t] ELSE queue
    BY DEF Cancel
  <2>3. ASSUME NEW s \in Linked \ {t} PROVE next'[s] = IF next[s] = t THEN next[t] ELSE next[s]
    <3>1. CASE queue = t
      <4>1. next[s] # t
        BY <1>1, <3>1, NullAssumption DEF TInv, ListIsWhole, WellLinked, Linked
      <4>2. next' = [next EXCEPT ![t] = Null]
        BY <3>1 DEF Cancel
      <4> QED BY <1>1, <4>1, <4>2 DEF Links
    <3>2. CASE queue # t
      <4>1. next' = [p \in Timers |-> CASE p = t -> Null
                                        [] p # t /\ p \in Linked /\ next[p] = t -> next[t]
                                        [] OTHER -> next[p]]
        BY <3>2 DEF Cancel
      <4> QED BY <1>1, <4>1
    <3> QED BY <3>1, <3>2
  <2> QED BY <1>1, <2>1, <2>2, <2>3, Unlink DEF TInv, ListIsWhole, Linked
<1>5. ListIsWhole'
  BY <1>2, <1>4 DEF ListIsWhole, TInv
<1>6. CursorFits' /\ PhaseFits'
  BY <1>1, <1>2, <1>3, <1>4 DEF CursorFits, PhaseFits, TInv
<1>7. TimesAreKept'
  <2>1. value' = value /\ due' = [due EXCEPT ![t] = 0]
    BY DEF Cancel, Promise
  <2>2. expiring' = {}
    BY <1>1 DEF Cancel, Promise, TInv, TimesAreKept
  <2>3. ASSUME NEW x \in Timers
        PROVE  IF x \in Linked' THEN value'[x] = due'[x] /\ due'[x] > 0 ELSE due'[x] = 0
    <3>1. due'[x] = (IF x = t THEN 0 ELSE due[x])
      BY <2>1 DEF TInv, TypeOK
    <3>2. IF x \in Linked THEN value[x] = due[x] /\ due[x] > 0 ELSE due[x] = 0
      BY <1>1 DEF TInv, TimesAreKept
    <3> QED BY <1>4, <2>1, <3>1, <3>2
  <2> QED BY <1>3, <2>2, <2>3 DEF TimesAreKept
<1> QED BY <1>5, <1>6, <1>7 DEF TInv

\* ve_timer_cancel of a timer that is not.
LEMMA CancelNothing ==
    ASSUME TInv, TypeOK', NEW t \in Timers \ Linked, Cancel(t), UNCHANGED locals
    PROVE  TInv'
<1>1. queue' = queue /\ next' = next /\ value' = value
  <2>1. t \notin Linked /\ queue # t
    BY Facts, WalkCloses, NullAssumption DEF Linked
  <2>2. UNCHANGED <<queue, next>> /\ UNCHANGED value
    BY <2>1 DEF Cancel
  <2> QED BY <2>2
<1>2. due' = due
  <2>1. due[t] = 0
    BY Facts DEF TInv, TimesAreKept
  <2> QED BY <2>1 DEF Cancel, Promise, TInv, TypeOK
<1>3. expiring' = expiring
  BY Facts DEF Cancel, Promise, TInv, TimesAreKept
<1>4. Linked' = Linked /\ Ahead' = Ahead /\ Cursor' = Cursor
  BY <1>1 DEF locals, Linked, Ahead, Cursor
<1>5. ListIsWhole' /\ CursorFits' /\ PhaseFits'
  BY <1>1, <1>4 DEF TInv, locals, ListIsWhole, CursorFits, PhaseFits
<1>6. TimesAreKept'
  BY <1>1, <1>2, <1>3, <1>4 DEF TInv, TimesAreKept
<1> QED BY <1>5, <1>6 DEF TInv

\* A callback runs behind everything, when it may set its timer.
LEMMA AloneInCallback ==
    ASSUME TInv, pc = "callback", use.timers = {tmr}
    PROVE  Cursor = Null /\ prev = Null
<1>1. Linked \subseteq {tmr} /\ tmr \notin Ahead /\ tmr # prev
  BY DEF TInv, ListIsWhole, PhaseFits
<1> QED BY <1>1, Facts DEF TInv, CursorFits

LEMMA IdleIsBehind ==
    ASSUME TInv, pc = "idle"
    PROVE  Cursor = Null /\ prev = Null
BY DEF TInv, PhaseFits, Cursor

LEMMA TickBeginKeeps ==
    ASSUME TInv, TypeOK', TickBegin
    PROVE  TInv'
<1>1. /\ use' = use /\ queue' = queue /\ next' = next /\ value' = value /\ pc = "idle"
      /\ pc' = "loop" /\ tmr' = queue /\ prev' = Null /\ queue # Null
  BY DEF TickBegin
<1>2. Ahead = {} /\ Linked \subseteq Timers /\ queue \in Linked
  <2>1. queue \in Linked
    BY <1>1, Facts, WalkCloses DEF Linked
  <2> QED BY <1>1, <2>1, Facts, IdleIsBehind
<1>3. Linked' = Linked /\ Ahead' = Linked /\ Cursor' = queue
  <2>1. Cursor' = queue
    BY <1>1 DEF Cursor
  <2> QED BY <1>1, <2>1 DEF Linked, Ahead
<1>4. ListIsWhole' /\ CursorFits' /\ PhaseFits'
  BY <1>1, <1>2, <1>3 DEF TInv, ListIsWhole, CursorFits, PhaseFits
<1>5. ASSUME NEW t \in Timers
      PROVE  /\ t \in Linked => value[t] = due'[t] + 1
             /\ t \notin Linked => due'[t] = 0
             /\ t \in expiring' <=> t \in Linked /\ due'[t] = 0
  <2>1. IF t \in Linked THEN value[t] = due[t] /\ due[t] > 0 ELSE due[t] = 0
    BY <1>2 DEF TInv, TimesAreKept
  <2>2. due'[t] = IF due[t] > 0 THEN due[t] - 1 ELSE 0
    BY DEF TickBegin
  <2>3. due[t] \in Nat
    BY DEF TInv, TypeOK
  <2>4. t \in expiring' <=> due[t] = 1
    BY DEF TickBegin
  <2> QED BY <2>1, <2>2, <2>3, <2>4
<1>6. TimesAreKept'
  <2>1. expiring' \subseteq Timers
    BY DEF TypeOK
  <2> QED BY <1>1, <1>2, <1>3, <1>5, <2>1 DEF TimesAreKept
<1> QED BY <1>4, <1>6 DEF TInv

\* The timer the loop is at, and those behind it.
LEMMA AtCursor ==
    ASSUME TInv, pc = "loop", tmr # Null
    PROVE  /\ tmr \in Timers /\ tmr \in Ahead /\ tmr \in Linked
           /\ From(next[tmr], next) = Ahead \ {tmr}
           /\ next[tmr] \in Timers \cup {Null}
           /\ next[tmr] # Null => next[tmr] \in Linked \ {tmr}
           /\ value[tmr] = due[tmr] + 1 /\ due[tmr] \in Nat
<1>1. Cursor = tmr /\ tmr \in Timers /\ tmr \in Ahead /\ tmr \in Linked
  BY Facts DEF Cursor
<1>2. tmr \in From(queue, next) /\ WellLinked(queue, next)
  BY <1>1 DEF Linked, TInv, ListIsWhole
<1>3. From(tmr, next) = {tmr} \cup From(next[tmr], next) /\ next[tmr] \in Timers \cup {Null}
  BY <1>2, Facts, WalkWithin
<1>4. tmr \notin From(next[tmr], next)
  BY <1>2, Facts, WalkForward
<1>5. From(next[tmr], next) = Ahead \ {tmr}
  BY <1>1, <1>3, <1>4 DEF Ahead
<1>6. next[tmr] # Null => next[tmr] \in Linked \ {tmr}
  BY <1>3, <1>5, Facts, WalkCloses
<1>7. value[tmr] = due[tmr] + 1 /\ due[tmr] \in Nat
  BY <1>1 DEF TInv, TimesAreKept, TypeOK
<1> QED BY <1>1, <1>3, <1>5, <1>6, <1>7

LEMMA CountDownKeeps ==
    ASSUME TInv, TypeOK', CountDown
    PROVE  TInv'
<1>1. /\ use' = use /\ queue' = queue /\ next' = next /\ pc = "loop" /\ pc' = pc
      /\ tmr # Null /\ tmr' = next[tmr] /\ prev' = tmr
      /\ due' = due /\ expiring' = expiring
  BY DEF CountDown, promise
<1>2. Linked' = Linked /\ Cursor' = next[tmr]
  BY <1>1 DEF Linked, Cursor
<1>3. Ahead' = Ahead \ {tmr}
  BY <1>1, <1>2, AtCursor DEF Ahead
<1>4. ListIsWhole' /\ CursorFits' /\ PhaseFits'
  <2>1. ListIsWhole'
    BY <1>1, <1>2 DEF TInv, ListIsWhole
  <2>2. CursorFits'
    BY <1>1, <1>2, <1>3, AtCursor, NullAssumption DEF CursorFits
  <2> QED BY <1>1, <2>1, <2>2 DEF PhaseFits
<1>5. due[tmr] > 0 /\ value' = [value EXCEPT ![tmr] = due[tmr]]
  <2>1. value[tmr] = due[tmr] + 1 /\ due[tmr] \in Nat
    BY <1>1, AtCursor
  <2>2. Decremented(value[tmr]) = due[tmr]
    BY <2>1 DEF Decremented
  <2>3. due[tmr] # 0 /\ value' = [value EXCEPT ![tmr] = due[tmr]]
    BY <2>2 DEF CountDown
  <2> QED BY <2>1, <2>3
<1>6. TimesAreKept'
  <2>1. ASSUME NEW t \in Timers
        PROVE  IF t \in Ahead' THEN value'[t] = due[t] + 1
               ELSE IF t \in Linked THEN value'[t] = due[t] /\ due[t] > 0 ELSE due[t] = 0
    <3>1. value'[t] = IF t = tmr THEN due[tmr] ELSE value[t]
      BY <1>5 DEF TInv, TypeOK
    <3>2. IF t \in Ahead THEN value[t] = due[t] + 1
          ELSE IF t \in Linked THEN value[t] = due[t] /\ due[t] > 0 ELSE due[t] = 0
      BY DEF TInv, TimesAreKept
    <3> QED BY <1>1, <1>3, <1>5, <3>1, <3>2, AtCursor
  <2>2. expiring = {t \in Ahead' : due[t] = 0}
    BY <1>3, <1>5 DEF TInv, TimesAreKept
  <2> QED BY <1>1, <1>2, <2>1, <2>2 DEF TimesAreKept
<1> QED BY <1>4, <1>6 DEF TInv

LEMMA ExpireKeeps ==
    ASSUME TInv, TypeOK', Expire
    PROVE  TInv'
<1>1. /\ use' = use /\ pc = "loop" /\ pc' = "callback" /\ tmr # Null /\ tmr' = tmr
      /\ nxt' = next[tmr] /\ prev' = prev /\ due' = due /\ expiring' = expiring \ {tmr}
      /\ value' = [value EXCEPT ![tmr] = 0]
  BY DEF Expire
<1>2. /\ next \in Links /\ queue \in Timers \cup {Null} /\ Linked \subseteq Timers
      /\ Ahead \subseteq Linked /\ WellLinked(queue, next)
  BY Facts DEF TInv, ListIsWhole
<1>3. due[tmr] = 0
  BY <1>1, AtCursor DEF Expire, Decremented
<1>4. prev # Null => prev \in Linked \ Ahead /\ next[prev] = tmr /\ prev # tmr
  BY <1>1, AtCursor DEF TInv, CursorFits, Cursor
<1>5. prev = Null => queue = tmr
  BY <1>1 DEF TInv, CursorFits, Cursor
<1>6. next' \in Links /\ queue' \in Timers \cup {Null}
  BY DEF TypeOK, Links
<1>7. queue' = IF queue = tmr THEN next[tmr] ELSE queue
  <2>1. CASE prev = Null
    BY <1>5, <2>1 DEF Expire
  <2>2. CASE prev # Null
    <3>1. queue # tmr
      BY <1>1, <1>2, <1>4, <2>2 DEF WellLinked, Linked
    <3> QED BY <2>2, <3>1 DEF Expire
  <2> QED BY <2>1, <2>2
<1>8. ASSUME NEW s \in Linked \ {tmr}
      PROVE  /\ next'[s] = IF next[s] = tmr THEN next[tmr] ELSE next[s]
             /\ s # prev => next'[s] = next[s]
             /\ s = prev => next'[s] = next[tmr]
  <2>1. CASE prev = Null
    <3>1. next' = [next EXCEPT ![tmr] = Null] /\ s # prev
      BY <1>2, <2>1, NullAssumption DEF Expire
    <3>2. next[s] # tmr
      BY <1>1, <1>2, <1>5, <2>1 DEF WellLinked, Linked
    <3> QED BY <1>2, <3>1, <3>2 DEF Links
  <2>2. CASE prev # Null
    <3>1. next' = [next EXCEPT ![prev] = next[tmr], ![tmr] = Null]
      BY <2>2 DEF Expire
    <3>2. s # prev => next[s] # tmr
      BY <1>1, <1>2, <1>4, <2>2 DEF WellLinked, Linked
    <3> QED BY <1>2, <1>4, <2>2, <3>1, <3>2 DEF Links
  <2> QED BY <2>1, <2>2
<1>9. WellLinked(queue', next') /\ Linked' = Linked \ {tmr}
  <2>1. tmr \in Linked
    BY <1>1, AtCursor
  <2> QED BY <1>2, <1>6, <1>7, <1>8, <2>1, Unlink DEF Linked
<1>10. Cursor' = next[tmr]
  BY <1>1 DEF Cursor
<1>11. Ahead' = Ahead \ {tmr}
  <2>1. From(next[tmr], next) = Ahead \ {tmr} /\ next[tmr] \in Timers \cup {Null}
    BY <1>1, AtCursor
  <2>2. \A s \in Ahead \ {tmr} : next'[s] = next[s]
    BY <1>2, <1>4, <1>8, NullAssumption
  <2>3. From(next[tmr], next') = From(next[tmr], next)
    BY <1>2, <1>6, <2>1, <2>2, WalkFrame
  <2> QED BY <1>10, <2>1, <2>3 DEF Ahead
<1>12. ListIsWhole'
  BY <1>1, <1>9 DEF ListIsWhole, TInv
<1>13. CursorFits'
  <2>1. next[tmr] # Null => next[tmr] \in Linked'
    BY <1>1, <1>9, AtCursor
  <2>2. prev # Null => prev \in Linked' \ Ahead' /\ next'[prev] = next[tmr]
    BY <1>4, <1>8, <1>9, <1>11
  <2>3. prev = Null => queue' = next[tmr]
    BY <1>5, <1>7
  <2> QED BY <1>1, <1>10, <2>1, <2>2, <2>3 DEF CursorFits
<1>14. PhaseFits'
  <2>1. tmr \in use.timers /\ tmr # prev
    BY <1>1, <1>4, AtCursor DEF TInv, ListIsWhole
  <2> QED BY <1>1, <1>9, <1>11, <2>1 DEF PhaseFits
<1>15. TimesAreKept'
  <2>1. ASSUME NEW t \in Timers
        PROVE  IF t \in Ahead' THEN value'[t] = due[t] + 1
               ELSE IF t \in Linked' THEN value'[t] = due[t] /\ due[t] > 0 ELSE due[t] = 0
    <3>1. t # tmr => value'[t] = value[t]
      BY <1>1 DEF TInv, TypeOK
    <3>2. IF t \in Ahead THEN value[t] = due[t] + 1
          ELSE IF t \in Linked THEN value[t] = due[t] /\ due[t] > 0 ELSE due[t] = 0
      BY DEF TInv, TimesAreKept
    <3> QED BY <1>3, <1>9, <1>11, <3>1, <3>2
  <2>2. expiring' = {t \in Ahead' : due[t] = 0}
    BY <1>1, <1>11 DEF TInv, TimesAreKept
  <2> QED BY <1>1, <2>1, <2>2 DEF TimesAreKept
<1> QED BY <1>12, <1>13, <1>14, <1>15 DEF TInv

LEMMA CallbackReturnsKeeps ==
    ASSUME TInv, TypeOK', CallbackReturns
    PROVE  TInv'
<1>1. /\ use' = use /\ queue' = queue /\ next' = next /\ value' = value /\ prev' = prev
      /\ due' = due /\ expiring' = expiring /\ pc' = "loop" /\ tmr' = nxt /\ Cursor = nxt
  BY DEF CallbackReturns, list, promise, Cursor
<1>2. Cursor' = Cursor
  BY <1>1 DEF Cursor
<1>3. Linked' = Linked /\ Ahead' = Ahead
  BY <1>1, <1>2 DEF Linked, Ahead
<1>4. ListIsWhole' /\ CursorFits' /\ PhaseFits'
  BY <1>1, <1>2, <1>3 DEF TInv, ListIsWhole, CursorFits, PhaseFits
<1>5. TimesAreKept'
  BY <1>1, <1>3 DEF TInv, TimesAreKept
<1> QED BY <1>4, <1>5 DEF TInv

LEMMA TickEndKeeps ==
    ASSUME TInv, TypeOK', TickEnd
    PROVE  TInv'
<1>1. /\ use' = use /\ queue' = queue /\ next' = next /\ value' = value /\ prev' = Null
      /\ due' = due /\ expiring' = expiring /\ pc' = "idle" /\ tmr' = Null /\ Cursor = Null
  BY DEF TickEnd, list, promise, Cursor
<1>2. Cursor' = Cursor
  BY <1>1 DEF Cursor
<1>3. Linked' = Linked /\ Ahead' = Ahead
  BY <1>1, <1>2 DEF Linked, Ahead
<1>4. ListIsWhole' /\ CursorFits' /\ PhaseFits'
  BY <1>1, <1>2, <1>3 DEF TInv, ListIsWhole, CursorFits, PhaseFits
<1>5. TimesAreKept'
  BY <1>1, <1>3 DEF TInv, TimesAreKept
<1> QED BY <1>4, <1>5 DEF TInv

LEMMA TInvStep ==
    ASSUME ProperUses, TInv, [Next]_vars
    PROVE  TInv'
<1>1. TypeOK'
  BY TypeKept
<1>2. CASE TickBegin
  BY <1>1, <1>2, TickBeginKeeps
<1>3. CASE CountDown
  BY <1>1, <1>3, CountDownKeeps
<1>4. CASE Expire
  BY <1>1, <1>4, ExpireKeeps
<1>5. CASE CallbackReturns
  BY <1>1, <1>5, CallbackReturnsKeeps
<1>6. CASE TickEnd
  BY <1>1, <1>6, TickEndKeeps
<1>7. ASSUME NEW t \in use.timers, NEW sec \in 1..MaxValue, StartFromHandler(t, sec)
      PROVE  TInv'
  BY <1>1, <1>7, IdleIsBehind, StartKeeps DEF StartFromHandler
<1>8. ASSUME NEW t \in use.timers, CancelFromHandler(t) PROVE TInv'
  <2>1. CASE t \in Linked
    BY <1>1, <1>8, <2>1, IdleIsBehind, CancelKeeps DEF CancelFromHandler
  <2>2. CASE t \notin Linked
    BY <1>1, <1>8, <2>2, Facts, CancelNothing DEF CancelFromHandler
  <2> QED BY <2>1, <2>2
<1>9. ASSUME NEW t \in use.timers, CallbackCancels(t) PROVE TInv'
  <2>1. t = tmr
    BY <1>9 DEF CallbackCancels, ProperUses, TInv, TypeOK
  <2>2. CASE t \in Linked
    BY <1>1, <1>9, <2>1, <2>2, AloneInCallback, CancelKeeps DEF CallbackCancels, TInv, PhaseFits
  <2>3. CASE t \notin Linked
    BY <1>1, <1>9, <2>3, Facts, CancelNothing DEF CallbackCancels
  <2> QED BY <2>2, <2>3
<1>10. ASSUME NEW sec \in 1..MaxValue, CallbackStarts(sec) PROVE TInv'
  <2>1. pc = "callback" /\ use.timers = {tmr}
    BY <1>10 DEF CallbackStarts, ProperUses, TInv, TypeOK, PhaseFits
  <2>2. Cursor = Null /\ prev = Null
    BY <2>1, AloneInCallback
  <2>3. tmr \in use.timers /\ Start(tmr, sec) /\ UNCHANGED locals
    BY <1>10, <2>1 DEF CallbackStarts
  <2> QED BY <1>1, <2>1, <2>2, <2>3, StartKeeps
<1>11. CASE UNCHANGED vars
  <2>1. Linked' = Linked /\ Ahead' = Ahead /\ Cursor' = Cursor
    BY <1>11 DEF vars, Linked, Ahead, Cursor
  <2>2. ListIsWhole' /\ CursorFits' /\ PhaseFits' /\ TimesAreKept'
    BY <1>11, <2>1 DEF vars, TInv, ListIsWhole, CursorFits, PhaseFits, TimesAreKept
  <2> QED BY <1>1, <2>2 DEF TInv
<1> QED
  BY <1>2, <1>3, <1>4, <1>5, <1>6, <1>7, <1>8, <1>9, <1>10, <1>11 DEF Next

------------------------------------------------------------------------------
(* What holds for any number of timers and any timeouts.                       *)

\* The invariant: the list is whole, ve_timer_tick goes on inside of it, and every timer has
\* the time it was promised.
THEOREM TimerInvariant == ProperUses => (Spec => []TInv)
<1> SUFFICES ASSUME ProperUses PROVE Spec => []TInv
  OBVIOUS
<1> QED BY TInvInit, TInvStep, PTL DEF Spec

\* Every variable of ve_timer.c keeps its type; nothing wraps.
THEOREM TypeCorrect == ProperUses => (Spec => []TypeOK)
<1> SUFFICES ASSUME ProperUses PROVE Spec => []TypeOK
  OBVIOUS
<1>1. TInv => TypeOK
  BY DEF TInv
<1>2. Spec => []TInv
  BY TimerInvariant
<1> QED BY <1>1, <1>2, PTL

\* Between two ticks the list holds the running timers, with the time they were promised.
THEOREM RunningLinked == ProperUses => (Spec => []RunningIsLinked)
<1> SUFFICES ASSUME ProperUses PROVE Spec => []RunningIsLinked
  OBVIOUS
<1>1. TInv => RunningIsLinked
  <2> SUFFICES ASSUME TInv, pc = "idle"
               PROVE  /\ expiring = {}
                      /\ \A t \in Timers : IF due[t] = 0 THEN t \notin Linked
                                          ELSE t \in Linked /\ value[t] = due[t]
    BY DEF RunningIsLinked
  <2>1. Ahead = {}
    BY Facts, IdleIsBehind
  <2> QED BY <2>1 DEF TInv, TimesAreKept
<1>2. Spec => []TInv
  BY TimerInvariant
<1> QED BY <1>1, <1>2, PTL

\* ve_timer_tick calls the callback of no timer but one whose time is up.
THEOREM FiresOnTime == ProperUses => (Spec => FiresWhenDue)
<1> SUFFICES ASSUME ProperUses PROVE Spec => FiresWhenDue
  OBVIOUS
<1>1. TInv /\ [Next]_vars => [Expire => tmr \in expiring]_vars
  <2> SUFFICES ASSUME TInv, Expire PROVE tmr \in expiring
    OBVIOUS
  <2>1. pc = "loop" /\ tmr # Null /\ Decremented(value[tmr]) = 0
    BY DEF Expire
  <2> QED BY <2>1, AtCursor DEF Decremented, TInv, TimesAreKept
<1>2. Spec => []TInv
  BY TimerInvariant
<1> QED BY <1>1, <1>2, PTL DEF Spec, FiresWhenDue
==============================================================================
