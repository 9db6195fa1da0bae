---------------------------- MODULE ChannelProofs -----------------------------
(* Proofs about Channel, for any requests, batches and bounds.                  *)
EXTENDS Channel, SequenceTheorems, FiniteSetTheorems, TLAPS

------------------------------------------------------------------------------
(* The inductive invariant.                                                     *)

SubAhead == pending # <<>> /\ Head(pending) = Sub

\* The console subscribes only with an empty queue, and what it adds later goes behind.
SubOnlyFirst(s) == \A i \in 2..Len(s) : s[i] # Sub

\* An answer is one to the head of the queue.
Queue ==
    /\ SubOnlyFirst(pending)
    /\ inflight # None => pending # <<>> /\ inflight = Head(pending)
    /\ answer # None => inflight # None
    /\ used => answer # None
    /\ ~booted => pending = <<>> /\ outstanding = 0

\* A level that is raised was left by a reply that was cut.
LevelsOfSpoiled == \A r \in Requests \ spoiled : level[r] = 0

\* What the server has answered: no earlier message is missing in it.
Answered ==
    /\ inflight = Sub /\ answer # None =>
        /\ \A m \in listened : m <= answer
        /\ timeToken <= answer /\ asked <= answer
    /\ inflight \in Pubs /\ answer # None => answer >= 1 /\ log[answer] = "console"
    /\ \A m \in Messages : ran[m] > 0 => m <= Len(log) /\ (answer # None => m <= answer)
    /\ answer # None => \A m \in 1..Len(log) : log[m] = "console" => m <= answer

\* A command that was listened for and has not run is still asked for.
Awaited ==
    \A m \in listened :
        ran[m] = 0 => /\ SubAhead /\ ~(used /\ inflight = Sub)
                      /\ asked # 0 /\ asked < m /\ timeToken < m

\* While no reply to a subscription was cut, what was run is not asked for again.
RunOnce ==
    Sub \notin spoiled =>
        \A m \in Messages :
            /\ ran[m] <= 1
            /\ ran[m] = 1 =>
                /\ timeToken = 0 \/ m <= timeToken
                /\ SubAhead => asked = 0 \/ m <= asked \/ (used /\ inflight = Sub)

\* While no reply to a publication was cut, the token of a response is kept before the
\* console asks for commands.
Passed ==
    spoiled \subseteq {Sub} =>
        /\ SubAhead => asked >= 1 /\ asked <= timeToken
        /\ used /\ inflight \in Pubs => timeToken = answer
        /\ \A m \in 1..Len(log) :
            IF log[m] = "console" THEN ran[m] = 0 /\ (SubAhead => m <= asked)
            ELSE ran[m] = 0 /\ m <= timeToken => \E n \in m + 1..timeToken : log[n] = "console"

IInv ==
    /\ ChannelTypeOK
    /\ Queue
    /\ LevelsOfSpoiled
    /\ Answered
    /\ Awaited
    /\ RunOnce
    /\ Passed

------------------------------------------------------------------------------
(* Facts about the queue.                                                       *)

Fits(s) == s \in Seq(Requests) /\ SubOnlyFirst(s)

LEMMA QueueAppend ==
    ASSUME NEW s, Fits(s), NEW p \in Pubs
    PROVE  /\ Fits(Append(s, p)) /\ Append(s, p) # <<>>
           /\ Head(Append(s, p)) = IF s = <<>> THEN p ELSE Head(s)
           /\ p # Sub
<1>1. p \in Requests /\ p # Sub /\ s \in Seq(Requests)
  BY DEF Pubs, Fits
<1>2. /\ Append(s, p) \in Seq(Requests) /\ Append(s, p) # <<>>
      /\ Len(Append(s, p)) = Len(s) + 1
      /\ \A i \in 1..Len(s) : Append(s, p)[i] = s[i]
      /\ Append(s, p)[Len(s) + 1] = p
  BY <1>1, AppendProperties
<1>3. SubOnlyFirst(Append(s, p))
  BY <1>1, <1>2 DEF Fits, SubOnlyFirst
<1>4. Head(Append(s, p)) = IF s = <<>> THEN p ELSE Head(s)
  BY <1>1, HeadTailAppend
<1> QED BY <1>1, <1>2, <1>3, <1>4 DEF Fits

LEMMA QueueConcat ==
    ASSUME NEW s, Fits(s), s # <<>>, NEW adds \in Seq(Requests), Elements(adds) \subseteq Pubs
    PROVE  Fits(s \o adds) /\ s \o adds # <<>> /\ Head(s \o adds) = Head(s)
<1>1. s \in Seq(Requests) /\ Len(s) > 0
  BY EmptySeq DEF Fits
<1>2. /\ s \o adds \in Seq(Requests)
      /\ Len(s \o adds) = Len(s) + Len(adds)
      /\ \A i \in 1..Len(s) + Len(adds) :
            (s \o adds)[i] = IF i <= Len(s) THEN s[i] ELSE adds[i - Len(s)]
  BY <1>1, ConcatProperties
<1>3. SubOnlyFirst(s \o adds)
  <2> SUFFICES ASSUME NEW i \in 2..Len(s \o adds) PROVE (s \o adds)[i] # Sub
    BY DEF SubOnlyFirst
  <2>1. CASE i <= Len(s)
    BY <2>1, <1>1, <1>2 DEF Fits, SubOnlyFirst
  <2>2. CASE i > Len(s)
    <3>1. i - Len(s) \in 1..Len(adds) /\ (s \o adds)[i] = adds[i - Len(s)]
      BY <2>2, <1>1, <1>2
    <3> QED BY <3>1 DEF Elements, Pubs
  <2> QED BY <2>1, <2>2, <1>1
<1>4. s \o adds # <<>> /\ Head(s \o adds) = Head(s)
  BY <1>1, <1>2
<1> QED BY <1>2, <1>3, <1>4 DEF Fits

\* A publication that is done is not followed by the subscription that was before it.
LEMMA QueueDone ==
    ASSUME NEW s, Fits(s), s # <<>>
    PROVE  /\ Fits(Tail(s) \o <<>>)
           /\ Tail(s) \o <<>> # <<>> => Head(Tail(s) \o <<>>) # Sub
           /\ Len(s) = 1 => /\ Fits(Tail(s) \o <<Sub>>) /\ Tail(s) \o <<Sub>> # <<>>
                            /\ Head(Tail(s) \o <<Sub>>) = Sub
<1>1. /\ s \in Seq(Requests) /\ Tail(s) \in Seq(Requests) /\ Len(Tail(s)) = Len(s) - 1
      /\ \A i \in 1..Len(Tail(s)) : Tail(s)[i] = s[i + 1]
  BY HeadTailProperties DEF Fits
<1>2. Tail(s) \o <<>> = Tail(s)
  BY <1>1, ConcatEmptySeq
<1>3. \A i \in 1..Len(Tail(s)) : Tail(s)[i] # Sub
  BY <1>1 DEF Fits, SubOnlyFirst
<1>4. Fits(Tail(s)) /\ (Tail(s) # <<>> => Head(Tail(s)) # Sub)
  BY <1>1, <1>3 DEF Fits, SubOnlyFirst
<1>5. ASSUME Len(s) = 1
      PROVE  Tail(s) \o <<Sub>> = <<Sub>>
  <2>1. Tail(s) = <<>>
    <3>1. Len(Tail(s)) = 0
      BY <1>1, <1>5
    <3> QED BY <3>1, <1>1, EmptySeq
  <2>2. <<Sub>> \in Seq(Requests)
    BY ChannelAssumption
  <2> QED BY <2>1, <2>2, ConcatEmptySeq
<1>6. Fits(<<Sub>>) /\ <<Sub>> # <<>> /\ Head(<<Sub>>) = Sub
  BY ChannelAssumption DEF Fits, SubOnlyFirst
<1> QED BY <1>2, <1>4, <1>5, <1>6

------------------------------------------------------------------------------
(* Facts about the channel and the console.                                     *)

LEMMA Basics ==
    ASSUME IInv
    PROVE  /\ MaxLog \in Nat /\ MaxLevel \in Nat /\ MaxOutstanding \in Nat
           /\ Sub \in Requests /\ None \notin Requests /\ None \notin Nat
           /\ Len(log) \in Nat /\ timeToken \in Nat /\ asked \in Nat
           /\ timeToken <= Len(log) /\ asked <= Len(log) /\ Len(log) <= MaxLog
           /\ answer # None => answer \in Nat /\ answer <= Len(log)
           /\ Fits(pending)
           /\ inflight # None => /\ inflight \in Requests /\ pending # <<>>
                                 /\ inflight = Head(pending) /\ (SubAhead <=> inflight = Sub)
                                 /\ (inflight # Sub => inflight \in Pubs)
<1>1. Len(log) \in Nat
  BY LenProperties DEF IInv, ChannelTypeOK
<1> QED BY <1>1, ChannelAssumption DEF IInv, ChannelTypeOK, Queue, Fits, SubAhead, Pubs

LEMMA LogAppend ==
    ASSUME IInv, Len(log) < MaxLog, NEW x \in {"user", "console"}, log' = Append(log, x)
    PROVE  /\ log' \in Seq({"user", "console"})
           /\ Len(log') = Len(log) + 1 /\ Len(log') <= MaxLog
           /\ \A m \in 1..Len(log) : log'[m] = log[m]
           /\ log'[Len(log) + 1] = x
<1>1. log \in Seq({"user", "console"})
  BY DEF IInv, ChannelTypeOK
<1> QED BY <1>1, AppendProperties, Basics

LEMMA IntervalCardinality ==
    ASSUME NEW a \in Int, NEW b \in Int
    PROVE  Cardinality(a..b) \in Nat
<1>1. Cardinality(a..b) = IF a > b THEN 0 ELSE b - a + 1
  BY FS_Interval
<1> QED BY <1>1

\* Which messages a reply runs, and what else its commands come to.
LEMMA RunFacts ==
    ASSUME IInv, NEW last \in Nat, NEW token, NEW adds \in Batches,
           Run(Commands(last), token, adds)
    PROVE  /\ outstanding' \in 0..MaxOutstanding /\ atCmdPending' \in BOOLEAN
           /\ booted' = booted
           /\ adds \in Seq(Requests) /\ Elements(adds) \subseteq Pubs
           /\ ran' \in [Messages -> 0..2]
           /\ \A m \in Messages :
                /\ m \in Commands(last) => ran'[m] > 0 /\ m <= last /\ inflight = Sub /\ m > asked
                                           /\ (ran[m] = 0 => ran'[m] = 1)
                /\ m \notin Commands(last) => ran'[m] = ran[m]
           /\ inflight = Sub /\ asked # 0 => Commands(last) = asked + 1..last
<1>1. last \in Nat
  OBVIOUS
<1>2. Cardinality(Commands(last)) \in Nat
  <2>1. Commands(last) = {} \/ Commands(last) = asked + 1..last
    BY DEF Commands
  <2>2. asked + 1 \in Int /\ last \in Int
    BY <1>1, Basics
  <2>3. Cardinality(asked + 1..last) \in Nat
    BY <2>2, IntervalCardinality
  <2>4. Cardinality({}) \in Nat
    BY FS_EmptySet
  <2> QED BY <2>1, <2>3, <2>4
<1>3. Strays(token) \in Nat
  BY DEF Strays
<1>4. outstanding' \in 0..MaxOutstanding
  BY <1>2, <1>3, Basics DEF Run, Outcomes, IInv, ChannelTypeOK
<1>5. atCmdPending' \in BOOLEAN
  <2>1. atCmdPending \in BOOLEAN
    BY DEF IInv, ChannelTypeOK
  <2>2. {FALSE, outstanding' > outstanding} \subseteq BOOLEAN
    OBVIOUS
  <2> QED BY <2>1, <2>2 DEF Run, Outcomes
<1>6. booted' = booted /\ Elements(adds) \subseteq Pubs
  BY DEF Run, Outcomes, Fresh
<1>7. adds \in Seq(Requests)
  BY ChannelAssumption
<1>8. ran \in [Messages -> 0..2]
  BY DEF IInv, ChannelTypeOK
<1>9. ran' = [m \in Messages |-> IF m \in Commands(last) /\ ran[m] < 2 THEN ran[m] + 1 ELSE ran[m]]
  BY DEF Run
<1>10. ran' \in [Messages -> 0..2]
  BY <1>8, <1>9
<1>11. ASSUME NEW m \in Messages
       PROVE  /\ m \in Commands(last) => ran'[m] > 0 /\ m <= last /\ inflight = Sub /\ m > asked
                                         /\ (ran[m] = 0 => ran'[m] = 1)
              /\ m \notin Commands(last) => ran'[m] = ran[m]
  <2>1. m \in Commands(last) => ran'[m] > 0 /\ (ran[m] = 0 => ran'[m] = 1)
    BY <1>8, <1>9
  <2>2. m \notin Commands(last) => ran'[m] = ran[m]
    BY <1>8, <1>9
  <2>3. m \in Commands(last) => m <= last /\ inflight = Sub /\ m > asked
    BY <1>1, Basics DEF Commands
  <2> QED BY <2>1, <2>2, <2>3
<1>12. inflight = Sub /\ asked # 0 => Commands(last) = asked + 1..last
  BY DEF Commands
<1> QED BY <1>4, <1>5, <1>6, <1>7, <1>10, <1>11, <1>12

------------------------------------------------------------------------------
(* The server.                                                                  *)

LEMMA UserPublishesInv ==
    ASSUME IInv, UserPublishes
    PROVE  IInv'
<1> USE DEF UserPublishes, avars, console
<1> DEFINE new == Len(log) + 1
<1>1. /\ log' \in Seq({"user", "console"}) /\ Len(log') = new /\ new <= MaxLog
      /\ \A m \in 1..Len(log) : log'[m] = log[m]
      /\ log'[new] = "user"
  BY LogAppend
<1>2. new \in Nat
  BY Basics
<1>3. Listening => answer = None /\ inflight = Sub /\ asked # 0 /\ ~used
  BY DEF Listening, IInv, Queue
<1>4. ChannelTypeOK'
  <2>1. listened \subseteq 1..Len(log)
    BY DEF IInv, ChannelTypeOK
  <2>2. listened' \subseteq 1..new
    <3>1. listened' \subseteq listened \cup {new}
      OBVIOUS
    <3>2. 1..Len(log) \subseteq 1..new /\ new \in 1..new
      BY <1>2, Basics
    <3> HIDE DEF UserPublishes, new
    <3> QED BY <2>1, <3>1, <3>2
  <2>3. ran' \in [Messages -> 0..2] /\ outstanding' \in 0..MaxOutstanding /\ level' \in [Requests -> 0..MaxLevel]
    BY DEF IInv, ChannelTypeOK
  <2>4. timeToken' \in 0..new /\ asked' \in 0..new /\ answer' \in 0..new \cup {None}
    BY <1>2, Basics
  <2> QED BY <1>1, <2>2, <2>3, <2>4 DEF IInv, ChannelTypeOK
<1>5. Queue' /\ LevelsOfSpoiled'
  BY DEF IInv, Queue, LevelsOfSpoiled, SubOnlyFirst
<1>6. Answered'
  BY <1>1, <1>2, <1>3, Basics DEF IInv, Answered, ChannelTypeOK, Messages
<1>7. Awaited'
  <2> SUFFICES ASSUME NEW m \in listened', ran'[m] = 0
               PROVE  (SubAhead /\ ~(used /\ inflight = Sub) /\ asked # 0 /\ asked < m /\ timeToken < m)'
    BY DEF Awaited
  <2>1. CASE m \in listened
    BY <2>1 DEF IInv, Awaited, SubAhead
  <2>2. CASE m \notin listened
    <3>1. Listening /\ m = new
      BY <2>2
    <3> QED BY <3>1, <1>2, <1>3, Basics, None \notin Requests DEF SubAhead
  <2> QED BY <2>1, <2>2
<1>8. RunOnce'
  BY DEF IInv, RunOnce, SubAhead
<1>9. Passed'
  <2> SUFFICES ASSUME spoiled \subseteq {Sub}
               PROVE  /\ SubAhead => asked >= 1 /\ asked <= timeToken
                      /\ used /\ inflight \in Pubs => timeToken = answer
                      /\ \A m \in 1..new :
                            IF log'[m] = "console" THEN ran[m] = 0 /\ (SubAhead => m <= asked)
                            ELSE ran[m] = 0 /\ m <= timeToken =>
                                    \E n \in m + 1..timeToken : log'[n] = "console"
    BY <1>1 DEF Passed, SubAhead
  <2>1. /\ SubAhead => asked >= 1 /\ asked <= timeToken
        /\ used /\ inflight \in Pubs => timeToken = answer
    BY DEF IInv, Passed
  <2>2. ASSUME NEW m \in 1..Len(log)
        PROVE  IF log'[m] = "console" THEN ran[m] = 0 /\ (SubAhead => m <= asked)
               ELSE ran[m] = 0 /\ m <= timeToken =>
                        \E n \in m + 1..timeToken : log'[n] = "console"
    <3>1. IF log[m] = "console" THEN ran[m] = 0 /\ (SubAhead => m <= asked)
          ELSE ran[m] = 0 /\ m <= timeToken => \E n \in m + 1..timeToken : log[n] = "console"
      BY DEF IInv, Passed
    <3>2. \A n \in m + 1..timeToken : n \in 1..Len(log)
      BY Basics
    <3> QED BY <3>1, <3>2, <1>1
  <2>3. log'[new] # "console" /\ ~(new <= timeToken)
    BY <1>1, Basics
  <2>4. \A m \in 1..new : m \in 1..Len(log) \/ m = new
    BY <1>2, Basics
  <2> QED BY <2>1, <2>2, <2>3, <2>4
<1> QED BY <1>4, <1>5, <1>6, <1>7, <1>8, <1>9 DEF IInv

LEMMA AnswerPublishInv ==
    ASSUME IInv, AnswerPublish
    PROVE  IInv'
<1> USE DEF AnswerPublish, avars, console
<1> DEFINE new == Len(log) + 1
<1>1. /\ log' \in Seq({"user", "console"}) /\ Len(log') = new /\ new <= MaxLog
      /\ \A m \in 1..Len(log) : log'[m] = log[m]
      /\ log'[new] = "console" /\ answer' = new
  BY LogAppend
<1>2. new \in Nat /\ new # None
  BY Basics
<1>3. inflight # None /\ inflight # Sub /\ ~SubAhead /\ ~used
  BY Basics DEF Pubs, IInv, Queue
<1>4. ChannelTypeOK'
  BY <1>1, <1>2, Basics, SMTT(30) DEF IInv, ChannelTypeOK
<1>5. Queue' /\ LevelsOfSpoiled'
  BY <1>3 DEF IInv, Queue, LevelsOfSpoiled, SubOnlyFirst
<1>6. Answered'
  BY <1>1, <1>2, <1>3, Basics DEF IInv, Answered, ChannelTypeOK, Messages
<1>7. Awaited'
  BY <1>3 DEF IInv, Awaited
<1>8. RunOnce'
  BY DEF IInv, RunOnce, SubAhead
<1>9. Passed'
  <2> SUFFICES ASSUME spoiled \subseteq {Sub}
               PROVE  \A m \in 1..new :
                            IF log'[m] = "console" THEN ran[m] = 0
                            ELSE ran[m] = 0 /\ m <= timeToken =>
                                    \E n \in m + 1..timeToken : log'[n] = "console"
    BY <1>1, <1>3 DEF Passed, SubAhead
  <2>2. ASSUME NEW m \in 1..Len(log)
        PROVE  IF log'[m] = "console" THEN ran[m] = 0
               ELSE ran[m] = 0 /\ m <= timeToken =>
                        \E n \in m + 1..timeToken : log'[n] = "console"
    <3>1. IF log[m] = "console" THEN ran[m] = 0
          ELSE ran[m] = 0 /\ m <= timeToken => \E n \in m + 1..timeToken : log[n] = "console"
      BY DEF IInv, Passed
    <3>2. \A n \in m + 1..timeToken : n \in 1..Len(log)
      BY Basics
    <3> QED BY <3>1, <3>2, <1>1
  <2>3. ran[new] = 0
    <3>1. new \in Messages /\ ran[new] \in 0..2
      BY <1>1, <1>2, Basics DEF IInv, ChannelTypeOK, Messages
    <3>2. ~(ran[new] > 0)
      BY <3>1, Basics DEF IInv, Answered
    <3> QED BY <3>1, <3>2
  <2>4. \A m \in 1..new : m \in 1..Len(log) \/ m = new
    BY <1>2, Basics
  <2> QED BY <1>1, <2>2, <2>3, <2>4
<1> QED BY <1>4, <1>5, <1>6, <1>7, <1>8, <1>9 DEF IInv

LEMMA AnswerSubscribeInv ==
    ASSUME IInv, AnswerSubscribe
    PROVE  IInv'
<1> USE DEF AnswerSubscribe, avars, console
<1>1. ~used /\ inflight # None
  BY Basics DEF IInv, Queue
<1>2. ChannelTypeOK'
  BY Basics, SMTT(30) DEF IInv, ChannelTypeOK
<1>3. Queue' /\ LevelsOfSpoiled'
  BY <1>1 DEF IInv, Queue, LevelsOfSpoiled, SubOnlyFirst
<1>4. Answered'
  BY Basics DEF IInv, Answered, ChannelTypeOK, Messages, Pubs
<1>5. Awaited'
  BY DEF IInv, Awaited, SubAhead
<1>6. RunOnce'
  BY DEF IInv, RunOnce, SubAhead
<1>7. Passed'
  BY <1>1 DEF IInv, Passed, SubAhead
<1> QED BY <1>2, <1>3, <1>4, <1>5, <1>6, <1>7 DEF IInv

------------------------------------------------------------------------------
(* The console.                                                                 *)

\* The properties that speak of the queue by its head only.
LEMMA AddedBehind ==
    ASSUME IInv, NEW p \in Pubs, Submit(p)
    PROVE  /\ pending' \in Seq(Requests) /\ Fits(pending') /\ pending' # <<>>
           /\ SubAhead' = SubAhead /\ inflight' = inflight
           /\ inflight # None => inflight = Head(pending')
<1>1. /\ Fits(pending') /\ pending' # <<>> /\ inflight' = inflight /\ p # Sub
      /\ Head(pending') = IF pending = <<>> THEN p ELSE Head(pending)
  BY QueueAppend, Basics DEF Submit
<1>2. pending' \in Seq(Requests)
  BY <1>1 DEF Fits
<1>3. SubAhead' = SubAhead
  BY <1>1 DEF SubAhead
<1>4. inflight # None => inflight = Head(pending')
  BY <1>1, Basics
<1> QED BY <1>1, <1>2, <1>3, <1>4

LEMMA BootInv ==
    ASSUME IInv, NEW p \in Pubs, Boot(p) \/ AtResponse(p)
    PROVE  IInv'
<1>1. /\ UNCHANGED <<inflight, log, timeToken, asked, answer, used, ran, listened, spoiled>>
      /\ level' = [level EXCEPT ![p] = 0] /\ Submit(p)
      /\ booted' = TRUE \/ (outstanding > 0 /\ booted' = booted)
  BY DEF Boot, AtResponse, Submit
<1>2. /\ pending' \in Seq(Requests) /\ Fits(pending') /\ pending' # <<>>
      /\ SubAhead' = SubAhead
      /\ inflight # None => inflight = Head(pending')
  BY <1>1, AddedBehind
<1>3. booted' = TRUE
  <2>1. booted \in BOOLEAN /\ (~booted => outstanding = 0)
    BY DEF IInv, Queue, ChannelTypeOK
  <2> QED BY <1>1, <2>1, 0 \in Nat
<1>4. outstanding' \in 0..MaxOutstanding
  BY Basics, SMTT(30) DEF Boot, AtResponse, IInv, ChannelTypeOK
<1>5. atCmdPending' \in BOOLEAN
  BY DEF Boot, AtResponse, IInv, ChannelTypeOK
<1>6. p \in Requests /\ level \in [Requests -> 0..MaxLevel] /\ 0 \in 0..MaxLevel
  BY Basics DEF IInv, ChannelTypeOK, Pubs
<1>7. level' \in [Requests -> 0..MaxLevel]
  BY <1>1, <1>6
<1>8. ChannelTypeOK'
  BY <1>1, <1>2, <1>3, <1>4, <1>5, <1>7 DEF IInv, ChannelTypeOK
<1>9. Queue'
  BY <1>1, <1>2, <1>3 DEF IInv, Queue, Fits
<1>10. LevelsOfSpoiled'
  BY <1>1, <1>6 DEF IInv, LevelsOfSpoiled
<1>11. Answered' /\ Awaited' /\ RunOnce' /\ Passed'
  BY <1>1, <1>2 DEF IInv, Answered, Awaited, RunOnce, Passed
<1> QED BY <1>8, <1>9, <1>10, <1>11 DEF IInv

LEMMA SendInv ==
    ASSUME IInv, Send
    PROVE  IInv'
<1> USE DEF Send, Transmit, console
<1>1. answer = None /\ ~used /\ pending # <<>>
  BY DEF IInv, Queue
<1>2. inflight' \in Requests
  BY <1>1, Basics, HeadTailProperties DEF Fits
<1>3. ChannelTypeOK'
  BY <1>2 DEF IInv, ChannelTypeOK
<1>4. Queue' /\ LevelsOfSpoiled'
  BY <1>1 DEF IInv, Queue, LevelsOfSpoiled, SubOnlyFirst
<1>5. Answered' /\ Awaited' /\ RunOnce' /\ Passed'
  BY <1>1 DEF IInv, Answered, Awaited, RunOnce, Passed, SubAhead
<1> QED BY <1>3, <1>4, <1>5 DEF IInv

LEMMA BreakInv ==
    ASSUME IInv, Break
    PROVE  IInv'
<1> USE DEF Break, Lose, console
<1>1. spoiled \subseteq spoiled' /\ spoiled' \subseteq Requests
  BY Basics DEF IInv, ChannelTypeOK
<1>2. ChannelTypeOK'
  BY <1>1 DEF IInv, ChannelTypeOK
<1>3. Queue' /\ LevelsOfSpoiled'
  BY <1>1 DEF IInv, Queue, LevelsOfSpoiled, SubOnlyFirst
<1>4. Answered' /\ Awaited'
  BY DEF IInv, Answered, Awaited, SubAhead
<1>5. RunOnce'
  BY <1>1 DEF IInv, RunOnce, SubAhead
<1>6. Passed'
  BY <1>1 DEF IInv, Passed, SubAhead
<1> QED BY <1>2, <1>3, <1>4, <1>5, <1>6 DEF IInv

LEMMA UseInv ==
    ASSUME IInv, NEW adds \in Batches, Use(adds)
    PROVE  IInv'
<1>1. /\ answer # None /\ ~used /\ used' = TRUE /\ inflight # None
      /\ UNCHANGED <<inflight, log, asked, answer, listened, spoiled>>
      /\ pending' = pending \o adds /\ Run(Commands(answer), answer, adds)
      /\ timeToken' = Kept(answer) /\ Levels(adds, 0)
  BY DEF Use, Deliver
<1>2. answer \in Nat /\ answer <= Len(log)
  BY <1>1, Basics
<1>3. /\ outstanding' \in 0..MaxOutstanding /\ atCmdPending' \in BOOLEAN /\ booted' = booted
      /\ adds \in Seq(Requests) /\ Elements(adds) \subseteq Pubs
      /\ ran' \in [Messages -> 0..2]
      /\ \A m \in Messages :
            /\ m \in Commands(answer) => ran'[m] > 0 /\ m <= answer /\ inflight = Sub /\ m > asked
                                         /\ (ran[m] = 0 => ran'[m] = 1)
            /\ m \notin Commands(answer) => ran'[m] = ran[m]
      /\ inflight = Sub /\ asked # 0 => Commands(answer) = asked + 1..answer
  BY <1>1, <1>2, RunFacts
<1>4. /\ Fits(pending') /\ pending' # <<>> /\ Head(pending') = Head(pending)
      /\ inflight = Head(pending) /\ SubAhead' = SubAhead /\ (SubAhead <=> inflight = Sub)
      /\ (inflight # Sub => inflight \in Pubs) /\ inflight \in Requests
  BY <1>1, <1>3, QueueConcat, Basics DEF SubAhead
<1>5. timeToken' = answer \/ timeToken' = timeToken
  BY <1>1 DEF Kept
<1>6. inflight \notin spoiled => timeToken' = answer
  BY <1>1, <1>4 DEF Kept, IInv, LevelsOfSpoiled
<1>7. ran \in [Messages -> 0..2] /\ Messages = 1..MaxLog
  BY DEF IInv, ChannelTypeOK, Messages
<1>8. level' \in [Requests -> 0..MaxLevel] /\ \A r \in Requests : level[r] = 0 => level'[r] = 0
  <2>1. level \in [Requests -> 0..MaxLevel] /\ 0 \in 0..MaxLevel
    BY Basics DEF IInv, ChannelTypeOK
  <2>2. \A n \in 0..MaxLevel : n + 0 = n
    BY Basics
  <2> QED BY <1>1, <2>1, <2>2 DEF Levels
<1>9. ChannelTypeOK'
  <2>1. timeToken' \in 0..Len(log)
    BY <1>2, <1>5, Basics
  <2>2. booted' \in BOOLEAN
    BY <1>3 DEF IInv, ChannelTypeOK
  <2> QED BY <1>1, <1>3, <1>4, <1>8, <2>1, <2>2 DEF IInv, ChannelTypeOK, Fits
<1>10. Queue'
  BY <1>1, <1>3, <1>4 DEF IInv, Queue, Fits
<1>11. LevelsOfSpoiled'
  BY <1>1, <1>8 DEF IInv, LevelsOfSpoiled
<1>12. Answered'
  <2>1. inflight = Sub => timeToken' <= answer /\ \A m \in listened : m <= answer
    BY <1>1, <1>2, <1>5 DEF IInv, Answered
  <2>2. \A m \in Messages : ran'[m] > 0 => m <= Len(log) /\ m <= answer
    <3> SUFFICES ASSUME NEW m \in Messages, ran'[m] > 0 PROVE m <= Len(log) /\ m <= answer
      OBVIOUS
    <3>1. CASE m \in Commands(answer)
      BY <3>1, <1>2, <1>3, <1>7, Basics
    <3>2. CASE m \notin Commands(answer)
      BY <3>2, <1>1, <1>3 DEF IInv, Answered
    <3> QED BY <3>1, <3>2
  <2> QED BY <1>1, <2>1, <2>2 DEF IInv, Answered
<1>13. Awaited'
  <2> SUFFICES ASSUME NEW m \in listened, ran'[m] = 0 PROVE FALSE
    BY <1>1 DEF Awaited
  <2>1. m \in Messages /\ m \in Nat
    BY <1>7, Basics DEF IInv, ChannelTypeOK
  <2>2. ran[m] = 0
    BY <2>1, <1>3
  <2>3. SubAhead /\ asked # 0 /\ asked < m
    BY <2>2 DEF IInv, Awaited
  <2>4. inflight = Sub /\ m <= answer
    BY <2>3, <1>1, <1>4 DEF IInv, Answered
  <2>5. m \in Commands(answer)
    BY <2>1, <2>3, <2>4, <1>2, <1>3, Basics
  <2> QED BY <2>1, <2>5, <1>3
<1>14. RunOnce'
  <2> SUFFICES ASSUME Sub \notin spoiled, NEW m \in Messages
               PROVE  /\ ran'[m] <= 1
                      /\ ran'[m] = 1 =>
                            /\ timeToken' = 0 \/ m <= timeToken'
                            /\ SubAhead => asked = 0 \/ m <= asked \/ inflight = Sub
    BY <1>1, <1>4 DEF RunOnce
  <2>1. /\ ran[m] <= 1
        /\ ran[m] = 1 => /\ timeToken = 0 \/ m <= timeToken
                         /\ SubAhead => asked = 0 \/ m <= asked
    BY <1>1 DEF IInv, RunOnce
  <2>2. ran[m] \in 0..2 /\ m \in Nat
    BY <1>7, Basics
  <2>3. CASE m \in Commands(answer)
    <3>1. inflight = Sub /\ m <= answer /\ m > asked /\ asked # 0 /\ SubAhead
      BY <2>3, <1>3, <1>4 DEF Commands
    <3>2. ran[m] = 0
      BY <3>1, <2>1, <2>2, Basics
    <3>3. timeToken' = answer
      BY <3>1, <1>6
    <3> QED BY <2>3, <3>1, <3>2, <3>3, <1>3
  <2>4. CASE m \notin Commands(answer)
    <3>1. ran'[m] = ran[m]
      BY <2>4, <1>3
    <3>2. inflight = Sub => timeToken' = answer
      BY <1>6
    <3>3. ran[m] = 1 => m <= answer
      BY <1>1 DEF IInv, Answered
    <3> QED BY <3>1, <3>2, <3>3, <2>1, <1>4, <1>5
  <2> QED BY <2>3, <2>4
<1>15. Passed'
  <2> SUFFICES ASSUME spoiled \subseteq {Sub}
               PROVE  /\ SubAhead => asked >= 1 /\ asked <= timeToken'
                      /\ inflight \in Pubs => timeToken' = answer
                      /\ \A m \in 1..Len(log) :
                            IF log[m] = "console" THEN ran'[m] = 0 /\ (SubAhead => m <= asked)
                            ELSE ran'[m] = 0 /\ m <= timeToken' =>
                                    \E n \in m + 1..timeToken' : log[n] = "console"
    BY <1>1, <1>4 DEF Passed
  <2>1. /\ SubAhead => asked >= 1 /\ asked <= timeToken
        /\ \A m \in 1..Len(log) :
            IF log[m] = "console" THEN ran[m] = 0 /\ (SubAhead => m <= asked)
            ELSE ran[m] = 0 /\ m <= timeToken => \E n \in m + 1..timeToken : log[n] = "console"
    BY DEF IInv, Passed
  <2>2. inflight \in Pubs => timeToken' = answer
    BY <1>6 DEF Pubs
  <2>3. SubAhead => asked >= 1 /\ asked <= timeToken' /\ asked <= answer /\ timeToken <= answer
    BY <2>1, <1>1, <1>4, <1>5 DEF IInv, Answered
  <2>4. ASSUME NEW m \in 1..Len(log)
        PROVE  IF log[m] = "console" THEN ran'[m] = 0 /\ (SubAhead => m <= asked)
               ELSE ran'[m] = 0 /\ m <= timeToken' => \E n \in m + 1..timeToken' : log[n] = "console"
    <3>1. m \in Messages /\ m \in Nat
      BY <1>7, Basics
    <3>2. CASE log[m] = "console"
      <4>1. ran[m] = 0 /\ (SubAhead => m <= asked)
        BY <3>2, <2>1
      <4>2. m \notin Commands(answer)
        BY <4>1, <3>1, <1>3, <1>4, Basics
      <4> QED BY <3>1, <3>2, <4>1, <4>2, <1>3
    <3>3. CASE log[m] # "console" /\ ran'[m] = 0 /\ m <= timeToken'
      <4>1. m \notin Commands(answer) /\ ran[m] = 0
        BY <3>1, <3>3, <1>3
      <4>2. CASE inflight = Sub
        <5>1. m <= asked
          BY <4>1, <4>2, <3>1, <3>3, <2>3, <1>2, <1>3, <1>4, <1>5, Basics
        <5>2. PICK n \in m + 1..timeToken : log[n] = "console"
          BY <5>1, <4>1, <4>2, <3>1, <3>3, <2>1, <1>4, Basics
        <5>3. n \in m + 1..timeToken'
          BY <5>2, <4>2, <3>1, <2>3, <1>2, <1>4, <1>5, Basics
        <5> QED BY <5>2, <5>3, <3>3
      <4>3. CASE inflight # Sub
        <5>1. timeToken' = answer /\ log[answer] = "console"
          BY <4>3, <2>2, <1>1, <1>4 DEF IInv, Answered
        <5>2. answer \in m + 1..timeToken'
          BY <5>1, <3>1, <3>3, <1>2
        <5> QED BY <5>1, <5>2, <3>3
      <4> QED BY <4>2, <4>3
    <3> QED BY <3>2, <3>3
  <2> QED BY <2>2, <2>3, <2>4
<1> QED BY <1>9, <1>10, <1>11, <1>12, <1>13, <1>14, <1>15 DEF IInv

\* What of a reply was used before it was cut.
LEMMA PartFacts ==
    ASSUME IInv, answer # None, NEW part \in Parts
    PROVE  /\ part.open \in Nat /\ part.last \in Nat
           /\ part.token \in {None, 0, answer}
           /\ inflight = Sub => /\ part.last <= answer
                                /\ part.token # None => part.token = answer /\ part.last = answer
<1>1. answer \in Nat /\ asked \in Nat /\ (inflight = Sub => asked <= answer)
  BY Basics DEF IInv, Answered
<1>2. CASE part \in {[open |-> n, last |-> asked, token |-> None] : n \in 0..1}
  BY <1>1, <1>2
<1>3. CASE inflight = Sub /\ part \in {[open |-> 2, last |-> m, token |-> None] : m \in {asked} \cup Commands(answer)}
  <2>1. PICK m \in {asked} \cup Commands(answer) : part = [open |-> 2, last |-> m, token |-> None]
    BY <1>3
  <2>2. m \in Nat /\ m <= answer
    BY <1>1, <1>3 DEF Commands
  <2> QED BY <2>1, <2>2
<1>4. CASE inflight = Sub /\ part \in {[open |-> 1, last |-> answer, token |-> t] : t \in {None, answer}}
  BY <1>1, <1>4
<1>5. CASE inflight # Sub /\ part \in {[open |-> 1, last |-> asked, token |-> t] : t \in {0, answer}}
  BY <1>1, <1>5
<1> QED BY <1>2, <1>3, <1>4, <1>5 DEF Parts

LEMMA CutInv ==
    ASSUME IInv, answer # None, NEW part \in Parts, NEW adds \in Batches, Cut(part, adds)
    PROVE  IInv'
<1>1. /\ ~used /\ used' = used /\ inflight # None /\ inflight' = None /\ answer' = None
      /\ UNCHANGED <<log, asked, listened>> /\ spoiled' = spoiled \cup {inflight}
      /\ pending' = pending \o adds /\ Run(Commands(part.last), part.token, adds)
      /\ timeToken' = IF part.token = None THEN timeToken ELSE Kept(part.token)
      /\ level[inflight] + part.open <= MaxLevel /\ Levels(adds, part.open)
  BY DEF Cut, DeliverAndLose
<1>2. /\ answer \in Nat /\ answer <= Len(log) /\ part.open \in Nat /\ part.last \in Nat
      /\ part.token \in {None, 0, answer}
      /\ inflight = Sub => /\ part.last <= answer
                           /\ part.token # None => part.token = answer /\ part.last = answer
  BY Basics, PartFacts
<1>3. /\ outstanding' \in 0..MaxOutstanding /\ atCmdPending' \in BOOLEAN /\ booted' = booted
      /\ adds \in Seq(Requests) /\ Elements(adds) \subseteq Pubs
      /\ ran' \in [Messages -> 0..2]
      /\ \A m \in Messages :
            /\ m \in Commands(part.last) => ran'[m] > 0 /\ m <= part.last /\ inflight = Sub /\ m > asked
            /\ m \notin Commands(part.last) => ran'[m] = ran[m]
      /\ inflight = Sub /\ asked # 0 => Commands(part.last) = asked + 1..part.last
  BY <1>1, <1>2, RunFacts
<1>4. /\ Fits(pending') /\ pending' # <<>> /\ Head(pending') = Head(pending)
      /\ inflight = Head(pending) /\ SubAhead' = SubAhead /\ (SubAhead <=> inflight = Sub)
      /\ (inflight # Sub => inflight \in Pubs) /\ inflight \in Requests
  BY <1>1, <1>3, QueueConcat, Basics DEF SubAhead
<1>5. /\ timeToken' \in {timeToken, 0, answer}
      /\ inflight = Sub => timeToken' = timeToken \/ (timeToken' = answer /\ part.last = answer)
  BY <1>1, <1>2 DEF Kept
<1>6. ran \in [Messages -> 0..2] /\ Messages = 1..MaxLog
  BY DEF IInv, ChannelTypeOK, Messages
<1>7. level' \in [Requests -> 0..MaxLevel] /\ \A r \in Requests \ {inflight} : level[r] = 0 => level'[r] = 0
  <2>1. level \in [Requests -> 0..MaxLevel] /\ 0 \in 0..MaxLevel
    BY Basics DEF IInv, ChannelTypeOK
  <2>2. level[inflight] + part.open \in 0..MaxLevel
    BY <1>1, <1>2, <1>4, <2>1, Basics, SMTT(30)
  <2> QED BY <1>1, <2>1, <2>2 DEF Levels
<1>8. ChannelTypeOK'
  <2>1. timeToken' \in 0..Len(log)
    BY <1>2, <1>5, Basics
  <2>2. booted' \in BOOLEAN /\ used' \in BOOLEAN /\ spoiled' \subseteq Requests
    BY <1>1, <1>3, <1>4 DEF IInv, ChannelTypeOK
  <2> QED BY <1>1, <1>3, <1>4, <1>7, <2>1, <2>2 DEF IInv, ChannelTypeOK, Fits
<1>9. Queue'
  BY <1>1, <1>3, <1>4 DEF IInv, Queue, Fits
<1>10. LevelsOfSpoiled'
  BY <1>1, <1>7 DEF IInv, LevelsOfSpoiled
<1>11. Answered'
  <2>1. \A m \in Messages : ran'[m] > 0 => m <= Len(log)
    <3> SUFFICES ASSUME NEW m \in Messages, ran'[m] > 0 PROVE m <= Len(log)
      OBVIOUS
    <3>1. CASE m \in Commands(part.last)
      BY <3>1, <1>2, <1>3, <1>6, Basics
    <3>2. CASE m \notin Commands(part.last)
      BY <3>2, <1>3 DEF IInv, Answered
    <3> QED BY <3>1, <3>2
  <2> QED BY <1>1, <2>1, Basics DEF Answered, Pubs
<1>12. Awaited'
  <2> SUFFICES ASSUME NEW m \in listened, ran'[m] = 0
               PROVE  SubAhead /\ asked # 0 /\ asked < m /\ timeToken' < m
    BY <1>1, <1>4 DEF Awaited
  <2>1. m \in Messages /\ m \in Nat
    BY <1>6, Basics DEF IInv, ChannelTypeOK
  <2>2. m \notin Commands(part.last) /\ ran[m] = 0
    BY <2>1, <1>3
  <2>3. SubAhead /\ asked # 0 /\ asked < m /\ timeToken < m
    BY <2>2 DEF IInv, Awaited
  <2>4. inflight = Sub /\ m <= answer
    BY <2>3, <1>1, <1>4 DEF IInv, Answered
  <2>5. ~(m <= part.last)
    BY <2>1, <2>2, <2>3, <2>4, <1>2, <1>3, Basics
  <2>6. timeToken' = timeToken
    BY <2>4, <2>5, <1>5
  <2> QED BY <2>3, <2>6
<1>13. RunOnce'
  <2> SUFFICES ASSUME Sub \notin spoiled', NEW m \in Messages
               PROVE  ran'[m] <= 1 /\ (ran'[m] = 1 => timeToken' = 0 \/ m <= timeToken') /\ ~SubAhead
    BY <1>4 DEF RunOnce
  <2>1. inflight # Sub /\ Sub \notin spoiled /\ ~SubAhead
    BY <1>1, <1>4
  <2>2. ran'[m] = ran[m]
    BY <2>1, <1>3
  <2>3. ran[m] <= 1 /\ (ran[m] = 1 => timeToken = 0 \/ m <= timeToken)
    BY <2>1 DEF IInv, RunOnce
  <2>4. ran[m] = 1 => m <= answer
    BY DEF IInv, Answered
  <2> QED BY <2>1, <2>2, <2>3, <2>4, <1>5
<1>14. Passed'
  <2> SUFFICES ASSUME spoiled' \subseteq {Sub}
               PROVE  /\ asked >= 1 /\ asked <= timeToken'
                      /\ \A m \in 1..Len(log) :
                            IF log[m] = "console" THEN ran'[m] = 0 /\ m <= asked
                            ELSE ran'[m] = 0 /\ m <= timeToken' =>
                                    \E n \in m + 1..timeToken' : log[n] = "console"
    BY <1>1, <1>4 DEF Passed
  <2>1. spoiled \subseteq {Sub} /\ inflight = Sub /\ SubAhead
    BY <1>1, <1>4
  <2>2. /\ asked >= 1 /\ asked <= timeToken
        /\ \A m \in 1..Len(log) :
            IF log[m] = "console" THEN ran[m] = 0 /\ m <= asked
            ELSE ran[m] = 0 /\ m <= timeToken => \E n \in m + 1..timeToken : log[n] = "console"
    BY <2>1 DEF IInv, Passed
  <2>3. asked <= timeToken' /\ asked <= answer /\ timeToken <= answer
    BY <2>1, <2>2, <1>1, <1>5 DEF IInv, Answered
  <2>4. ASSUME NEW m \in 1..Len(log)
        PROVE  IF log[m] = "console" THEN ran'[m] = 0 /\ m <= asked
               ELSE ran'[m] = 0 /\ m <= timeToken' => \E n \in m + 1..timeToken' : log[n] = "console"
    <3>1. m \in Messages /\ m \in Nat
      BY <1>6, Basics
    <3>2. CASE log[m] = "console"
      <4>1. ran[m] = 0 /\ m <= asked
        BY <3>2, <2>2
      <4>2. m \notin Commands(part.last)
        BY <4>1, <3>1, <1>3, Basics
      <4> QED BY <3>1, <3>2, <4>1, <4>2, <1>3
    <3>3. CASE log[m] # "console" /\ ran'[m] = 0 /\ m <= timeToken'
      <4>1. m \notin Commands(part.last) /\ ran[m] = 0
        BY <3>1, <3>3, <1>3
      <4>2. m <= timeToken
        <5>1. CASE timeToken' = timeToken
          BY <5>1, <3>3
        <5>2. CASE timeToken' = answer /\ part.last = answer
          BY <5>2, <4>1, <3>1, <3>3, <2>1, <2>2, <1>2, <1>3, Basics
        <5> QED BY <5>1, <5>2, <2>1, <1>5
      <4>3. PICK n \in m + 1..timeToken : log[n] = "console"
        BY <4>1, <4>2, <3>3, <2>2
      <4>4. n \in m + 1..timeToken'
        BY <4>3, <3>1, <2>1, <2>3, <1>2, <1>5, Basics
      <4> QED BY <4>3, <4>4, <3>3
    <3> QED BY <3>2, <3>3
  <2> QED BY <2>2, <2>3, <2>4
<1> QED BY <1>8, <1>9, <1>10, <1>11, <1>12, <1>13, <1>14 DEF IInv

LEMMA DoneInv ==
    ASSUME IInv, Done
    PROVE  IInv'
<1>1. /\ used /\ used' = FALSE /\ answer' = None /\ inflight' = None
      /\ pending # <<>> /\ inflight = Head(pending)
      /\ UNCHANGED <<log, console, timeToken, level, ran, listened, spoiled>>
      /\ \/ pending' = Tail(pending) \o <<>> /\ asked' = asked
         \/ Len(pending) = 1 /\ pending' = Tail(pending) \o <<Sub>> /\ asked' = timeToken
  <2>1. CASE Len(pending) = 1 /\ ~atCmdPending
    BY <2>1, ChannelAssumption, <<Sub>> # <<>> DEF Done, Complete
  <2>2. CASE ~(Len(pending) = 1 /\ ~atCmdPending)
    BY <2>2 DEF Done, Complete
  <2> QED BY <2>1, <2>2
<1>2. /\ answer # None /\ inflight # None /\ answer \in Nat /\ answer <= Len(log)
      /\ (SubAhead <=> inflight = Sub) /\ (inflight # Sub => inflight \in Pubs)
  BY <1>1, Basics DEF IInv, Queue
<1>3. Fits(pending') /\ (SubAhead' => asked' = timeToken)
  BY <1>1, QueueDone, Basics DEF SubAhead
<1>4. booted \in BOOLEAN /\ booted # FALSE
  BY <1>1 DEF IInv, Queue, ChannelTypeOK
<1>5. asked' \in 0..Len(log)
  BY <1>1, Basics
<1>6. ChannelTypeOK'
  BY <1>1, <1>3, <1>5 DEF IInv, ChannelTypeOK, Fits, console
<1>7. Queue'
  BY <1>1, <1>3, <1>4 DEF IInv, Queue, Fits, console
<1>8. LevelsOfSpoiled'
  BY <1>1 DEF IInv, LevelsOfSpoiled
<1>9. Answered'
  BY <1>1, Basics DEF IInv, Answered, Pubs
<1>10. Awaited'
  BY <1>1, <1>2 DEF IInv, Awaited
<1>11. RunOnce'
  BY <1>1, <1>3 DEF IInv, RunOnce
<1>12. Passed'
  <2> SUFFICES ASSUME spoiled \subseteq {Sub}, SubAhead'
               PROVE  /\ timeToken >= 1
                      /\ \A m \in 1..Len(log) : log[m] = "console" => m <= timeToken
    <3>1. spoiled \subseteq {Sub} =>
            \A m \in 1..Len(log) :
                IF log[m] = "console" THEN ran[m] = 0
                ELSE ran[m] = 0 /\ m <= timeToken => \E n \in m + 1..timeToken : log[n] = "console"
      BY DEF IInv, Passed
    <3> QED BY <3>1, <1>1, <1>3, Basics DEF Passed
  <2>1. CASE inflight = Sub
    BY <2>1, <1>2, Basics DEF IInv, Passed
  <2>2. CASE inflight \in Pubs
    BY <2>2, <1>1, <1>2 DEF IInv, Passed, Answered
  <2> QED BY <2>1, <2>2, <1>2
<1> QED BY <1>6, <1>7, <1>8, <1>9, <1>10, <1>11, <1>12 DEF IInv

------------------------------------------------------------------------------
(* The theorems.                                                                *)

\* What follows from the invariant.
LEMMA IInvImplies ==
    ASSUME IInv
    PROVE  ListenedIsRun /\ PassedByResponsesOnly /\ TwiceOnlyWhenCut
<1>1. ListenedIsRun
  <2> SUFFICES ASSUME NEW m \in listened, timeToken >= m, ~(ran[m] > 0) PROVE FALSE
    BY DEF ListenedIsRun
  <2>1. m \in Messages /\ m \in Nat /\ ran[m] \in 0..2
    <3>1. ChannelTypeOK /\ Len(log) \in Nat /\ MaxLog \in Nat
      BY Basics, ChannelAssumption DEF IInv
    <3>2. m \in 1..Len(log) /\ Len(log) <= MaxLog
      BY <3>1 DEF ChannelTypeOK
    <3>3. m \in Messages /\ m \in Nat
      BY <3>1, <3>2 DEF Messages
    <3> QED BY <3>1, <3>3 DEF ChannelTypeOK
  <2>2. ran[m] = 0
    BY <2>1
  <2> QED BY <2>1, <2>2, Basics DEF IInv, Awaited
<1>2. PassedByResponsesOnly
  BY DEF IInv, Passed, PassedByResponsesOnly
<1>3. TwiceOnlyWhenCut
  BY DEF IInv, RunOnce, TwiceOnlyWhenCut, ChannelTypeOK
<1> QED BY <1>1, <1>2, <1>3

LEMMA InitInv ==
    ASSUME ChannelInit
    PROVE  IInv
<1> USE DEF ChannelInit, Init
<1>1. log = <<>> /\ Len(log) = 0 /\ 0 \in 0..MaxOutstanding /\ 0 \in 0..MaxLevel /\ 0 \in Nat
  BY ChannelAssumption
<1>2. ChannelTypeOK
  <2>1. pending \in Seq(Requests) /\ log \in Seq({"user", "console"})
    OBVIOUS
  <2>2. Len(log) <= MaxLog
    BY <1>1, ChannelAssumption
  <2>3. level \in [Requests -> 0..MaxLevel] /\ ran \in [Messages -> 0..2]
    BY <1>1
  <2>4. /\ inflight \in Requests \cup {None} /\ outstanding \in 0..MaxOutstanding
        /\ booted \in BOOLEAN /\ atCmdPending \in BOOLEAN /\ used \in BOOLEAN
    BY <1>1
  <2>5. /\ timeToken \in 0..Len(log) /\ asked \in 0..Len(log)
        /\ answer \in 0..Len(log) \cup {None}
        /\ listened \subseteq 1..Len(log) /\ spoiled \subseteq Requests
    BY <1>1
  <2> QED BY ONLY <2>1, <2>2, <2>3, <2>4, <2>5 DEF ChannelTypeOK
<1>3. Queue /\ LevelsOfSpoiled
  BY DEF Queue, LevelsOfSpoiled, SubOnlyFirst
<1>4. Answered /\ Awaited
  BY ChannelAssumption DEF Answered, Awaited, Pubs
<1>5. RunOnce /\ Passed
  BY <1>1, ChannelAssumption DEF RunOnce, Passed, SubAhead, Pubs
<1> QED BY <1>2, <1>3, <1>4, <1>5 DEF IInv

LEMMA StepInv ==
    ASSUME IInv, [ChannelNext]_cvars
    PROVE  IInv'
<1>1. CASE UserPublishes
  BY <1>1, UserPublishesInv
<1>2. CASE AnswerPublish
  BY <1>2, AnswerPublishInv
<1>3. CASE AnswerSubscribe
  BY <1>3, AnswerSubscribeInv
<1>4. CASE \E p \in Pubs : Boot(p) \/ AtResponse(p)
  BY <1>4, BootInv
<1>5. CASE Send
  BY <1>5, SendInv
<1>6. CASE Break
  BY <1>6, BreakInv
<1>7. CASE Done
  BY <1>7, DoneInv
<1>8. CASE \E adds \in Batches : Use(adds)
  BY <1>8, UseInv
<1>9. CASE answer # None /\ \E part \in Parts, adds \in Batches : Cut(part, adds)
  BY <1>9, CutInv
<1>10. CASE UNCHANGED cvars
  BY <1>10 DEF cvars, avars, chan, console, IInv, ChannelTypeOK, Queue, LevelsOfSpoiled, Answered,
               Awaited, RunOnce, Passed, SubAhead, SubOnlyFirst
<1> QED BY <1>1, <1>2, <1>3, <1>4, <1>5, <1>6, <1>7, <1>8, <1>9, <1>10 DEF ChannelNext

\* The inductive invariant of the console on its channel, for any requests, any commands in a
\* reply and any number of messages: pubnub.c and pubnub_at.c on a queue as AtLeastOnce.
THEOREM ChannelInvariant == ChannelSpec => []IInv
<1>1. ChannelInit => IInv
  BY InitInv
<1>2. IInv /\ [ChannelNext]_cvars => IInv'
  BY StepInv
<1> QED BY <1>1, <1>2, PTL DEF ChannelSpec

\* Every variable of the channel and the console keeps its type; in particular a time token
\* that json_string keeps is one of the channel's.
THEOREM ChannelTypeCorrect == ChannelSpec => []ChannelTypeOK
<1>1. IInv => ChannelTypeOK
  BY DEF IInv
<1> QED BY <1>1, ChannelInvariant, PTL

\* A command published while the console waits for one is run before its token is passed
\* (subscribe_callback, json_string), whatever was lost or cut meanwhile.
THEOREM ListenedRunsFirst == ChannelSpec => []ListenedIsRun
<1>1. IInv => ListenedIsRun
  BY IInvImplies
<1> QED BY <1>1, ChannelInvariant, PTL

\* As long as no reply to a publication was cut, only a response of the console's own makes it
\* pass over a command, and no response is ever run as one (json_string, pubnub_atSubscribe).
THEOREM PassedOnlyByResponses == ChannelSpec => []PassedByResponsesOnly
<1>1. IInv => PassedByResponsesOnly
  BY IInvImplies
<1> QED BY <1>1, ChannelInvariant, PTL

\* A command runs twice only when a reply to a subscription was used and its end was lost
\* (vhttpc_req_retry sends the same text again).
THEOREM TwiceOnlyCut == ChannelSpec => []TwiceOnlyWhenCut
<1>1. IInv => TwiceOnlyWhenCut
  BY IInvImplies
<1> QED BY <1>1, ChannelInvariant, PTL
===============================================================================
