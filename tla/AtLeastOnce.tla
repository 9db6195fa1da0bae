----------------------------- MODULE AtLeastOnce -----------------------------
(***************************************************************************)
(* What the HTTP client promises to the code that queues requests on it,   *)
(* without connections, timers or bytes: requests are kept in the order    *)
(* they were added, the one at the head is transmitted, as often as it     *)
(* takes, and it leaves the queue only when the peer has answered that     *)
(* very transmission.  Nothing is ever dropped, overtaken or answered by   *)
(* the reply to another request.                                           *)
(***************************************************************************)
EXTENDS Naturals, Sequences

CONSTANTS Requests,     \* the requests that can be queued
          Batches,      \* the sequences of requests one callback may add
          None          \* "no transmission awaits an answer"

VARIABLES pending,      \* the queue, oldest first
          inflight      \* the request the peer is answering, or None

avars == <<pending, inflight>>

Init == pending = <<>> /\ inflight = None

\* A request is added behind the others.
Submit(r) ==
    /\ pending' = Append(pending, r)
    /\ UNCHANGED inflight

\* The head goes out completely; a queue that was empty may take the request
\* and send it in one go.
Transmit ==
    /\ pending # <<>>
    /\ inflight = None
    /\ inflight' = Head(pending)
    /\ UNCHANGED pending

SubmitAndTransmit(r) ==
    /\ pending = <<>>
    /\ inflight = None
    /\ pending' = <<r>>
    /\ inflight' = r

\* The connection breaks, or the reply is unusable: the answer will not come.
Lose ==
    /\ inflight # None
    /\ inflight' = None
    /\ UNCHANGED pending

\* Part of the reply arrives and its contents make the owner add requests.
Deliver(adds) ==
    /\ inflight # None
    /\ pending' = pending \o adds
    /\ UNCHANGED inflight

\* Contents that the owner refuses, after it acted on them.
DeliverAndLose(adds) ==
    /\ inflight # None
    /\ pending' = pending \o adds
    /\ inflight' = None

\* The head has its answer and leaves; its owner may add requests.
Complete(adds) ==
    /\ pending # <<>>
    /\ inflight = Head(pending)
    /\ pending' = Tail(pending) \o adds
    /\ inflight' = None

Next ==
    \/ \E r \in Requests : Submit(r) \/ SubmitAndTransmit(r)
    \/ Transmit
    \/ Lose
    \/ \E adds \in Batches : Deliver(adds) \/ DeliverAndLose(adds) \/ Complete(adds)

Spec == Init /\ [][Next]_avars

\* The queue drains, or its head keeps completing: as it is first in first
\* out, every request queued is eventually answered.
Progress ==
    \/ []<>(pending = <<>>)
    \/ []<><<\E adds \in Batches : Complete(adds)>>_avars
==============================================================================
