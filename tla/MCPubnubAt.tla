----------------------------- MODULE MCPubnubAt ------------------------------
(* Model checking of PubnubAt: the subscribe request and three publish         *)
(* requests, so that the responses of two commands can wait behind each other. *)
EXTENDS PubnubAt, TLC

CONSTANTS sub, p1, p2, p3

MCRequests == {sub, p1, p2, p3}
\* The orders of three responses: a listing, or a listing and another command.
Permuted(S) == {q \in [1..3 -> S] : Cardinality({q[1], q[2], q[3]}) = 3}

MCBatches == {<<>>} \cup {<<r>> : r \in MCRequests}
             \cup {<<q[1], q[2]>> : q \in {x \in {p1, p2, p3} \X {p1, p2, p3} : x[1] # x[2]}}
             \cup Permuted({p1, p2, p3})

MCAllFaults ==
    {"create_fails", "connect_fails", "slow_connect", "short_write", "write_fails",
     "reset", "peer_close", "mute", "slow_peer", "malformed", "data_rejected",
     "idle_timeout"} \cup UnhandledFaults

MCHandledFaults == MCAllFaults \ UnhandledFaults

MCSymmetry == Permutations({p1, p2, p3})
==============================================================================
