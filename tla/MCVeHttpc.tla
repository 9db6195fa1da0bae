------------------------------ MODULE MCVeHttpc ------------------------------
(* Model checking of VeHttpc: three requests, callbacks that add up to two.    *)
EXTENDS VeHttpc

CONSTANTS r1, r2, r3

MCRequests == {r1, r2, r3}
MCBatches == {<<>>} \cup {<<r>> : r \in MCRequests}
             \cup {<<p[1], p[2]>> : p \in {q \in MCRequests \X MCRequests : q[1] # q[2]}}

MCAllFaults ==
    {"create_fails", "connect_fails", "slow_connect", "short_write", "write_fails",
     "reset", "peer_close", "mute", "slow_peer", "malformed", "data_rejected",
     "idle_timeout"} \cup UnhandledFaults

==============================================================================
