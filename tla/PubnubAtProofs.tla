--------------------------- MODULE PubnubAtProofs ---------------------------
(* Proofs about the HTTP client and the console on top of it.                   *)
(*                                                                              *)
(* The first part is about VeHttpc alone, for any requests, faults and number   *)
(* of faults; the second about PubnubAt, for any commands as well.  A step of   *)
(* the console is one of the client's, so the first part carries the second.    *)
EXTENDS PubnubAt, SequenceTheorems, FiniteSetTheorems, TLAPS

------------------------------------------------------------------------------
(* The inductive invariant.  The three safety properties do not carry           *)
(* themselves: they need to know what the receive loop and a raised error flag  *)
(* say about the channel, and that a request on its way out finds the parser    *)
(* rewound.                                                                     *)

\* The receive loop runs on a channel that was open when it began; an error in
\* it has shut the channel down.
RxHasChannel ==
    rx => /\ socket \in {"connected", "shut"}
          /\ error => socket = "shut"

\* On a channel in working order the error flag can only be the left-over that
\* keeps the client from sending.
ErrorShutsChannel == error /\ socket = "connected" => state = "sending"

\* A request that has not gone out yet finds the parser at the start of a reply.
ParserRewound == state \in {"open", "sending"} => parseState = "http"

IInv ==
    /\ TypeOK
    /\ SocketFollowsState
    /\ BusyHasRequest
    /\ AnswerIsForHead
    /\ RxHasChannel
    /\ ErrorShutsChannel
    /\ ParserRewound

------------------------------------------------------------------------------
(* Sequences.                                                                   *)

LEMMA TailConcat ==
    ASSUME NEW s \in Seq(Requests), NEW t \in Seq(Requests), s # <<>>
    PROVE  Tail(s) \o t \in Seq(Requests)
OBVIOUS

LEMMA HeadConcat ==
    ASSUME NEW s \in Seq(Requests), NEW t \in Seq(Requests), s # <<>>
    PROVE  /\ s \o t \in Seq(Requests)
           /\ s \o t # <<>>
           /\ Head(s \o t) = Head(s)
OBVIOUS

LEMMA HeadAppend ==
    ASSUME NEW s \in Seq(Requests), NEW r \in Requests
    PROVE  /\ Append(s, r) \in Seq(Requests)
           /\ Append(s, r) # <<>>
           /\ Head(Append(s, r)) = IF s = <<>> THEN r ELSE Head(s)
<1>1. /\ Append(s, r) \in Seq(Requests) /\ Append(s, r) # <<>>
      /\ Append(s, r)[1] = IF Len(s) = 0 THEN r ELSE s[1]
  BY AppendProperties
<1>2. s = <<>> <=> Len(s) = 0
  OBVIOUS
<1>3. /\ Head(Append(s, r)) = Append(s, r)[1]
      /\ s # <<>> => Head(s) = s[1]
  BY <1>1
<1> QED BY <1>1, <1>2, <1>3

LEMMA HeadType ==
    ASSUME NEW s \in Seq(Requests), s # <<>>
    PROVE  Head(s) \in Requests
OBVIOUS

LEMMA SpendType ==
    ASSUME TypeOK, NEW f, Spend(f)
    PROVE  budget' \in 0..MaxFaults
BY MaxFaultsAssumption DEF TypeOK, Spend

------------------------------------------------------------------------------
(* The flags stay flags.  (Apart from the rest, which needs arithmetic.)        *)

Flags ==
    /\ error \in BOOLEAN
    /\ tmr \in BOOLEAN
    /\ rx \in BOOLEAN
    /\ stalled \in BOOLEAN

LEMMA SendFlags ==
    ASSUME Flags, NEW r, NEW s, NEW t \in BOOLEAN, NEW short, NEW broken,
           Send(r, s, t, short, broken)
    PROVE  tmr' \in BOOLEAN /\ stalled' \in BOOLEAN
<1>1. CASE Connect
  BY <1>1 DEF Flags, Connect
<1>2. CASE Transmit(r, s, t, short, broken)
  BY <1>2 DEF Flags, Transmit, WriteAll, WritePart, WriteFails
<1> QED BY <1>1, <1>2 DEF Send

LEMMA HandleErrorFlags ==
    ASSUME Flags, HandleError
    PROVE  tmr' \in BOOLEAN /\ error' \in BOOLEAN
<1>1. CASE reqQueue = <<>>
  BY <1>1 DEF Flags, HandleError
<1>2. CASE reqQueue # <<>>
  BY <1>2 DEF Flags, HandleError
<1> QED BY <1>1, <1>2

LEMMA NextFlags ==
    ASSUME Flags, [Next]_vars
    PROVE  Flags'
<1> USE DEF Flags, network, httpc
<1>1. ASSUME NEW r \in Requests, Add(r) PROVE Flags'
  <2>1. error' \in BOOLEAN /\ rx' \in BOOLEAN
    BY <1>1 DEF Add
  <2>2. CASE reqQueue = <<>> /\ state = "idle"
    BY <1>1, <2>1, <2>2, SendFlags DEF Add
  <2>3. CASE ~(reqQueue = <<>> /\ state = "idle")
    BY <1>1, <2>1, <2>3 DEF Add
  <2> QED BY <2>2, <2>3
<1>2. CASE TcpOpen
  BY <1>2 DEF TcpOpen
<1>3. CASE TcpWrite
  BY <1>3 DEF TcpWrite, Transmit, WriteAll, WritePart, WriteFails
<1>4. CASE TcpRead
  BY <1>4 DEF TcpRead
<1>5. CASE ParseHead
  BY <1>5 DEF ParseHead
<1>6. CASE Callback
  BY <1>6 DEF Callback, ParseContent, ParseRejected, ParseDone, FailRequest
<1>7. CASE ParseMalformed \/ ParseTrailing \/ TcpStray
  BY <1>7 DEF ParseMalformed, ParseTrailing, TcpStray, Junk, FailRequest
<1>8. CASE ReadEnd
  <2>1. error' \in BOOLEAN /\ rx' \in BOOLEAN
    BY <1>8 DEF ReadEnd
  <2>2. CASE parseState # "done"
    BY <1>8, <2>1, <2>2 DEF ReadEnd
  <2>3. CASE parseState = "done" /\ reqQueue = <<>>
    BY <1>8, <2>1, <2>3 DEF ReadEnd
  <2>4. CASE parseState = "done" /\ reqQueue # <<>>
    BY <1>8, <2>1, <2>4, SendFlags DEF ReadEnd
  <2> QED BY <2>2, <2>3, <2>4
<1>9. CASE TcpError
  BY <1>9, HandleErrorFlags DEF TcpError, DropSocket
<1>10. CASE TcpPeerClose
  <2>1. CASE state = "idle"
    BY <1>10, <2>1 DEF TcpPeerClose, DropSocket
  <2>2. CASE state # "idle"
    BY <1>10, <2>2, HandleErrorFlags DEF TcpPeerClose, DropSocket
  <2> QED BY <2>1, <2>2
<1>11. CASE PeerMute
  BY <1>11 DEF PeerMute
<1>12. CASE TimeoutRetry
  BY <1>12, SendFlags DEF TimeoutRetry
<1>13. CASE TimeoutOpen
  BY <1>13 DEF TimeoutOpen
<1>14. CASE TimeoutFails
  BY <1>14 DEF TimeoutFails, FailRequest
<1>15. CASE UNCHANGED vars
  BY <1>15 DEF vars
<1> QED BY <1>1, <1>2, <1>3, <1>4, <1>5, <1>6, <1>7, <1>8, <1>9, <1>10, <1>11, <1>12, <1>13,
           <1>14, <1>15 DEF Next

------------------------------------------------------------------------------
(* Every handler preserves it.                                                  *)

LEMMA InitIInv == Init => IInv
<1>1. <<>> \in Seq(Requests)
  BY EmptySeq
<1>2. Init => Flags
  BY DEF Init, Flags
<1> QED
  BY <1>1, <1>2, MaxFaultsAssumption, NoneAssumption
  DEF Init, Flags, IInv, TypeOK, SocketFollowsState, BusyHasRequest, AnswerIsForHead, RxHasChannel,
      ErrorShutsChannel, ParserRewound, States, Sockets, ParseStates

LEMMA AddPreserves ==
    ASSUME IInv, Flags', NEW r \in Requests, Add(r)
    PROVE  IInv'
<1> USE DEF IInv, Flags, TypeOK, SocketFollowsState, BusyHasRequest, AnswerIsForHead, RxHasChannel,
            ErrorShutsChannel, ParserRewound, States, Sockets, ParseStates
<1>1. /\ reqQueue' \in Seq(Requests) /\ reqQueue' # <<>>
      /\ Head(reqQueue') = IF reqQueue = <<>> THEN r ELSE Head(reqQueue)
  BY HeadAppend DEF Add
<1>2. CASE reqQueue = <<>> /\ state = "idle"
  <2>1. Send(r, "idle", tmr, "short_write_idle", "write_fails_idle")
    BY <1>2 DEF Add
  <2>2. CASE Connect
    BY <1>1, <1>2, <2>1, <2>2, MaxFaultsAssumption DEF Add, Send, Connect, Spend, NoFault
  <2>3. CASE socket # "none" /\ WriteAll(r) /\ state' = "parsing" /\ tmr' = TRUE
    BY <1>1, <1>2, <2>1, <2>3, NoneAssumption DEF Add, Send, WriteAll, NoFault
  <2>4. CASE /\ socket # "none" /\ WritePart("short_write_idle")
             /\ state' = "idle" /\ tmr' = tmr
    BY <1>1, <1>2, <2>1, <2>4, MaxFaultsAssumption DEF Add, Send, WritePart, Spend
  <2>5. CASE /\ socket # "none" /\ WriteFails("write_fails_idle")
             /\ state' = "idle" /\ tmr' = tmr
    BY <1>1, <1>2, <2>1, <2>5, MaxFaultsAssumption DEF Add, Send, WriteFails, Spend, NoFault
  <2> QED BY <2>1, <2>2, <2>3, <2>4, <2>5 DEF Send, Transmit
<1>3. CASE ~(reqQueue = <<>> /\ state = "idle")
  BY <1>1, <1>3 DEF Add, network
<1> QED BY <1>2, <1>3

LEMMA ReadPreserves ==
    ASSUME IInv, Flags', TcpRead
    PROVE  IInv'
<1>1. ~error /\ socket = "connected" /\ state = "parsing"
  BY DEF IInv, AnswerIsForHead, TcpRead
<1>2. rx' /\ UNCHANGED <<state, reqQueue, error, socket, parseState, tmr, wire, stalled, budget>>
  BY DEF TcpRead, network
<1>3. TypeOK'
  BY <1>2 DEF IInv, TypeOK, Flags
<1>4. SocketFollowsState' /\ AnswerIsForHead' /\ ErrorShutsChannel' /\ ParserRewound'
  BY <1>2 DEF IInv, SocketFollowsState, AnswerIsForHead, ErrorShutsChannel, ParserRewound
<1>5. BusyHasRequest'
  BY <1>2 DEF IInv, BusyHasRequest, TcpRead
<1>6. RxHasChannel'
  BY <1>1, <1>2 DEF RxHasChannel
<1> QED BY <1>3, <1>4, <1>5, <1>6 DEF IInv

LEMMA ClosePreserves ==
    ASSUME IInv, Flags', budget' \in 0..MaxFaults, ~rx,
           DropSocket, HandleError, UNCHANGED <<reqQueue, parseState, rx>>
    PROVE  IInv'
<1> USE DEF IInv, TypeOK, Flags, SocketFollowsState, BusyHasRequest, AnswerIsForHead,
            RxHasChannel, ErrorShutsChannel, ParserRewound, States, Sockets, DropSocket
<1>1. CASE reqQueue = <<>>
  BY <1>1 DEF HandleError
<1>2. CASE reqQueue # <<>>
  BY <1>2 DEF HandleError
<1> QED BY <1>1, <1>2

LEMMA TcpErrorBudget ==
    ASSUME TypeOK, TcpError
    PROVE  budget' \in 0..MaxFaults
<1>1. CASE socket = "shut"
  BY <1>1 DEF TypeOK, TcpError, NoFault
<1>2. CASE socket = "connecting"
  BY <1>2, SpendType DEF TcpError
<1>3. CASE socket = "connected"
  BY <1>3, SpendType DEF TcpError
<1> QED BY <1>1, <1>2, <1>3 DEF TypeOK, TcpError, Sockets

LEMMA TcpPreserves ==
    ASSUME IInv, Flags', TcpOpen \/ TcpWrite \/ TcpError \/ TcpPeerClose \/ PeerMute
    PROVE  IInv'
<1> USE MaxFaultsAssumption, NoneAssumption
    DEF IInv, Flags, TypeOK, SocketFollowsState, BusyHasRequest, AnswerIsForHead, RxHasChannel,
        ErrorShutsChannel, ParserRewound, States, Sockets, ParseStates, network, httpc,
        Spend, NoFault
<1>1. CASE TcpOpen
  BY <1>1 DEF TcpOpen
<1>2. CASE TcpWrite
  BY <1>2, HeadType DEF TcpWrite, Transmit, WriteAll, WritePart, WriteFails
<1>3. CASE TcpError
  <2>1. budget' \in 0..MaxFaults
    BY ONLY IInv, <1>3, TcpErrorBudget DEF IInv
  <2> QED BY ONLY IInv, Flags', <1>3, <2>1, ClosePreserves DEF TcpError
<1>4. CASE TcpPeerClose
  BY <1>4 DEF TcpPeerClose, DropSocket, HandleError
<1>5. CASE PeerMute
  BY <1>5 DEF PeerMute
<1> QED BY <1>1, <1>2, <1>3, <1>4, <1>5

LEMMA ParsePreserves ==
    ASSUME IInv, Flags', ParseHead \/ ParseMalformed \/ ParseTrailing \/ TcpStray \/ ReadEnd
    PROVE  IInv'
<1> USE MaxFaultsAssumption, NoneAssumption
    DEF IInv, Flags, TypeOK, SocketFollowsState, BusyHasRequest, AnswerIsForHead, RxHasChannel,
        ErrorShutsChannel, ParserRewound, States, Sockets, ParseStates, network,
        Spend, NoFault, Parsing, FailRequest
<1>1. CASE ParseHead
  BY <1>1 DEF ParseHead
<1>2. CASE ParseMalformed
  BY <1>2 DEF ParseMalformed
<1>3. CASE ParseTrailing
  BY <1>3 DEF ParseTrailing, Junk
<1>4. CASE TcpStray
  BY <1>4 DEF TcpStray, Junk
<1>5. CASE ReadEnd
  <2>1. CASE parseState # "done"
    BY <1>5, <2>1 DEF ReadEnd
  <2>2. CASE parseState = "done" /\ reqQueue = <<>>
    BY <1>5, <2>2 DEF ReadEnd
  <2>3. CASE parseState = "done" /\ reqQueue # <<>>
    BY <1>5, <2>3, HeadType
    DEF ReadEnd, Send, Connect, Transmit, WriteAll, WritePart, WriteFails
  <2> QED BY <2>1, <2>2, <2>3
<1> QED BY <1>1, <1>2, <1>3, <1>4, <1>5

LEMMA CallbackPreserves ==
    ASSUME IInv, Flags', Callback
    PROVE  IInv'
<1> USE MaxFaultsAssumption, NoneAssumption
    DEF IInv, Flags, TypeOK, SocketFollowsState, BusyHasRequest, AnswerIsForHead, RxHasChannel,
        ErrorShutsChannel, ParserRewound, States, Sockets, ParseStates, network,
        Spend, NoFault, Parsing, FailRequest
<1>1. PICK adds \in Batches : ParseContent(adds) \/ ParseRejected(adds) \/ ParseDone(adds)
  BY DEF Callback
<1>2. adds \in Seq(Requests) /\ reqQueue \in Seq(Requests) /\ reqQueue # <<>>
  BY <1>1, BatchesAssumption DEF ParseContent, ParseRejected, ParseDone
<1>3. CASE ParseContent(adds)
  <2>1. /\ reqQueue' \in Seq(Requests) /\ reqQueue' # <<>>
        /\ Head(reqQueue') = Head(reqQueue)
    BY <1>2, <1>3, HeadConcat DEF ParseContent
  <2> QED BY <1>3, <2>1 DEF ParseContent
<1>4. CASE ParseRejected(adds)
  <2>1. reqQueue' \in Seq(Requests) /\ reqQueue' # <<>>
    BY <1>2, <1>4, HeadConcat DEF ParseRejected
  <2> QED BY <1>4, <2>1 DEF ParseRejected
<1>5. CASE ParseDone(adds)
  <2>1. reqQueue' \in Seq(Requests)
    BY <1>2, <1>5, TailConcat DEF ParseDone
  <2> QED BY <1>5, <2>1 DEF ParseDone
<1> QED BY <1>1, <1>3, <1>4, <1>5

LEMMA TimeoutPreserves ==
    ASSUME IInv, Flags', TimeoutRetry \/ TimeoutOpen \/ TimeoutFails
    PROVE  IInv'
<1> USE MaxFaultsAssumption, NoneAssumption
    DEF IInv, Flags, TypeOK, SocketFollowsState, BusyHasRequest, AnswerIsForHead, RxHasChannel,
        ErrorShutsChannel, ParserRewound, States, Sockets, ParseStates, Spend, NoFault
<1>1. CASE TimeoutRetry
  BY <1>1 DEF TimeoutRetry, Send, Connect, Transmit
<1>2. CASE TimeoutOpen
  BY <1>2 DEF TimeoutOpen
<1>3. CASE TimeoutFails
  BY <1>3 DEF TimeoutFails, FailRequest
<1> QED BY <1>1, <1>2, <1>3

LEMMA NextIInv == IInv /\ [Next]_vars => IInv'
<1> SUFFICES ASSUME IInv, [Next]_vars PROVE IInv'
  OBVIOUS
<1>0. Flags'
  BY NextFlags DEF IInv, TypeOK, Flags
<1>1. CASE \E r \in Requests : Add(r)
  BY <1>1, <1>0, AddPreserves
<1>2. CASE TcpOpen \/ TcpWrite \/ TcpRead \/ TcpError \/ TcpPeerClose \/ PeerMute
  BY <1>2, <1>0, ReadPreserves, TcpPreserves
<1>3. CASE ParseHead \/ ParseMalformed \/ ParseTrailing \/ TcpStray \/ ReadEnd
  BY <1>3, <1>0, ParsePreserves
<1>4. CASE Callback
  BY <1>4, <1>0, CallbackPreserves
<1>5. CASE TimeoutRetry \/ TimeoutOpen \/ TimeoutFails
  BY <1>5, <1>0, TimeoutPreserves
<1>6. CASE UNCHANGED vars
  BY <1>6 DEF vars, IInv, TypeOK, SocketFollowsState, BusyHasRequest, AnswerIsForHead,
              RxHasChannel, ErrorShutsChannel, ParserRewound
<1> QED BY <1>1, <1>2, <1>3, <1>4, <1>5, <1>6 DEF Next

------------------------------------------------------------------------------
(* Safety, whatever faults there are.                                           *)

\* The inductive invariant holds in every reachable state.
THEOREM Invariant == Spec => []IInv
BY InitIInv, NextIInv, PTL DEF Spec

\* Every variable keeps its type.
THEOREM TypeCorrect == Spec => []TypeOK
<1>1. IInv => TypeOK
  BY DEF IInv
<1> QED BY <1>1, Invariant, PTL

\* The state enum and the channel agree in every handler (SocketFollowsState).
THEOREM SocketSafe == Spec => []SocketFollowsState
<1>1. IInv => SocketFollowsState
  BY DEF IInv
<1> QED BY <1>1, Invariant, PTL

\* No handler dereferences an empty queue (BusyHasRequest).
THEOREM RequestThere == Spec => []BusyHasRequest
<1>1. IInv => BusyHasRequest
  BY DEF IInv
<1> QED BY <1>1, Invariant, PTL

\* A reply is only ever given to the request it answers (AnswerIsForHead).
THEOREM AnswerMatches == Spec => []AnswerIsForHead
<1>1. IInv => AnswerIsForHead
  BY DEF IInv
<1> QED BY <1>1, Invariant, PTL

------------------------------------------------------------------------------
(* The client is never deaf, when the faults are those it handles.              *)

\* What keeps it so: outside VHTTPC_IDLE some event is always due; idle means
\* without work and on a sound channel, and the timer vhttpc_init starts expires
\* before there is a channel it could shut down; a reply that has ended leaves
\* the channel sound for the next request.
Attentive ==
    /\ state # "error"
    /\ parseState # "wild"
    /\ state = "idle" => reqQueue = <<>> /\ socket \in {"none", "connected"}
    /\ state = "idle" /\ tmr => socket = "none"
    /\ rx => state = "parsing"
    /\ rx /\ parseState = "done" => socket = "connected"
    /\ state = "retry" => tmr
    /\ state \in {"sending", "parsing"} /\ socket = "connected" => tmr

LEMMA InitAttentive == Init => Attentive
BY DEF Init, Attentive

LEMMA AttentiveNotDeaf == IInv /\ Attentive => NotDeaf
BY DEF IInv, TypeOK, States, SocketFollowsState, Attentive, NotDeaf

\* A new transmission is attentive from every state it is started in.
LEMMA TransmitAttentive ==
    ASSUME socket # "none", NEW r,
           Transmit(r, "sending", TRUE, "short_write", "write_fails")
    PROVE  state' \in {"sending", "parsing"} /\ tmr'
BY DEF Transmit

LEMMA ConnectAttentive ==
    ASSUME Connect
    PROVE  state' \in {"open", "retry"} /\ tmr'
BY DEF Connect

LEMMA AddAttentive ==
    ASSUME Faults \cap UnhandledFaults = {}, IInv, Attentive, NEW r \in Requests, Add(r)
    PROVE  Attentive'
<1>1. CASE reqQueue = <<>> /\ state = "idle"
  <2>1. ~rx' /\ parseState' = "http"
    BY <1>1 DEF Add, Send
  <2>2. ~WritePart("short_write_idle")
    BY DEF WritePart, Spend, UnhandledFaults
  <2>3. ASSUME socket # "none" PROVE ~WriteFails("write_fails_idle")
    BY <1>1, <2>3 DEF WriteFails, Spend, UnhandledFaults, Attentive
  <2>4. state' \in {"open", "retry", "parsing"} /\ tmr'
    BY <1>1, <2>2, <2>3, ConnectAttentive DEF Add, Send, Transmit
  <2> QED BY <2>1, <2>4 DEF Attentive
<1>2. CASE ~(reqQueue = <<>> /\ state = "idle")
  <2>1. state # "idle" /\ ~rx
    BY <1>2 DEF Attentive, Add
  <2>2. UNCHANGED <<state, socket, parseState, tmr, rx>>
    BY <1>2 DEF Add, network
  <2> QED BY <2>1, <2>2 DEF Attentive
<1> QED BY <1>1, <1>2

LEMMA TcpAttentive ==
    ASSUME Faults \cap UnhandledFaults = {}, IInv, Attentive,
           TcpOpen \/ TcpWrite \/ TcpRead \/ TcpError \/ TcpPeerClose \/ PeerMute
    PROVE  Attentive'
<1>1. CASE TcpOpen
  BY <1>1 DEF TcpOpen, Attentive
<1>2. CASE TcpWrite
  <2>1. state = "sending" /\ socket = "connected" /\ ~rx /\ UNCHANGED <<parseState, rx>>
    BY <1>2 DEF TcpWrite
  <2>2. tmr /\ parseState # "wild"
    BY <2>1 DEF Attentive
  <2>3. state' \in {"sending", "parsing"} /\ tmr'
    BY <1>2, <2>1, <2>2 DEF TcpWrite, Transmit
  <2> QED BY <2>1, <2>2, <2>3 DEF Attentive
<1>3. CASE TcpRead
  BY <1>3 DEF TcpRead, Attentive, network, IInv, AnswerIsForHead
<1>4. CASE TcpError
  <2>1. reqQueue # <<>>
    <3>1. socket # "connected" => reqQueue # <<>>
      BY <1>4 DEF TcpError, IInv, TypeOK, States, SocketFollowsState, BusyHasRequest, Attentive
    <3>2. socket = "connected" => reqQueue # <<>>
      BY <1>4 DEF TcpError, Spend, UnhandledFaults, IInv, TypeOK, States, BusyHasRequest,
                  Attentive
    <3> QED BY <3>1, <3>2
  <2> QED BY <1>4, <2>1 DEF TcpError, HandleError, Attentive
<1>5. CASE TcpPeerClose
  <2>1. CASE state = "idle"
    BY <1>5, <2>1 DEF TcpPeerClose, DropSocket, Attentive
  <2>2. CASE state # "idle"
    <3>1. reqQueue # <<>>
      BY <1>5, <2>2 DEF TcpPeerClose, IInv, TypeOK, States, BusyHasRequest, Attentive
    <3> QED BY <1>5, <2>2, <3>1 DEF TcpPeerClose, HandleError, Attentive
  <2> QED BY <2>1, <2>2
<1>6. CASE PeerMute
  BY <1>6 DEF PeerMute, httpc, Attentive
<1> QED BY <1>1, <1>2, <1>3, <1>4, <1>5, <1>6

LEMMA ParseAttentive ==
    ASSUME Faults \cap UnhandledFaults = {}, IInv, Attentive,
           ParseHead \/ Callback \/ ParseMalformed \/ ParseTrailing \/ TcpStray \/ ReadEnd
    PROVE  Attentive'
<1>1. CASE ParseHead
  BY <1>1 DEF ParseHead, Attentive, network
<1>2. CASE Callback
  <2>1. PICK adds \in Batches : ParseContent(adds) \/ ParseRejected(adds) \/ ParseDone(adds)
    BY <1>2 DEF Callback
  <2>2. rx /\ state = "parsing" /\ socket = "connected" /\ tmr
    BY <2>1 DEF ParseContent, ParseRejected, ParseDone, Parsing, Attentive, IInv,
                AnswerIsForHead
  <2>3. CASE ParseContent(adds)
    BY <2>2, <2>3 DEF ParseContent, Attentive, network
  <2>4. CASE ParseRejected(adds)
    BY <2>2, <2>4 DEF ParseRejected, FailRequest, Attentive
  <2>5. CASE ParseDone(adds)
    BY <2>2, <2>5 DEF ParseDone, Attentive
  <2> QED BY <2>1, <2>3, <2>4, <2>5
<1>3. CASE ParseMalformed
  BY <1>3 DEF ParseMalformed, Parsing, FailRequest, Attentive
<1>4. CASE ParseTrailing
  BY <1>4 DEF ParseTrailing, Spend, UnhandledFaults
<1>5. CASE TcpStray
  BY <1>5 DEF TcpStray, Spend, UnhandledFaults
<1>6. CASE ReadEnd
  <2>1. CASE parseState # "done"
    BY <1>6, <2>1 DEF ReadEnd, Attentive, network
  <2>2. CASE parseState = "done" /\ reqQueue = <<>>
    BY <1>6, <2>2 DEF ReadEnd, Attentive
  <2>3. CASE parseState = "done" /\ reqQueue # <<>>
    <3>1. Send(Head(reqQueue), "sending", TRUE, "short_write", "write_fails") /\ ~rx'
      BY <1>6, <2>3 DEF ReadEnd
    <3>2. socket # "none"
      BY <1>6, <2>3 DEF ReadEnd, Attentive
    <3>3. state' \in {"sending", "parsing"} /\ tmr' /\ parseState' = "http"
      BY <3>1, <3>2, TransmitAttentive DEF Send, Connect
    <3> QED BY <3>1, <3>3 DEF Attentive
  <2> QED BY <2>1, <2>2, <2>3
<1> QED BY <1>1, <1>2, <1>3, <1>4, <1>5, <1>6

LEMMA TimeoutAttentive ==
    ASSUME Faults \cap UnhandledFaults = {}, IInv, Attentive,
           TimeoutRetry \/ TimeoutOpen \/ TimeoutFails
    PROVE  Attentive'
<1>1. CASE TimeoutRetry
  <2>1. Connect /\ ~rx' /\ parseState' = "http"
    BY <1>1 DEF TimeoutRetry, Send, Transmit, IInv, SocketFollowsState
  <2> QED BY <2>1, ConnectAttentive DEF Attentive
<1>2. CASE TimeoutOpen
  BY <1>2 DEF TimeoutOpen, Attentive
<1>3. CASE TimeoutFails
  <2>1. /\ UNCHANGED <<state, reqQueue, parseState, rx>> /\ ~rx
        /\ state \in {"idle", "sending", "parsing"}
    BY <1>3 DEF TimeoutFails, Attentive
  <2>2. CASE state = "idle"
    BY <1>3, <2>1, <2>2 DEF TimeoutFails, FailRequest, Attentive
  <2>3. CASE state # "idle"
    <3>1. socket' = "shut"
      BY <1>3, <2>1, <2>3 DEF TimeoutFails, FailRequest, IInv, SocketFollowsState
    <3> QED BY <2>1, <2>3, <3>1 DEF Attentive
  <2> QED BY <2>2, <2>3
<1> QED BY <1>1, <1>2, <1>3

LEMMA NextAttentive ==
    ASSUME Faults \cap UnhandledFaults = {}, IInv, Attentive, [Next]_vars
    PROVE  Attentive'
<1>1. CASE UNCHANGED vars
  BY <1>1 DEF vars, Attentive
<1> QED
  BY <1>1, AddAttentive, TcpAttentive, ParseAttentive, TimeoutAttentive DEF Next

\* As long as no fault strikes the idle client and no bytes come out of turn, a
\* client with a request in its queue has an event to wait for (NotDeaf), for any
\* number of other faults in any order.
THEOREM NeverDeaf ==
    ASSUME Faults \cap UnhandledFaults = {}
    PROVE  Spec => []NotDeaf
<1>1. IInv /\ Attentive /\ [Next]_vars => Attentive'
  BY NextAttentive
<1>2. Spec => []Attentive
  BY <1>1, InitAttentive, Invariant, PTL DEF Spec
<1> QED BY <1>2, Invariant, AttentiveNotDeaf, PTL

------------------------------------------------------------------------------
(* VeHttpc implements AtLeastOnce for any requests, faults and number of them:  *)
(* the queue is pending, the request the peer is answering is inflight.         *)


\* A step that leaves the queue alone and forgets the request on the wire loses
\* it, or loses nothing.
LEMMA Loses ==
    ASSUME UNCHANGED reqQueue, wire' = None \/ UNCHANGED wire
    PROVE  [ALO!Next]_ALO!avars
BY DEF ALO!Next, ALO!Lose, ALO!avars

\* Whatever becomes of a transmission, it either puts the request on the wire
\* or leaves the wire empty.
LEMMA SendWire ==
    ASSUME NEW r, NEW s, NEW t, NEW short, NEW broken, wire = None,
           Send(r, s, t, short, broken) \/ Transmit(r, s, t, short, broken)
    PROVE  wire' \in {r, None}
BY DEF Send, Connect, Transmit, WriteAll, WritePart, WriteFails

LEMMA Transmits ==
    ASSUME reqQueue # <<>>, wire = None, UNCHANGED reqQueue,
           wire' \in {Head(reqQueue), None}
    PROVE  [ALO!Next]_ALO!avars
BY DEF ALO!Next, ALO!Transmit, ALO!avars

LEMMA AddRefines ==
    ASSUME IInv, NEW r \in Requests, Add(r)
    PROVE  [ALO!Next]_ALO!avars
<1>1. reqQueue' = Append(reqQueue, r)
  BY DEF Add
<1>2. CASE reqQueue = <<>> /\ state = "idle"
  <2>1. wire = None
    BY <1>2 DEF IInv, AnswerIsForHead
  <2>2. wire' \in {r, None}
    BY <1>2, <2>1, SendWire DEF Add
  <2>3. Append(<<>>, r) = <<r>>
    OBVIOUS
  <2>4. ALO!Submit(r) \/ ALO!SubmitAndTransmit(r)
    BY <1>1, <1>2, <2>1, <2>2, <2>3 DEF ALO!Submit, ALO!SubmitAndTransmit
  <2> QED BY <2>4 DEF ALO!Next
<1>3. CASE ~(reqQueue = <<>> /\ state = "idle")
  <2>1. UNCHANGED wire
    BY <1>3 DEF Add, network
  <2>2. ALO!Submit(r)
    BY <1>1, <2>1 DEF ALO!Submit
  <2> QED BY <2>2 DEF ALO!Next
<1> QED BY <1>2, <1>3

LEMMA TcpRefines ==
    ASSUME IInv,
           TcpOpen \/ TcpWrite \/ TcpRead \/ TcpError \/ TcpPeerClose \/ PeerMute
    PROVE  [ALO!Next]_ALO!avars
<1>1. CASE TcpOpen \/ TcpRead \/ TcpError \/ TcpPeerClose \/ PeerMute
  <2>1. UNCHANGED reqQueue /\ (wire' = None \/ UNCHANGED wire)
    BY <1>1 DEF TcpOpen, TcpRead, TcpError, TcpPeerClose, PeerMute, DropSocket, httpc, network
  <2> QED BY <2>1, Loses
<1>2. CASE TcpWrite
  <2>1. wire = None /\ reqQueue # <<>> /\ UNCHANGED reqQueue
    BY <1>2 DEF TcpWrite, IInv, BusyHasRequest, AnswerIsForHead
  <2>2. wire' \in {Head(reqQueue), None}
    BY <1>2, <2>1, SendWire DEF TcpWrite
  <2> QED BY <2>1, <2>2, Transmits
<1> QED BY <1>1, <1>2

LEMMA CallbackRefines ==
    ASSUME IInv, Callback
    PROVE  [ALO!Next]_ALO!avars
<1>1. PICK adds \in Batches : ParseContent(adds) \/ ParseRejected(adds) \/ ParseDone(adds)
  BY DEF Callback
<1>2. wire # None
  BY <1>1 DEF ParseContent, ParseRejected, ParseDone, Parsing
<1>3. reqQueue # <<>> /\ wire = Head(reqQueue)
  BY <1>2 DEF IInv, AnswerIsForHead
<1>4. ParseContent(adds) => ALO!Deliver(adds)
  BY <1>2 DEF ParseContent, ALO!Deliver, network
<1>5. ParseRejected(adds) => ALO!DeliverAndLose(adds)
  BY <1>2 DEF ParseRejected, FailRequest, ALO!DeliverAndLose
<1>6. ParseDone(adds) => ALO!Complete(adds)
  BY <1>3 DEF ParseDone, ALO!Complete
<1> QED BY <1>1, <1>4, <1>5, <1>6 DEF ALO!Next

LEMMA ReadRefines ==
    ASSUME IInv,
           ParseHead \/ ParseMalformed \/ ParseTrailing \/ TcpStray \/ ReadEnd
    PROVE  [ALO!Next]_ALO!avars
<1>1. CASE ParseHead \/ ParseMalformed \/ ParseTrailing \/ TcpStray
  <2>1. UNCHANGED reqQueue /\ (wire' = None \/ UNCHANGED wire)
    BY <1>1 DEF ParseHead, ParseMalformed, ParseTrailing, TcpStray, Junk, FailRequest, network
  <2> QED BY <2>1, Loses
<1>2. CASE ReadEnd /\ (parseState # "done" \/ reqQueue = <<>>)
  <2>1. UNCHANGED <<reqQueue, wire>>
    BY <1>2 DEF ReadEnd, network
  <2> QED BY <2>1, Loses
<1>3. CASE ReadEnd /\ parseState = "done" /\ reqQueue # <<>>
  <2>1. wire = None
    BY <1>3 DEF IInv, AnswerIsForHead
  <2>2. /\ UNCHANGED reqQueue
        /\ Send(Head(reqQueue), "sending", TRUE, "short_write", "write_fails")
    BY <1>3 DEF ReadEnd
  <2>3. wire' \in {Head(reqQueue), None}
    BY <2>1, <2>2, SendWire
  <2> QED BY <1>3, <2>1, <2>2, <2>3, Transmits
<1> QED BY <1>1, <1>2, <1>3

LEMMA TimeoutRefines ==
    ASSUME IInv, TimeoutRetry \/ TimeoutOpen \/ TimeoutFails
    PROVE  [ALO!Next]_ALO!avars
<1>1. CASE TimeoutOpen \/ TimeoutFails
  <2>1. UNCHANGED reqQueue /\ (wire' = None \/ UNCHANGED wire)
    BY <1>1 DEF TimeoutOpen, TimeoutFails, FailRequest
  <2> QED BY <2>1, Loses
<1>2. CASE TimeoutRetry
  <2>1. wire = None /\ reqQueue # <<>> /\ UNCHANGED reqQueue
    BY <1>2 DEF TimeoutRetry, IInv, BusyHasRequest, AnswerIsForHead
  <2>2. wire' \in {Head(reqQueue), None}
    BY <1>2, <2>1, SendWire DEF TimeoutRetry
  <2> QED BY <2>1, <2>2, Transmits
<1> QED BY <1>1, <1>2

LEMMA NextRefines ==
    ASSUME IInv, [Next]_vars
    PROVE  [ALO!Next]_ALO!avars
<1>1. CASE UNCHANGED vars
  BY <1>1 DEF vars, ALO!avars
<1> QED
  BY <1>1, AddRefines, TcpRefines, CallbackRefines, ReadRefines, TimeoutRefines DEF Next

\* Every behaviour of the client, read through its queue and the request the
\* peer is answering, is one of the abstract at-least-once queue.
THEOREM ImplementsAtLeastOnce == Spec => AtLeastOnceDelivery
<1>1. Init => ALO!Init
  BY DEF Init, ALO!Init
<1>2. IInv /\ [Next]_vars => [ALO!Next]_ALO!avars
  BY NextRefines
<1> QED BY <1>1, <1>2, Invariant, PTL DEF Spec, AtLeastOnceDelivery, ALO!Spec

------------------------------------------------------------------------------
(* The console is a client of the HTTP client like any other: each of its       *)
(* steps is one of VeHttpc's, so that whatever is proved there holds here.      *)

LEMMA BatchFacts ==
    ASSUME NEW adds \in Batches
    PROVE  adds \in Seq(Requests)
BY BatchesAssumption

LEMMA SubscriptionIsBatch ==
    ASSUME NEW queue
    PROVE  /\ Subscription(queue) \in Batches
           /\ Subscription(queue) = <<>> \/ (Subscription(queue) = <<Sub>> /\ queue = <<>>)
<1>1. <<>> \in Batches /\ <<Sub>> \in Batches
  BY AddsAssumption
<1>2. CASE queue = <<>> /\ ~atCmdPending
  BY <1>1, <1>2, Zenon DEF Subscription
<1>3. CASE ~(queue = <<>> /\ ~atCmdPending)
  BY <1>1, <1>3, Zenon DEF Subscription
<1> QED BY <1>2, <1>3

LEMMA StepOfClient ==
    ASSUME [AtNext]_atVars
    PROVE  [Next]_vars
<1>1. ASSUME NEW p \in Pubs, Boot(p) \/ AtResponse(p) \/ AtTerminalResponse(p)
      PROVE  Next
  BY <1>1 DEF Boot, AtResponse, AtTerminalResponse, Publish, Pubs, Next
<1>2. CASE Data
  <2>1. PICK adds \in Batches : ParseContent(adds) \/ ParseRejected(adds)
    BY <1>2 DEF Data, SubscribeData, SubscribeDataRejected
  <2> QED BY <2>1 DEF Next, Callback
<1>3. CASE PublishData \/ \E open \in 0..1 : PublishDataRejected(open)
  <2>1. <<>> \in Batches /\ (ParseContent(<<>>) \/ ParseRejected(<<>>))
    BY <1>3, AddsAssumption DEF PublishData, PublishDataRejected
  <2> QED BY <2>1 DEF Next, Callback
<1>4. CASE RequestDone
  <2>1. PICK adds \in Batches : ParseDone(adds)
    BY <1>4, SubscriptionIsBatch DEF RequestDone
  <2> QED BY <2>1 DEF Next, Callback
<1>5. CASE AtReadEnd \/ AtTimeoutRetry \/ Transport
  BY <1>5 DEF AtReadEnd, AtTimeoutRetry, Transport, Next
<1>6. CASE UNCHANGED atVars
  BY <1>6 DEF atVars
<1> QED BY <1>1, <1>2, <1>3, <1>4, <1>5, <1>6 DEF AtNext

\* The console (pubnub.c and pubnub_at.c) drives the client in no way that VeHttpc does not
\* allow: it adds no request twice and from a callback only what a callback may add.
THEOREM ConsoleUsesClient == AtSpec => Spec
<1>1. AtInit => Init
  BY DEF AtInit
<1>2. [AtNext]_atVars => [Next]_vars
  BY StepOfClient
<1> QED BY <1>1, <1>2, PTL DEF AtSpec, Spec

------------------------------------------------------------------------------
(* The inductive invariant.                                                     *)

AtTyped ==
    /\ outstanding \in Nat /\ outstanding <= MaxOutstanding
    /\ heap \subseteq Pubs
    /\ yajl \in [Requests -> 0..1]
    /\ level \in [Requests -> Nat]

\* The list is no ring.
Distinct(s) == \A i, j \in 1..Len(s) : s[i] = s[j] => i = j

\* Past the table of parsers there is no way back, and a reply that has ended leaves the
\* state only while nothing is queued.
ParserAtRest ==
    /\ parseState = "wild" => rx
    /\ parseState = "done" /\ ~rx => reqQueue = <<>> \/ state = "error"

AtInv ==
    /\ IInv
    /\ AtTyped
    /\ Distinct(reqQueue)
    /\ ParserAtRest
    /\ HeapIsQueue
    /\ ParserOwnership
    /\ NeverAllAsleep

------------------------------------------------------------------------------
(* The queue and its elements.                                                  *)

LEMMA QueuedElements == HeapIsQueue <=> heap = Pubs \cap Elements(reqQueue)
BY DEF HeapIsQueue, Queued, Elements

LEMMA AppendDistinct ==
    ASSUME NEW s \in Seq(Requests), Distinct(s), NEW r \in Requests, r \notin Elements(s)
    PROVE  Distinct(Append(s, r)) /\ Elements(Append(s, r)) = Elements(s) \cup {r}
<1>1. /\ Len(Append(s, r)) = Len(s) + 1 /\ Len(s) \in Nat
      /\ \A i \in 1..Len(s) : Append(s, r)[i] = s[i]
      /\ Append(s, r)[Len(s) + 1] = r
  BY AppendProperties, LenProperties
<1>2. Distinct(Append(s, r))
  BY <1>1 DEF Distinct, Elements
<1>3. Elements(Append(s, r)) = Elements(s) \cup {r}
  <2>1. ASSUME NEW i \in 1..Len(s) + 1 PROVE i = Len(s) + 1 \/ i \in 1..Len(s)
    BY <1>1
  <2>2. 1..Len(s) \subseteq 1..Len(s) + 1 /\ Len(s) + 1 \in 1..Len(s) + 1
    BY <1>1
  <2> QED BY <1>1, <2>1, <2>2 DEF Elements
<1> QED BY <1>2, <1>3

LEMMA ConcatDistinct ==
    ASSUME NEW s \in Seq(Requests), Distinct(s), NEW t \in Seq(Requests), Addable(t, s)
    PROVE  Distinct(s \o t) /\ Elements(s \o t) = Elements(s) \cup Elements(t)
<1>1. /\ Len(s) \in Nat /\ Len(t) \in Nat /\ Len(s \o t) = Len(s) + Len(t)
      /\ \A i \in 1..Len(s) + Len(t) :
            (s \o t)[i] = IF i <= Len(s) THEN s[i] ELSE t[i - Len(s)]
  BY ConcatProperties, LenProperties
<1>2. ASSUME NEW i \in 1..Len(s) + Len(t)
      PROVE  \/ i \in 1..Len(s) /\ (s \o t)[i] = s[i]
             \/ i - Len(s) \in 1..Len(t) /\ (s \o t)[i] = t[i - Len(s)]
  BY <1>1
<1>3. Distinct(s \o t)
  <2> SUFFICES ASSUME NEW i \in 1..Len(s) + Len(t), NEW j \in 1..Len(s) + Len(t),
                      (s \o t)[i] = (s \o t)[j]
               PROVE  i = j
    BY <1>1 DEF Distinct
  <2>1. \A k \in 1..Len(t), l \in 1..Len(s) : t[k] # s[l]
    BY DEF Addable
  <2>2. \A k, l \in 1..Len(t) : t[k] = t[l] => k = l
    BY DEF Addable
  <2>3. CASE i <= Len(s) /\ j <= Len(s)
    BY <1>1, <2>3 DEF Distinct
  <2>4. CASE i > Len(s) /\ j > Len(s)
    <3>1. i - Len(s) \in 1..Len(t) /\ j - Len(s) \in 1..Len(t)
      BY <1>1, <2>4
    <3>2. i - Len(s) = j - Len(s)
      BY <1>1, <2>2, <2>4, <3>1
    <3> QED BY <1>1, <3>2
  <2>5. CASE i > Len(s) /\ j <= Len(s)
    <3>1. i - Len(s) \in 1..Len(t) /\ j \in 1..Len(s)
      BY <1>1, <2>5
    <3> QED BY <1>1, <2>1, <2>5, <3>1
  <2>6. CASE i <= Len(s) /\ j > Len(s)
    <3>1. j - Len(s) \in 1..Len(t) /\ i \in 1..Len(s)
      BY <1>1, <2>6
    <3> QED BY <1>1, <2>1, <2>6, <3>1
  <2> QED BY <1>1, <2>3, <2>4, <2>5, <2>6
<1>4. Elements(s) \subseteq Elements(s \o t)
  <2>1. ASSUME NEW i \in 1..Len(s) PROVE i \in 1..Len(s \o t) /\ (s \o t)[i] = s[i]
    BY <1>1
  <2> QED BY <2>1 DEF Elements
<1>5. Elements(t) \subseteq Elements(s \o t)
  <2>1. ASSUME NEW i \in 1..Len(t)
        PROVE  i + Len(s) \in 1..Len(s \o t) /\ (s \o t)[i + Len(s)] = t[i]
    BY <1>1
  <2> QED BY <2>1 DEF Elements
<1>6. Elements(s \o t) \subseteq Elements(s) \cup Elements(t)
  BY <1>1, <1>2 DEF Elements
<1> QED BY <1>3, <1>4, <1>5, <1>6

LEMMA TailDistinct ==
    ASSUME NEW s \in Seq(Requests), Distinct(s), s # <<>>
    PROVE  /\ Tail(s) \in Seq(Requests) /\ Distinct(Tail(s))
           /\ Elements(Tail(s)) = Elements(s) \ {Head(s)}
           /\ Head(s) \in Elements(s)
<1>1. /\ Len(s) \in Nat \ {0} /\ Head(s) = s[1] /\ Tail(s) \in Seq(Requests)
      /\ Len(Tail(s)) = Len(s) - 1
      /\ \A i \in 1..Len(Tail(s)) : Tail(s)[i] = s[i + 1]
  BY HeadTailProperties, EmptySeq, LenProperties
<1>2. Distinct(Tail(s))
  <2>1. ASSUME NEW i \in 1..Len(Tail(s)) PROVE i + 1 \in 1..Len(s) /\ i \in Int
    BY <1>1
  <2> QED BY <1>1, <2>1 DEF Distinct
<1>3. ASSUME NEW i \in 1..Len(s), i # 1
      PROVE  i - 1 \in 1..Len(Tail(s)) /\ Tail(s)[i - 1] = s[i]
  BY <1>1, <1>3
<1>4. ASSUME NEW i \in 1..Len(Tail(s)) PROVE i + 1 \in 1..Len(s) /\ s[i + 1] # s[1]
  BY <1>1 DEF Distinct
<1>5. 1 \in 1..Len(s)
  BY <1>1
<1> QED BY <1>1, <1>2, <1>3, <1>4, <1>5 DEF Elements

LEMMA HeadQueued ==
    ASSUME IInv, reqQueue # <<>>
    PROVE  /\ Head(reqQueue) \in Requests /\ reqQueue[1] = Head(reqQueue)
           /\ Head(reqQueue) \in Elements(reqQueue)
<1>1. reqQueue \in Seq(Requests)
  BY DEF IInv, TypeOK
<1>2. 1 \in 1..Len(reqQueue) /\ Head(reqQueue) = reqQueue[1]
  BY <1>1, EmptySeq
<1> QED BY <1>1, <1>2, HeadType DEF Elements

------------------------------------------------------------------------------
(* What the events of the client are to the console.                            *)

\* An event that reaches neither file takes nothing from the queue, and the head has been
\* sent after it if and only if it had been before.
LEMMA TransportEffect ==
    ASSUME IInv, ParserAtRest, Transport
    PROVE  /\ UNCHANGED reqQueue /\ UNCHANGED console
           /\ HeadHasBeenSent' <=> HeadHasBeenSent
           /\ ParserAtRest'
<1> USE DEF HeadHasBeenSent, ParserAtRest
<1>0. UNCHANGED console
  BY DEF Transport
<1>1. CASE TcpOpen
  BY <1>0, <1>1 DEF TcpOpen, IInv, SocketFollowsState, ParserRewound
<1>2. CASE TcpWrite
  BY <1>0, <1>2 DEF TcpWrite, Transmit, IInv, ParserRewound
<1>3. CASE TcpRead
  BY <1>0, <1>3 DEF TcpRead, IInv, AnswerIsForHead
<1>4. CASE ParseHead \/ ParseMalformed
  BY <1>0, <1>4 DEF ParseHead, ParseMalformed, Parsing
<1>5. CASE ParseTrailing
  BY <1>0, <1>5 DEF ParseTrailing, Junk
<1>6. CASE TcpStray
  BY <1>0, <1>6 DEF TcpStray, Junk, IInv, SocketFollowsState
<1>7. CASE TcpError
  <2>1. ~rx /\ ~rx' /\ UNCHANGED <<reqQueue, parseState>> /\ HandleError /\ state # "error"
    BY <1>7 DEF TcpError, IInv, SocketFollowsState
  <2>2. reqQueue # <<>> => state' = "retry"
    BY <2>1 DEF HandleError
  <2>3. reqQueue = <<>> => state' = "error"
    BY <2>1 DEF HandleError
  <2> QED BY <1>0, <2>1, <2>2, <2>3
<1>8. CASE TcpPeerClose
  <2>1. /\ ~rx /\ ~rx' /\ UNCHANGED <<reqQueue, parseState>> /\ state # "error"
        /\ UNCHANGED state \/ HandleError
    BY <1>8 DEF TcpPeerClose, IInv, SocketFollowsState
  <2>2. reqQueue # <<>> => state' \in {"retry", state}
    BY <2>1 DEF HandleError
  <2> QED BY <1>0, <2>1, <2>2
<1>9. CASE PeerMute \/ TimeoutOpen \/ TimeoutFails
  BY <1>0, <1>9 DEF PeerMute, TimeoutOpen, TimeoutFails, httpc
<1> QED BY <1>1, <1>2, <1>3, <1>4, <1>5, <1>6, <1>7, <1>8, <1>9 DEF Transport

LEMMA TransportInv ==
    ASSUME AtInv, IInv', Transport
    PROVE  AtInv'
<1>1. /\ UNCHANGED reqQueue /\ UNCHANGED console
      /\ HeadHasBeenSent' <=> HeadHasBeenSent
      /\ ParserAtRest'
  BY TransportEffect DEF AtInv
<1>2. AtTyped' /\ Distinct(reqQueue)' /\ NeverAllAsleep'
  BY <1>1 DEF AtInv, console, AtTyped, Distinct, NeverAllAsleep
<1>3. HeapIsQueue'
  BY <1>1 DEF AtInv, console, HeapIsQueue, Queued
<1>4. ParserOwnership'
  BY <1>1 DEF AtInv, console, ParserOwnership
<1> QED BY <1>1, <1>2, <1>3, <1>4 DEF AtInv

\* A request is on its way, the parser rewound, whatever becomes of it.
LEMMA SendEffect ==
    ASSUME NEW r, NEW s, NEW t, NEW short, NEW broken, Send(r, s, t, short, broken)
    PROVE  parseState' = "http" /\ state' \in {"open", "retry", "parsing", s}
BY DEF Send, Connect, Transmit

\* pubnub_atPublishN adds a request that is not queued; only an empty, idle client sends it
\* at once, and then allocates its parser.
LEMMA PublishEffect ==
    ASSUME AtInv, NEW p \in Pubs, Publish(p)
    PROVE  /\ Distinct(reqQueue') /\ reqQueue' # <<>>
           /\ heap' \subseteq Pubs /\ yajl' \in [Requests -> 0..1] /\ level' \in [Requests -> Nat]
           /\ ParserAtRest' /\ HeapIsQueue' /\ ParserOwnership'
<1>1. /\ p \in Requests /\ p \notin heap /\ Add(p)
      /\ heap' = heap \cup {p} /\ level' = [level EXCEPT ![p] = 0]
  BY DEF Publish, Pubs
<1>2. reqQueue \in Seq(Requests) /\ reqQueue' = Append(reqQueue, p) /\ ~rx /\ ~rx'
  BY <1>1 DEF AtInv, IInv, TypeOK, Add
<1>3. p \notin Elements(reqQueue)
  BY <1>1, QueuedElements DEF AtInv
<1>4. Distinct(reqQueue') /\ Elements(reqQueue') = Elements(reqQueue) \cup {p}
  BY <1>1, <1>2, <1>3, AppendDistinct DEF AtInv
<1>5. reqQueue' # <<>> /\ Head(reqQueue') = IF reqQueue = <<>> THEN p ELSE Head(reqQueue)
  BY <1>1, <1>2, HeadAppend
<1>6. heap' \subseteq Pubs /\ level' \in [Requests -> Nat]
  BY <1>1 DEF AtInv, AtTyped
<1>7. HeapIsQueue'
  <2>1. heap' = Pubs \cap Elements(reqQueue')
    BY <1>1, <1>4, QueuedElements DEF AtInv
  <2> QED BY <2>1 DEF HeapIsQueue, Queued, Elements
<1>8. CASE reqQueue = <<>> /\ state = "idle"
  <2>1. /\ Send(p, "idle", tmr, "short_write_idle", "write_fails_idle")
        /\ yajl' = [yajl EXCEPT ![p] = @ + 1]
    BY <1>1, <1>8 DEF Add, Publish, BeingSent
  <2>2. parseState' = "http" /\ state' # "error"
    BY <2>1, SendEffect
  <2>3. \A r \in Requests : yajl[r] = 0
    BY <1>8 DEF AtInv, ParserOwnership, HeadHasBeenSent
  <2>4. \A r \in Requests : yajl'[r] = IF r = p THEN 1 ELSE 0
    BY <1>1, <2>1, <2>3 DEF AtInv, AtTyped
  <2>5. yajl' \in [Requests -> 0..1]
    BY <1>1, <2>1, <2>3 DEF AtInv, AtTyped
  <2>6. HeadHasBeenSent' /\ Head(reqQueue') = p
    BY <1>2, <1>5, <1>8, <2>2 DEF HeadHasBeenSent
  <2>7. ParserOwnership'
    BY <2>4, <2>6 DEF ParserOwnership
  <2> QED BY <1>2, <1>4, <1>5, <1>6, <1>7, <2>2, <2>5, <2>7 DEF ParserAtRest
<1>9. CASE ~(reqQueue = <<>> /\ state = "idle")
  <2>1. UNCHANGED <<state, parseState, yajl>>
    BY <1>1, <1>9 DEF Add, Publish
  <2>2. CASE reqQueue = <<>>
    <3>1. state = "error"
      BY <1>2, <1>9, <2>2 DEF AtInv, IInv, TypeOK, States, BusyHasRequest
    <3>2. ~HeadHasBeenSent /\ ~HeadHasBeenSent'
      BY <2>1, <2>2, <3>1 DEF HeadHasBeenSent
    <3>3. ParserOwnership'
      BY <2>1, <3>2 DEF AtInv, ParserOwnership
    <3> QED BY <1>2, <1>4, <1>5, <1>6, <1>7, <2>1, <3>1, <3>3 DEF AtInv, AtTyped, ParserAtRest
  <2>3. CASE reqQueue # <<>>
    <3>1. (HeadHasBeenSent' <=> HeadHasBeenSent) /\ Head(reqQueue') = Head(reqQueue)
      BY <1>2, <1>5, <2>1, <2>3 DEF HeadHasBeenSent
    <3>2. ParserOwnership'
      BY <2>1, <3>1 DEF AtInv, ParserOwnership
    <3> QED BY <1>2, <1>4, <1>5, <1>6, <1>7, <2>1, <2>3, <3>2 DEF AtInv, AtTyped, ParserAtRest
  <2> QED BY <2>2, <2>3
<1> QED BY <1>8, <1>9

LEMMA PublishInv ==
    ASSUME AtInv, IInv', NEW p \in Pubs, Boot(p) \/ AtResponse(p) \/ AtTerminalResponse(p)
    PROVE  AtInv'
<1>1. /\ Distinct(reqQueue') /\ reqQueue' # <<>>
      /\ heap' \subseteq Pubs /\ yajl' \in [Requests -> 0..1] /\ level' \in [Requests -> Nat]
      /\ ParserAtRest' /\ HeapIsQueue' /\ ParserOwnership'
  BY PublishEffect DEF Boot, AtResponse, AtTerminalResponse
<1>2. /\ outstanding' \in Nat /\ outstanding' <= MaxOutstanding
      /\ atCmdPending' => outstanding' > 0
  <2>1. CASE Boot(p) \/ AtResponse(p)
    BY <2>1 DEF Boot, AtResponse, AtInv, AtTyped, NeverAllAsleep
  <2>2. CASE AtTerminalResponse(p)
    BY <2>2, CommandsAssumption DEF AtTerminalResponse, AtInv, AtTyped
  <2> QED BY <2>1, <2>2
<1>3. AtTyped' /\ NeverAllAsleep'
  BY <1>1, <1>2 DEF AtTyped, NeverAllAsleep
<1> QED BY <1>1, <1>3 DEF AtInv

------------------------------------------------------------------------------
(* Commands.                                                                    *)

LEMMA StringsFacts ==
    ASSUME NEW cmds \in Strings
    PROVE  cmds \in Seq(Outcomes)
<1>1. ASSUME NEW s \in Replies(MaxCmds) PROVE s \in Seq(Outcomes)
  BY <1>1, CommandsAssumption DEF Replies
<1>2. CASE level[Sub] = 0
  BY <1>1, <1>2 DEF Strings
<1>3. CASE level[Sub] # 0
  <2>1. PICK s \in Replies(MaxCmds), o \in {"adl", "refused"} : cmds = Append(s, o)
    BY <1>3 DEF Strings
  <2>2. o \in Outcomes
    BY DEF Outcomes
  <2> QED BY <1>1, <2>1, <2>2, AppendProperties
<1> QED BY <1>2, <1>3

\* The command that leaves one pending is among those that run.
LEMMA PendingRuns ==
    ASSUME NEW cmds \in Seq(Outcomes)
    PROVE  /\ NumberOf("adl", cmds) \in Nat
           /\ cmds # <<>> /\ cmds[Len(cmds)] = "adl" => NumberOf("adl", cmds) > 0
<1> DEFINE S == {i \in DOMAIN cmds : cmds[i] = "adl"}
<1>1. DOMAIN cmds = 1..Len(cmds) /\ Len(cmds) \in Nat
  BY LenProperties
<1>2. IsFiniteSet(S)
  <2>1. IsFiniteSet(1..Len(cmds)) /\ S \subseteq 1..Len(cmds)
    BY <1>1, FS_Interval
  <2> QED BY <2>1, FS_Subset
<1>3. Cardinality(S) \in Nat /\ (Cardinality(S) = 0 <=> S = {})
  BY <1>2, FS_CardinalityType, FS_EmptySet
<1>4. ASSUME cmds # <<>>, cmds[Len(cmds)] = "adl" PROVE Len(cmds) \in S
  BY <1>1, <1>4, EmptySeq
<1>5. NumberOf("adl", cmds) = Cardinality(S)
  BY DEF NumberOf
<1> QED BY <1>3, <1>4, <1>5

\* What the commands of a reply leave behind: one is pending only while one runs.
LEMMA RunCommandsEffect ==
    ASSUME AtTyped, NeverAllAsleep, NEW cmds \in Strings, NEW adds, RunCommands(cmds, adds)
    PROVE  /\ outstanding' \in Nat /\ outstanding' <= MaxOutstanding
           /\ atCmdPending' => outstanding' > 0
           /\ Elements(adds) \subseteq Pubs \ heap /\ heap' = heap \cup Elements(adds)
<1>1. cmds \in Seq(Outcomes)
  BY StringsFacts
<1>2. /\ NumberOf("adl", cmds) \in Nat
      /\ cmds # <<>> /\ cmds[Len(cmds)] = "adl" => NumberOf("adl", cmds) > 0
  BY <1>1, PendingRuns
<1>3. outstanding' = outstanding + NumberOf("adl", cmds) /\ outstanding' <= MaxOutstanding
  BY DEF RunCommands
<1>4. outstanding \in Nat /\ (atCmdPending => outstanding > 0)
  BY DEF AtTyped, NeverAllAsleep
<1>5. outstanding' \in Nat
  BY <1>2, <1>3, <1>4
<1>6. ASSUME atCmdPending' PROVE outstanding' > 0
  <2>1. CASE cmds = <<>>
    <3>1. atCmdPending
      BY <1>6, <2>1, Zenon DEF RunCommands
    <3> QED BY <1>2, <1>3, <1>4, <3>1
  <2>2. CASE cmds # <<>>
    <3>1. cmds[Len(cmds)] = "adl"
      BY <1>6, <2>2, Zenon DEF RunCommands
    <3> QED BY <1>2, <1>3, <1>4, <2>2, <3>1
  <2> QED BY <2>1, <2>2
<1> QED BY <1>3, <1>5, <1>6 DEF RunCommands, Published

\* A callback of REQ_DATA adds behind the head and leaves the head's parser alone.
LEMMA DataEffect ==
    ASSUME AtInv, NEW adds \in Batches, ParseContent(adds) \/ ParseRejected(adds)
    PROVE  /\ Distinct(reqQueue') /\ reqQueue # <<>> /\ reqQueue' # <<>>
           /\ Elements(reqQueue') = Elements(reqQueue) \cup Elements(adds)
           /\ Head(reqQueue') = Head(reqQueue)
           /\ HeadHasBeenSent' <=> HeadHasBeenSent
           /\ ParserAtRest'
<1>1. adds \in Seq(Requests) /\ reqQueue \in Seq(Requests)
  BY BatchFacts DEF AtInv, IInv, TypeOK
<1>2. /\ Parsing /\ parseState = "content" /\ Addable(adds, reqQueue)
      /\ reqQueue' = reqQueue \o adds /\ UNCHANGED <<state, parseState, rx>>
  BY DEF ParseContent, ParseRejected
<1>3. reqQueue # <<>>
  BY <1>2 DEF Parsing, AtInv, IInv, AnswerIsForHead
<1>4. Distinct(reqQueue') /\ Elements(reqQueue') = Elements(reqQueue) \cup Elements(adds)
  BY <1>1, <1>2, ConcatDistinct DEF AtInv
<1>5. reqQueue' # <<>> /\ Head(reqQueue') = Head(reqQueue)
  BY <1>1, <1>2, <1>3, HeadConcat
<1>6. (HeadHasBeenSent' <=> HeadHasBeenSent) /\ ParserAtRest'
  BY <1>2, <1>3, <1>5 DEF HeadHasBeenSent, ParserAtRest
<1> QED BY <1>3, <1>4, <1>5, <1>6

LEMMA SubscribeDataInv ==
    ASSUME AtInv, IInv', NEW adds \in Batches, NEW cmds \in Strings,
           SubscribeData(cmds, adds) \/ \E open \in 0..2 : SubscribeDataRejected(cmds, adds, open)
    PROVE  AtInv'
<1>1. /\ ParseContent(adds) \/ ParseRejected(adds)
      /\ RunCommands(cmds, adds) /\ UNCHANGED <<booted, yajl>>
  BY DEF SubscribeData, SubscribeDataRejected
<1>2. /\ Distinct(reqQueue') /\ reqQueue # <<>> /\ reqQueue' # <<>>
      /\ Elements(reqQueue') = Elements(reqQueue) \cup Elements(adds)
      /\ Head(reqQueue') = Head(reqQueue)
      /\ HeadHasBeenSent' <=> HeadHasBeenSent
      /\ ParserAtRest'
  BY <1>1, DataEffect
<1>3. /\ outstanding' \in Nat /\ outstanding' <= MaxOutstanding
      /\ atCmdPending' => outstanding' > 0
      /\ Elements(adds) \subseteq Pubs \ heap /\ heap' = heap \cup Elements(adds)
  BY <1>1, RunCommandsEffect DEF AtInv
<1>4. level' \in [Requests -> Nat]
  <2>1. CASE SubscribeData(cmds, adds)
    BY <2>1 DEF SubscribeData, AtInv, AtTyped
  <2>2. ASSUME NEW open \in 0..2, SubscribeDataRejected(cmds, adds, open)
        PROVE  level' \in [Requests -> Nat]
    BY <2>2 DEF SubscribeDataRejected, AtInv, AtTyped
  <2> QED BY <2>1, <2>2
<1>5. AtTyped' /\ NeverAllAsleep'
  BY <1>1, <1>2, <1>3, <1>4 DEF AtInv, AtTyped, NeverAllAsleep
<1>6. HeapIsQueue'
  <2>1. heap' = Pubs \cap Elements(reqQueue')
    BY <1>2, <1>3, QueuedElements DEF AtInv
  <2> QED BY <2>1 DEF HeapIsQueue, Queued, Elements
<1>7. ParserOwnership'
  BY <1>1, <1>2 DEF AtInv, ParserOwnership
<1> QED BY <1>2, <1>5, <1>6, <1>7 DEF AtInv

LEMMA PublishDataInv ==
    ASSUME AtInv, IInv', PublishData \/ \E open \in 0..1 : PublishDataRejected(open)
    PROVE  AtInv'
<1>1. /\ ParseContent(<<>>) \/ ParseRejected(<<>>)
      /\ UNCHANGED <<booted, atCmdPending, outstanding, heap, yajl>>
  BY DEF PublishData, PublishDataRejected
<1>2. <<>> \in Batches /\ Elements(<<>>) = {}
  <2>1. Len(<<>>) = 0 /\ 1..0 = {}
    OBVIOUS
  <2> QED BY <2>1, AddsAssumption, Zenon DEF Elements
<1>3. /\ Distinct(reqQueue') /\ reqQueue # <<>> /\ reqQueue' # <<>>
      /\ Elements(reqQueue') = Elements(reqQueue)
      /\ Head(reqQueue') = Head(reqQueue)
      /\ HeadHasBeenSent' <=> HeadHasBeenSent
      /\ ParserAtRest'
  BY <1>1, <1>2, DataEffect
<1>4. level' \in [Requests -> Nat]
  <2>1. CASE PublishData
    BY <2>1 DEF PublishData, AtInv, AtTyped
  <2>2. ASSUME NEW open \in 0..1, PublishDataRejected(open)
        PROVE  level' \in [Requests -> Nat]
    <3>1. /\ level' = [level EXCEPT ![Head(reqQueue)] = @ + open]
          /\ Head(reqQueue) \in Requests /\ level \in [Requests -> Nat] /\ open \in Nat
      BY <2>2 DEF PublishDataRejected, Pubs, AtInv, AtTyped
    <3> QED BY <3>1
  <2> QED BY <2>1, <2>2
<1>5. AtTyped' /\ NeverAllAsleep'
  BY <1>1, <1>3, <1>4 DEF AtInv, AtTyped, NeverAllAsleep
<1>6. HeapIsQueue'
  <2>1. heap' = Pubs \cap Elements(reqQueue')
    BY <1>1, <1>3, QueuedElements DEF AtInv
  <2> QED BY <2>1 DEF HeapIsQueue, Queued, Elements
<1>7. ParserOwnership'
  BY <1>1, <1>3 DEF AtInv, ParserOwnership
<1> QED BY <1>3, <1>5, <1>6, <1>7 DEF AtInv

------------------------------------------------------------------------------
(* The end of a reply, and the next request.                                    *)

\* REQ_DONE: the head leaves the queue, and its parser and its memory are released in the
\* same step; what takes its place in the queue is the subscription, if anything.
LEMMA RequestDoneInv ==
    ASSUME AtInv, IInv', RequestDone
    PROVE  AtInv'
<1> DEFINE adds == Subscription(Tail(reqQueue))
           r == Head(reqQueue)
<1>1. /\ ParseDone(adds) /\ yajl' = [yajl EXCEPT ![r] = @ - 1] /\ heap' = heap \ {r}
      /\ UNCHANGED <<booted, atCmdPending, outstanding, level, parsed>>
  BY DEF RequestDone
<1>2. /\ rx /\ rx' /\ parseState = "content" /\ parseState' = "done" /\ wire # None
      /\ reqQueue' = Tail(reqQueue) \o adds /\ Addable(adds, Tail(reqQueue))
  BY <1>1 DEF ParseDone, Parsing
<1>3. reqQueue # <<>> /\ HeadHasBeenSent /\ reqQueue \in Seq(Requests)
  BY <1>2 DEF AtInv, IInv, AnswerIsForHead, HeadHasBeenSent, TypeOK
<1>4. /\ Tail(reqQueue) \in Seq(Requests) /\ Distinct(Tail(reqQueue))
      /\ Elements(Tail(reqQueue)) = Elements(reqQueue) \ {r}
      /\ r \in Requests
  BY <1>3, TailDistinct, HeadType DEF AtInv
<1>5. adds \in Seq(Requests) /\ (adds = <<>> \/ (adds = <<Sub>> /\ Tail(reqQueue) = <<>>))
  BY SubscriptionIsBatch, BatchFacts
<1>6. /\ Distinct(reqQueue') /\ Elements(reqQueue') = Elements(Tail(reqQueue)) \cup Elements(adds)
  BY <1>2, <1>4, <1>5, ConcatDistinct
<1>7. Pubs \cap Elements(adds) = {}
  <2>1. \A i \in 1..Len(adds) : adds[i] = Sub
    BY <1>5
  <2> QED BY <2>1 DEF Elements, Pubs
<1>8. HeapIsQueue'
  <2>1. heap' = Pubs \cap Elements(reqQueue')
    BY <1>1, <1>4, <1>6, <1>7, QueuedElements DEF AtInv
  <2> QED BY <2>1 DEF HeapIsQueue, Queued, Elements
<1>9. \A q \in Requests : yajl'[q] = 0
  <2>1. \A q \in Requests : yajl[q] = IF q = r THEN 1 ELSE 0
    BY <1>3 DEF AtInv, ParserOwnership
  <2> QED BY <1>1, <1>4, <2>1 DEF AtInv, AtTyped
<1>10. ParserOwnership' /\ ParserAtRest'
  <2>1. ~HeadHasBeenSent'
    BY <1>2 DEF HeadHasBeenSent
  <2> QED BY <1>2, <1>9, <2>1 DEF ParserOwnership, ParserAtRest
<1>11. AtTyped'
  <2>1. yajl' = [q \in Requests |-> yajl'[q]]
    BY <1>1 DEF AtInv, AtTyped
  <2>2. yajl' = [q \in Requests |-> 0]
    BY <1>9, <2>1
  <2>3. yajl' \in [Requests -> 0..1]
    BY <2>2
  <2> QED BY <1>1, <2>3 DEF AtInv, AtTyped
<1>12. NeverAllAsleep'
  <2>1. ASSUME ~atCmdPending PROVE reqQueue' # <<>>
    <3>1. CASE Tail(reqQueue) = <<>>
      <4>1. adds = <<Sub>>
        BY <2>1, <3>1, Zenon DEF Subscription
      <4> QED BY <1>2, <3>1, <4>1, SubAssumption
    <3>2. CASE Tail(reqQueue) # <<>>
      BY <1>2, <1>4, <1>5, <3>2, HeadConcat
    <3> QED BY <3>1, <3>2
  <2> QED BY <1>1, <2>1 DEF AtInv, NeverAllAsleep
<1> QED BY <1>6, <1>8, <1>10, <1>11, <1>12 DEF AtInv

\* The tail of WIP_CEV_READ sends the next request, which allocates its parser, exactly
\* when a reply has ended.
LEMMA ReadEndInv ==
    ASSUME AtInv, IInv', AtReadEnd
    PROVE  AtInv'
<1>1. /\ ReadEnd /\ UNCHANGED <<booted, atCmdPending, outstanding, heap, level>>
      /\ rx /\ ~rx' /\ parseState # "wild" /\ UNCHANGED reqQueue
  BY DEF AtReadEnd, ReadEnd
<1>2. Distinct(reqQueue)' /\ HeapIsQueue' /\ NeverAllAsleep'
  BY <1>1 DEF AtInv, Distinct, HeapIsQueue, Queued, NeverAllAsleep
<1>3. CASE parseState = "done" /\ reqQueue # <<>>
  <2> DEFINE r == Head(reqQueue)
  <2>1. /\ Send(r, "sending", TRUE, "short_write", "write_fails")
        /\ yajl' = [yajl EXCEPT ![r] = @ + 1]
    BY <1>1, <1>3 DEF AtReadEnd, ReadEnd, BeingSent
  <2>2. parseState' = "http" /\ state' # "error"
    BY <2>1 DEF Send, Connect, Transmit
  <2>3. r \in Requests
    BY <1>3, HeadQueued DEF AtInv
  <2>4. \A q \in Requests : yajl[q] = 0
    BY <1>1, <1>3 DEF AtInv, ParserOwnership, HeadHasBeenSent
  <2>5. \A q \in Requests : yajl'[q] = IF q = r THEN 1 ELSE 0
    BY <2>1, <2>3, <2>4 DEF AtInv, AtTyped
  <2>6. HeadHasBeenSent' /\ Head(reqQueue)' = r
    BY <1>1, <1>3, <2>2 DEF HeadHasBeenSent
  <2>7. ParserOwnership' /\ ParserAtRest'
    BY <2>2, <2>5, <2>6 DEF ParserOwnership, ParserAtRest
  <2>8. yajl' \in [Requests -> 0..1]
    BY <2>1, <2>3, <2>4 DEF AtInv, AtTyped
  <2>9. AtTyped'
    BY <1>1, <2>8 DEF AtInv, AtTyped
  <2> QED BY <1>2, <2>7, <2>9 DEF AtInv
<1>4. CASE ~(parseState = "done" /\ reqQueue # <<>>)
  <2>1. UNCHANGED yajl
    BY <1>4 DEF AtReadEnd
  <2>2. CASE parseState # "done"
    <3>1. UNCHANGED <<state, parseState>>
      BY <1>1, <2>2 DEF ReadEnd
    <3> QED BY <1>1, <1>2, <2>1, <2>2, <3>1
            DEF AtInv, AtTyped, ParserOwnership, HeadHasBeenSent, ParserAtRest
  <2>3. CASE parseState = "done" /\ reqQueue = <<>>
    <3>1. UNCHANGED parseState
      BY <1>1, <2>3 DEF ReadEnd
    <3> QED BY <1>1, <1>2, <2>1, <2>3, <3>1
            DEF AtInv, AtTyped, ParserOwnership, HeadHasBeenSent, ParserAtRest
  <2> QED BY <1>4, <2>2, <2>3
<1> QED BY <1>3, <1>4

\* A retry frees the parser of the head before it allocates another.
LEMMA TimeoutRetryInv ==
    ASSUME AtInv, IInv', AtTimeoutRetry
    PROVE  AtInv'
<1>1. /\ TimeoutRetry /\ UNCHANGED <<booted, atCmdPending, outstanding, heap, level, yajl>>
      /\ ~rx /\ ~rx' /\ state = "retry" /\ UNCHANGED reqQueue
  BY DEF AtTimeoutRetry, TimeoutRetry, BeingSentAgain
<1>2. parseState' = "http" /\ state' # "error"
  BY <1>1, SendEffect DEF TimeoutRetry
<1>3. HeadHasBeenSent' <=> HeadHasBeenSent
  BY <1>1, <1>2 DEF HeadHasBeenSent
<1>4. Distinct(reqQueue)' /\ HeapIsQueue' /\ NeverAllAsleep' /\ AtTyped'
  BY <1>1 DEF AtInv, Distinct, HeapIsQueue, Queued, NeverAllAsleep, AtTyped
<1>5. ParserOwnership' /\ ParserAtRest'
  BY <1>1, <1>2, <1>3 DEF AtInv, ParserOwnership, ParserAtRest
<1> QED BY <1>4, <1>5 DEF AtInv

------------------------------------------------------------------------------
(* The theorems.                                                                *)

LEMMA AtInitInv == AtInit => AtInv
<1> SUFFICES ASSUME AtInit PROVE AtInv
  OBVIOUS
<1>1. Init /\ IInv
  BY InitIInv DEF AtInit
<1>2. reqQueue = <<>> /\ Len(reqQueue) = 0 /\ parseState = "http"
  BY <1>1 DEF Init
<1>3. AtTyped
  BY CommandsAssumption DEF AtInit, AtTyped
<1>4. Distinct(reqQueue) /\ ParserAtRest
  BY <1>2 DEF Distinct, ParserAtRest
<1>5. HeapIsQueue
  BY <1>2 DEF AtInit, HeapIsQueue, Queued
<1>6. ParserOwnership
  <2>1. ~HeadHasBeenSent
    BY <1>2 DEF HeadHasBeenSent
  <2>2. \A r \in Requests : yajl[r] = 0
    BY DEF AtInit
  <2> QED BY <2>1, <2>2 DEF ParserOwnership
<1>7. NeverAllAsleep
  BY DEF AtInit, NeverAllAsleep
<1> QED BY <1>1, <1>3, <1>4, <1>5, <1>6, <1>7 DEF AtInv

LEMMA AtNextInv == AtInv /\ [AtNext]_atVars => AtInv'
<1> SUFFICES ASSUME AtInv, [AtNext]_atVars PROVE AtInv'
  OBVIOUS
<1>0. IInv'
  BY StepOfClient, NextIInv DEF AtInv
<1>1. ASSUME NEW p \in Pubs, Boot(p) \/ AtResponse(p) \/ AtTerminalResponse(p)
      PROVE  AtInv'
  BY <1>0, <1>1, PublishInv
<1>2. CASE Data
  BY <1>0, <1>2, SubscribeDataInv DEF Data
<1>3. CASE PublishData \/ \E open \in 0..1 : PublishDataRejected(open)
  BY <1>0, <1>3, PublishDataInv
<1>4. CASE RequestDone
  BY <1>0, <1>4, RequestDoneInv
<1>5. CASE AtReadEnd
  BY <1>0, <1>5, ReadEndInv
<1>6. CASE AtTimeoutRetry
  BY <1>0, <1>6, TimeoutRetryInv
<1>7. CASE Transport
  BY <1>0, <1>7, TransportInv
<1>8. CASE UNCHANGED atVars
  BY <1>0, <1>8 DEF atVars, vars, console, AtInv, AtTyped, Distinct, ParserAtRest, HeapIsQueue,
     Queued, ParserOwnership, HeadHasBeenSent, NeverAllAsleep
<1> QED BY <1>1, <1>2, <1>3, <1>4, <1>5, <1>6, <1>7, <1>8 DEF AtNext

\* The inductive invariant of the console holds in every reachable state.
THEOREM ConsoleInvariant == AtSpec => []AtInv
<1>1. AtInit => AtInv
  BY AtInitInv
<1>2. AtInv /\ [AtNext]_atVars => AtInv'
  BY AtNextInv
<1> QED BY <1>1, <1>2, PTL DEF AtSpec

\* Whatever fails, and whatever commands a reply brings, an empty queue is one that a running
\* command will fill (pubnub_atSubscribe, at_rspHandler).
THEOREM NeverAsleep == AtSpec => []NeverAllAsleep
<1>1. AtInv => NeverAllAsleep
  BY DEF AtInv
<1> QED BY <1>1, ConsoleInvariant, PTL

\* A publish request is allocated exactly while it is queued (pubnub_atPublishN,
\* publish_callback): none leaks, none is freed while it is linked.
THEOREM HeapMatchesQueue == AtSpec => []HeapIsQueue
<1>1. AtInv => HeapIsQueue
  BY DEF AtInv
<1> QED BY <1>1, ConsoleInvariant, PTL

\* A parser handle is live exactly for the head that has been sent (json_parse): none is freed
\* twice and none is lost, however often the head is sent again.
THEOREM OneParser == AtSpec => []ParserOwnership
<1>1. AtInv => ParserOwnership
  BY DEF AtInv
<1> QED BY <1>1, ConsoleInvariant, PTL

\* What is proved of the client holds under the console: a reply is given to the request it
\* answers, the queue is an at-least-once queue, and as long as no fault strikes the idle
\* client and no bytes come out of turn, it is never deaf.
THEOREM ClientUnderConsole ==
    /\ AtSpec => []IInv
    /\ AtSpec => AtLeastOnceDelivery
    /\ Faults \cap UnhandledFaults = {} => (AtSpec => []NotDeaf)
<1>1. AtSpec => []IInv
  BY ConsoleUsesClient, Invariant, PTL
<1>2. AtSpec => AtLeastOnceDelivery
  BY ConsoleUsesClient, ImplementsAtLeastOnce, PTL
<1>3. ASSUME Faults \cap UnhandledFaults = {} PROVE AtSpec => []NotDeaf
  <2>1. Spec => []NotDeaf
    BY <1>3, NeverDeaf
  <2> QED BY <2>1, ConsoleUsesClient, PTL
<1> QED BY <1>1, <1>2, <1>3
==============================================================================
