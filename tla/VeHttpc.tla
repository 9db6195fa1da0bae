------------------------------- MODULE VeHttpc -------------------------------
(***************************************************************************)
(* The HTTP/1.1 keep-alive client of src/tcp/ve_httpc.c: one TCP           *)
(* connection, a queue of requests of which the head is sent and answered, *)
(* one timer, and the state enum VHttpcState.                              *)
(*                                                                         *)
(* The program is one event loop: a handler (tcp_handler, vhttpc_timeout,  *)
(* vhttpc_add called from an AT response) runs to completion before the    *)
(* next one.  A handler is one action here, except WIP_CEV_READ: its loop  *)
(* over the bytes received (handle_rx, parse) is opened by TcpRead, makes  *)
(* one step per callback it invokes, and is closed by ReadEnd; while rx    *)
(* is TRUE nothing else is dispatched.                                     *)
(*                                                                         *)
(* The network is part of the model: what the peer does wrong, and when    *)
(* the stack accepts less than it was given, is a fault, named in Faults   *)
(* and paid from a finite budget.                                          *)
(***************************************************************************)
EXTENDS Naturals, Sequences

CONSTANTS
    Requests,   \* struct VHttpcRequest objects
    Batches,    \* the sequences of requests a callback may add
    Faults,     \* the faults the environment may commit
    MaxFaults,  \* how many of them in one behaviour
    None        \* no request

ASSUME BatchesAssumption == Batches \subseteq Seq(Requests)
ASSUME MaxFaultsAssumption == MaxFaults \in Nat
ASSUME NoneAssumption == None \notin Requests

VARIABLES
    state,      \* httpc->state
    reqQueue,   \* httpc->reqQueue, the linked list as a sequence
    error,      \* httpc->error # 0
    socket,     \* httpc->socket and the condition of the channel behind it
    parseState, \* httpc->parseState, the header states taken together
    tmr,        \* httpc->tmr is running
    rx,         \* inside handle_rx
    wire,       \* the request the peer has completely and still has to answer
    stalled,    \* the peer will neither read nor write on this connection
    budget      \* faults left

httpc == <<state, reqQueue, error, socket, parseState, tmr, rx>>
network == <<wire, stalled, budget>>
vars == <<state, reqQueue, error, socket, parseState, tmr, rx, wire, stalled, budget>>

States == {"idle", "retry", "open", "sending", "parsing", "error"}

\* "shut" is a channel after wip_shutdown or after a failed write: still
\* allocated, with only its closing event to come.
Sockets == {"none", "connecting", "connected", "shut"}

\* "content" stands for PARSE_CHUNK_LENGTH up to PARSE_CHUNK_CRLF as well.
\* "wild" is the call through parsers[PARSE_DONE], past the end of the table.
ParseStates == {"http", "content", "done", "wild"}

Queued(r) == \E i \in 1..Len(reqQueue) : reqQueue[i] = r

\* Requests a callback may add: each once and none that is queued already
\* (vhttpc_enqueue does not check it and would close the list into a ring).
Addable(adds, queue) ==
    /\ \A i \in 1..Len(adds) : \A j \in 1..Len(queue) : adds[i] # queue[j]
    /\ \A i, j \in 1..Len(adds) : adds[i] = adds[j] => i = j

Init ==
    /\ state = "idle"
    /\ reqQueue = <<>>
    /\ error = FALSE
    /\ socket = "none"
    /\ parseState = "http"
    /\ tmr = TRUE
    /\ rx = FALSE
    /\ wire = None
    /\ stalled = FALSE
    /\ budget = MaxFaults

------------------------------------------------------------------------------
(* Building blocks of the handlers.                                          *)

Spend(fault) ==
    /\ fault \in Faults
    /\ budget > 0
    /\ budget' = budget - 1

NoFault == UNCHANGED budget

\* Mutant of DropSocket: without "socket = WIP_CHANNEL_INVALID".
DropSocketKeepsHandle ==
    /\ UNCHANGED socket
    /\ wire' = None
    /\ stalled' = FALSE

\* The channel is closed and forgotten.
DropSocket ==
    /\ socket' = "none"
    /\ wire' = None
    /\ stalled' = FALSE

\* Mutant of FailRequest: without wip_shutdown.
FailRequestOnly ==
    /\ error' = TRUE
    /\ wire' = None
    /\ UNCHANGED <<socket, stalled>>

\* vhttpc_error: the error is kept and a live channel is shut down.
FailRequest ==
    /\ error' = TRUE
    /\ socket' = IF socket = "none" THEN "none" ELSE "shut"
    /\ wire' = None
    /\ UNCHANGED stalled

\* try_to_send on a channel that exists: all written, part of it, or an error.
\* Whole, Part and Failure say what becomes of state and tmr; short and broken
\* name the faults.
WriteAll(r) ==
    /\ socket = "connected"
    /\ NoFault
    /\ wire' = r
    /\ UNCHANGED <<socket, stalled>>

WritePart(short) ==
    /\ socket = "connected"
    /\ Spend(short)
    /\ UNCHANGED <<socket, wire, stalled>>

WriteFails(broken) ==
    /\ \/ socket = "connected" /\ Spend(broken)
       \/ socket # "connected" /\ NoFault
    /\ socket' = "shut"
    /\ wire' = None
    /\ UNCHANGED stalled

\* vhttpc_send_ev for request r, called in state s with the timer at t: the
\* reply parser is rewound; without a channel one is created, otherwise the
\* request is written.  Only a complete write moves on to "parsing".
Connect ==
    /\ socket = "none"
    /\ UNCHANGED <<wire, stalled>>
    /\ tmr' = TRUE
    /\ \/ socket' = "connecting" /\ state' = "open" /\ NoFault
       \/ socket' = "none" /\ state' = "retry" /\ Spend("create_fails")

\* With a channel: try_to_send, and what each of its callers does with RET_DONE (vhttpc_enqueue,
\* and the handlers of WIP_CEV_WRITE and of WIP_CEV_READ behind a reply).
Transmit(r, s, t, short, broken) ==
    /\ socket # "none"
    /\ \/ WriteAll(r) /\ state' = "parsing" /\ tmr' = TRUE
       \/ (WritePart(short) \/ WriteFails(broken)) /\ state' = s /\ tmr' = t

Send(r, s, t, short, broken) ==
    /\ parseState' = "http"
    /\ Connect \/ Transmit(r, s, t, short, broken)

\* Mutant of HandleError: vhttpc_req_retry without "error = 0".
HandleErrorKeepsError ==
    IF reqQueue = <<>>
    THEN state' = "error" /\ tmr' = FALSE /\ UNCHANGED error
    ELSE state' = "retry" /\ tmr' = TRUE /\ UNCHANGED error

\* Mutant of HandleError: no look at the queue.
HandleErrorWithoutRequest ==
    state' = "retry" /\ tmr' = TRUE /\ error' = FALSE

\* handle_error: the owner's callback must answer with vhttpc_req_retry, which
\* clears the error and waits; without a request there is nobody to call.
HandleError ==
    IF reqQueue = <<>>
    THEN state' = "error" /\ tmr' = FALSE /\ UNCHANGED error
    ELSE state' = "retry" /\ tmr' = TRUE /\ error' = FALSE

------------------------------------------------------------------------------
(* Handlers.                                                                 *)

\* Mutant of Add: the list is entered at the wrong end.
AddInFront(r) ==
    /\ ~rx
    /\ ~Queued(r)
    /\ reqQueue' = <<r>> \o reqQueue
    /\ IF reqQueue = <<>> /\ state = "idle"
       THEN Send(r, "idle", tmr, "short_write_idle", "write_fails_idle")
       ELSE UNCHANGED <<state, socket, parseState, tmr, network>>
    /\ UNCHANGED <<error, rx>>

\* vhttpc_add, from the event loop.
Add(r) ==
    /\ ~rx
    /\ ~Queued(r)
    /\ reqQueue' = Append(reqQueue, r)
    /\ IF reqQueue = <<>> /\ state = "idle"
       THEN Send(r, "idle", tmr, "short_write_idle", "write_fails_idle")
       ELSE UNCHANGED <<state, socket, parseState, tmr, network>>
    /\ UNCHANGED <<error, rx>>

\* WIP_CEV_OPEN
TcpOpen ==
    /\ ~rx
    /\ socket = "connecting"
    /\ socket' = "connected"
    /\ state' = "sending"
    /\ tmr' = TRUE
    /\ UNCHANGED <<reqQueue, error, parseState, rx, network>>

\* WIP_CEV_WRITE, in the state where it does something.
TcpWrite ==
    /\ ~rx
    /\ socket = "connected"
    /\ ~stalled
    /\ ~error
    /\ state = "sending"
    /\ Transmit(Head(reqQueue), state, tmr, "short_write", "write_fails")
    /\ UNCHANGED <<reqQueue, error, parseState, rx>>

\* WIP_CEV_READ with (part of) the reply.
TcpRead ==
    /\ ~rx
    /\ socket = "connected"
    /\ ~stalled
    /\ wire # None
    /\ rx' = TRUE
    /\ UNCHANGED <<state, reqQueue, error, socket, parseState, tmr, network>>

\* handle_rx stops parsing at the first error but reads on.
Parsing == rx /\ ~error /\ wire # None

\* The status line and the headers, up to PARSE_HEAD_END.
ParseHead ==
    /\ Parsing
    /\ parseState = "http"
    /\ parseState' = "content"
    /\ UNCHANGED <<state, reqQueue, error, socket, tmr, rx, network>>

\* One REQ_DATA callback that is content with its data.
ParseContent(adds) ==
    /\ Parsing
    /\ parseState = "content"
    /\ Addable(adds, reqQueue)
    /\ reqQueue' = reqQueue \o adds
    /\ UNCHANGED <<state, error, socket, parseState, tmr, rx, network>>

\* A REQ_DATA callback that returns an error, after it acted on the data.
ParseRejected(adds) ==
    /\ Parsing
    /\ parseState = "content"
    /\ Addable(adds, reqQueue)
    /\ Spend("data_rejected")
    /\ reqQueue' = reqQueue \o adds
    /\ FailRequest
    /\ UNCHANGED <<state, parseState, tmr, rx>>

\* Mutant of ParseDone: parseState is incremented once too often.
ParseDonePastEnd(adds) ==
    /\ Parsing
    /\ parseState = "content"
    /\ parseState' = "past the end"
    /\ Addable(adds, Tail(reqQueue))
    /\ reqQueue' = Tail(reqQueue) \o adds
    /\ wire' = None
    /\ UNCHANGED <<state, error, socket, tmr, rx, stalled, budget>>

\* The last byte: the request is dequeued before its REQ_DONE callback "so it
\* can be added again".
ParseDone(adds) ==
    /\ Parsing
    /\ parseState = "content"
    /\ parseState' = "done"
    /\ Addable(adds, Tail(reqQueue))
    /\ reqQueue' = Tail(reqQueue) \o adds
    /\ wire' = None
    /\ UNCHANGED <<state, error, socket, tmr, rx, stalled, budget>>

\* A parser returns an error: the reply breaks the syntax or a limit.
ParseMalformed ==
    /\ Parsing
    /\ parseState # "done"
    /\ Spend("malformed")
    /\ FailRequest
    /\ UNCHANGED <<state, reqQueue, parseState, tmr, rx>>

\* Bytes that belong to no reply.  Without a request parse returns
\* RET_RSP_TOO_LONG; with one they go to parsers[parseState], which does not
\* exist for PARSE_DONE.
Junk ==
    \/ /\ reqQueue = <<>> \/ parseState # "done"
       /\ FailRequest
       /\ UNCHANGED parseState
    \/ /\ reqQueue # <<>> /\ parseState = "done"
       /\ parseState' = "wild"
       /\ UNCHANGED <<error, socket, wire, stalled>>

\* They follow the end of the reply in the same read ...
ParseTrailing ==
    /\ rx
    /\ ~error
    /\ parseState = "done"
    /\ Spend("trailing")
    /\ Junk
    /\ UNCHANGED <<state, reqQueue, tmr, rx>>

\* ... or come by themselves while no answer is due.
TcpStray ==
    /\ ~rx
    /\ socket = "connected"
    /\ ~stalled
    /\ ~error
    /\ wire = None
    /\ rx' = TRUE
    /\ Spend("stray")
    /\ Junk
    /\ UNCHANGED <<state, reqQueue, tmr>>

\* Everything is read; the tail of WIP_CEV_READ takes the next request, or
\* goes idle, when a reply was completed.
ReadEnd ==
    /\ rx
    /\ parseState # "wild"
    /\ rx' = FALSE
    /\ UNCHANGED <<reqQueue, error>>
    /\ CASE parseState # "done" ->
              UNCHANGED <<state, socket, parseState, tmr, network>>
         [] parseState = "done" /\ reqQueue = <<>> ->
              /\ state' = "idle"
              /\ tmr' = FALSE
              /\ UNCHANGED <<socket, parseState, network>>
         [] OTHER ->
              Send(Head(reqQueue), "sending", TRUE, "short_write", "write_fails")

\* WIP_CEV_ERROR: the expected end of a channel that was shut down, otherwise
\* a failed connection attempt or a reset.
TcpError ==
    /\ ~rx
    /\ socket # "none"
    /\ CASE socket = "shut" -> NoFault
         [] socket = "connecting" -> Spend("connect_fails")
         [] socket = "connected" ->
              Spend(IF state = "idle" /\ reqQueue = <<>> THEN "reset_idle" ELSE "reset")
    /\ DropSocket
    /\ HandleError
    /\ UNCHANGED <<reqQueue, parseState, rx>>

\* WIP_CEV_PEER_CLOSE: ignored while idle.
TcpPeerClose ==
    /\ ~rx
    /\ socket \in {"connected", "shut"}
    /\ IF socket = "shut" THEN NoFault ELSE Spend("peer_close")
    /\ DropSocket
    /\ IF state = "idle" THEN UNCHANGED <<state, tmr, error>> ELSE HandleError
    /\ UNCHANGED <<reqQueue, parseState, rx>>

\* The peer falls silent without closing.
PeerMute ==
    /\ ~rx
    /\ socket = "connected"
    /\ ~stalled
    /\ Spend("mute")
    /\ stalled' = TRUE
    /\ UNCHANGED <<httpc, wire>>

\* vhttpc_timeout after the reconnect delay: the head is sent again.
TimeoutRetry ==
    /\ ~rx
    /\ tmr
    /\ state = "retry"
    /\ Send(Head(reqQueue), state, FALSE, "short_write", "write_fails")
    /\ UNCHANGED <<reqQueue, error, rx>>

\* vhttpc_timeout while connecting: an assertion, which on the modem only
\* traces; the timer is not set again.
TimeoutOpen ==
    /\ ~rx
    /\ tmr
    /\ state = "open"
    /\ Spend("slow_connect")
    /\ tmr' = FALSE
    /\ UNCHANGED <<state, reqQueue, error, socket, parseState, rx, wire, stalled>>

\* Mutant of TimeoutFails: the request is given up.
TimeoutDrops ==
    /\ ~rx
    /\ tmr
    /\ state \in {"sending", "parsing"}
    /\ IF stalled \/ error THEN NoFault ELSE Spend("slow_peer")
    /\ tmr' = FALSE
    /\ reqQueue' = Tail(reqQueue)
    /\ FailRequest
    /\ UNCHANGED <<state, parseState, rx>>

\* vhttpc_timeout elsewhere: RET_TIMEOUT.  It takes no fault when nothing can
\* come of the connection any more: the peer is mute, or the error flag makes
\* WIP_CEV_WRITE do nothing.
TimeoutFails ==
    /\ ~rx
    /\ tmr
    /\ state \in {"idle", "sending", "parsing", "error"}
    /\ CASE state = "idle" -> Spend("idle_timeout")
         [] state # "idle" /\ (stalled \/ error) -> NoFault
         [] OTHER -> Spend("slow_peer")
    /\ tmr' = FALSE
    /\ FailRequest
    /\ UNCHANGED <<state, reqQueue, parseState, rx>>

Callback ==
    \E adds \in Batches : ParseContent(adds) \/ ParseRejected(adds) \/ ParseDone(adds)

Next ==
    \/ \E r \in Requests : Add(r)
    \/ TcpOpen \/ TcpWrite \/ TcpRead
    \/ ParseHead \/ Callback \/ ParseMalformed \/ ParseTrailing \/ TcpStray \/ ReadEnd
    \/ TcpError \/ TcpPeerClose \/ PeerMute
    \/ TimeoutRetry \/ TimeoutOpen \/ TimeoutFails

Spec == Init /\ [][Next]_vars

------------------------------------------------------------------------------
(* Fairness: what the stack, a sound peer and the tick guarantee.             *)

\* A channel that was shut down, or whose write failed, gets its last event.
ClosingEvent == socket = "shut" /\ (TcpError \/ TcpPeerClose)

\* The timer of a connection of which nothing can come any more.
HopelessTimeout == state # "idle" /\ (stalled \/ error) /\ TimeoutFails

\* A complete reply arrives: it is finite, however it is cut into reads.
ReplyEnds == \E adds \in Batches : ParseDone(adds)

FairSpec ==
    /\ Spec
    /\ WF_vars(TcpOpen) /\ WF_vars(TcpWrite) /\ WF_vars(TcpRead) /\ WF_vars(ReadEnd)
    /\ SF_vars(ParseHead) /\ SF_vars(ReplyEnds)
    /\ WF_vars(ClosingEvent)
    /\ WF_vars(TimeoutRetry) /\ WF_vars(HopelessTimeout)

------------------------------------------------------------------------------
(* Properties.                                                                *)

TypeOK ==
    /\ state \in States
    /\ reqQueue \in Seq(Requests)
    /\ error \in BOOLEAN
    /\ socket \in Sockets
    /\ parseState \in ParseStates
    /\ tmr \in BOOLEAN
    /\ rx \in BOOLEAN
    /\ wire \in Requests \cup {None}
    /\ stalled \in BOOLEAN
    /\ budget \in 0..MaxFaults

\* The state enum and the channel agree in every handler: while waiting to
\* reconnect there is no channel to leak, WIP_CEV_OPEN finds the client in
\* VHTTPC_SOCKET_OPEN (the assertion of tcp_handler), and a request is only
\* written to, or its reply read from, a channel that was opened for it.
SocketFollowsState ==
    /\ state \in {"retry", "error"} => socket = "none"
    /\ state = "open" <=> socket = "connecting"
    /\ state \in {"sending", "parsing"} => socket \in {"connected", "shut"}

\* Whatever handler runs next, the request it dereferences exists: the head is
\* there when tcp_handler writes it, when the reconnect timer sends it again
\* (the assertion of vhttpc_timeout) and when its reply is parsed.  Only the
\* moment between the end of a reply and the tail of WIP_CEV_READ may find the
\* queue empty.
BusyHasRequest ==
    /\ state \in {"retry", "open", "sending", "parsing"}
    /\ ~(rx /\ parseState = "done")
    => reqQueue # <<>>

\* A reply is never given to another request than the one it answers, in spite
\* of requests added, connections replaced and requests sent again meanwhile:
\* what the peer is answering is the head, on a connection in working order,
\* with the client reading.
AnswerIsForHead ==
    wire # None =>
        /\ reqQueue # <<>> /\ wire = Head(reqQueue)
        /\ socket = "connected" /\ state = "parsing" /\ ~error
        /\ parseState \in {"http", "content"}

\* The faults that strike the client in VHTTPC_IDLE, and bytes no reply accounts
\* for: those the recovery paths of the code do not cover.
UnhandledFaults ==
    {"reset_idle", "short_write_idle", "write_fails_idle", "stray", "trailing"}

\* The client is never deaf with a request in its queue: there is always an
\* event still to come that gets the head on its way again, the timer or the
\* outcome of the channel.  Several faults in a row, a timeout racing the close
\* it caused and a timer that was not set again must not break the chain.
NotDeaf == reqQueue # <<>> /\ ~rx => tmr \/ socket \in {"connecting", "shut"}

\* The client implements the abstract queue that loses, reorders and confuses
\* nothing: every handler is one of its operations or changes nothing it sees.
ALO == INSTANCE AtLeastOnce WITH pending <- reqQueue, inflight <- wire
AtLeastOnceDelivery == ALO!Spec

\* After finitely many faults every request queued gets its answer ("should
\* reconnect in case of failure..", app/main.c).
EventuallyAnswered == ALO!Progress

\* The assertion that ends handle_error: the callback has chosen what to do and
\* the client is not left in VHTTPC_ERROR, from which nothing leads on.
ErrorIsHandled == state # "error"

\* The parser is always called through an entry of the table ("Keep in sync with
\* the states enum").
ParserInTable == parseState # "wild"

==============================================================================
