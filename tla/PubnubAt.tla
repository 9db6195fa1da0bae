------------------------------ MODULE PubnubAt -------------------------------
(***************************************************************************)
(* The virtual AT terminal: src/tcp/pubnub.c and src/tcp/pubnub_at.c on    *)
(* top of the HTTP client.  One static subscribe request waits, as a long  *)
(* poll, for AT commands published on a channel; every response a command  *)
(* produces is published by a request of its own, allocated and freed on   *)
(* the way; the console subscribes again when it has nothing else to do.   *)
(*                                                                         *)
(* Every action is the VeHttpc action of the handler, with the callbacks   *)
(* of these two files filled in: json_parse, subscribe_callback,           *)
(* publish_callback and at_rspHandler.  The AT command interpreter, and    *)
(* the modem's own one behind it, are external: a command either answers   *)
(* while it is being sent ("local"), answers later ("adl"), or is not      *)
(* accepted ("refused").                                                   *)
(***************************************************************************)
EXTENDS VeHttpc, FiniteSets

CONSTANTS
    Sub,             \* nubat->subReq
    MaxCmds,         \* commands in one reply
    MaxOutstanding   \* bound: modem commands running at once

ASSUME SubAssumption == Sub \in Requests
ASSUME AddsAssumption == {<<>>, <<Sub>>} \subseteq Batches
ASSUME CommandsAssumption == MaxCmds \in Nat /\ MaxOutstanding \in Nat

Pubs == Requests \ {Sub}

VARIABLES
    booted,          \* pubnub_at_console has run
    atCmdPending,    \* nubat->atCmdPending
    outstanding,     \* modem commands whose terminal response is still to come
    heap,            \* the publish requests allocated by pubnub_atPublishN
    yajl,            \* parser handles a request owns: 1, 0 once it was freed
    level,           \* nubreq->level, the nesting json_string goes by
    parsed           \* the reply's JSON document is complete

console == <<booted, atCmdPending, outstanding, heap, yajl, level, parsed>>
atVars == <<vars, console>>

AtInit ==
    /\ Init
    /\ booted = FALSE
    /\ atCmdPending = FALSE
    /\ outstanding = 0
    /\ heap = {}
    /\ yajl = [r \in Requests |-> 0]
    /\ level = [r \in Requests |-> 0]
    /\ parsed = FALSE

Elements(seq) == {seq[i] : i \in 1..Len(seq)}

------------------------------------------------------------------------------
(* The callbacks.                                                            *)

\* Mutant of BeingSentAgain: without yajl_free.
BeingSentAgainLeaks ==
    /\ yajl' = [yajl EXCEPT ![Head(reqQueue)] = @ + 1]
    /\ parsed' = FALSE

\* json_parse on REQ_BEING_SEND allocates a parser; on REQ_BEING_SEND_AGAIN it
\* frees the one it has first.  The nesting level is left as it is.
BeingSent(r) ==
    /\ yajl' = [yajl EXCEPT ![r] = @ + 1]
    /\ parsed' = FALSE

BeingSentAgain ==
    /\ UNCHANGED yajl
    /\ parsed' = FALSE

\* pubnub_atPublishN from the event loop: a request is allocated and added.
Publish(p) ==
    /\ p \in Pubs \ heap
    /\ Add(p)
    /\ heap' = heap \cup {p}
    /\ level' = [level EXCEPT ![p] = 0]
    /\ IF reqQueue = <<>> /\ state = "idle"
       THEN BeingSent(p)
       ELSE UNCHANGED <<yajl, parsed>>

\* What a command sent by subscribe_callback can come to.
Outcomes == {"local", "adl", "refused"}

Replies(max) == UNION {[1..n -> Outcomes] : n \in 0..max}

NumberOf(outcome, cmds) == Cardinality({i \in DOMAIN cmds : cmds[i] = outcome})

\* The strings json_string hands to subscribe_callback: all at a level above 1.
\* That is the list of commands; from a level that did not start at 0 it is the
\* time token behind them as well, which the modem accepts or refuses.
Strings == IF level[Sub] = 0
           THEN Replies(MaxCmds)
           ELSE {Append(cmds, o) : cmds \in Replies(MaxCmds), o \in {"adl", "refused"}}

\* The responses published from inside: a local command gives its terminal one, and a
\* listing one per register before it.  Batches is the bound of their number.
Published(cmds, adds) ==
    /\ Elements(adds) \subseteq Pubs \ heap
    /\ IF NumberOf("local", cmds) = 0 THEN adds = <<>> ELSE Len(adds) >= NumberOf("local", cmds)

\* Mutant of RunCommands: pending is set after the command was sent, over the
\* terminal response a local command has already given.
RunCommandsPendingLate(cmds, adds) ==
    /\ Published(cmds, adds)
    /\ outstanding' = outstanding + NumberOf("adl", cmds)
    /\ outstanding' <= MaxOutstanding
    /\ atCmdPending' = IF cmds = <<>> THEN atCmdPending
                       ELSE cmds[Len(cmds)] # "refused"
    /\ heap' = heap \cup Elements(adds)

\* subscribe_callback on NUB_DATA for each of them: pending is set before and
\* reset by the terminal response or the refusal, so the last one decides.
RunCommands(cmds, adds) ==
    /\ Published(cmds, adds)
    /\ outstanding' = outstanding + NumberOf("adl", cmds)
    /\ outstanding' <= MaxOutstanding
    /\ atCmdPending' = IF cmds = <<>> THEN atCmdPending
                       ELSE cmds[Len(cmds)] = "adl"
    /\ heap' = heap \cup Elements(adds)

\* Mutant of Subscription: nobody subscribes unless the queue was never used.
SubscriptionForgotten(queue) == IF queue = <<>> /\ ~booted THEN <<Sub>> ELSE <<>>

\* pubnub_atSubscribe: what it adds behind the queue that is left.
Subscription(queue) == IF queue = <<>> /\ ~atCmdPending THEN <<Sub>> ELSE <<>>

------------------------------------------------------------------------------
(* The handlers.                                                             *)

\* pubnub_at_console publishes a first message: "From here on it should take
\* care of itself".
Boot(p) ==
    /\ ~booted
    /\ booted' = TRUE
    /\ Publish(p)
    /\ UNCHANGED <<atCmdPending, outstanding>>

\* at_rspHandler for a modem command: publish, and no longer pending when the
\* response is terminal.
AtResponse(p) ==
    /\ outstanding > 0
    /\ Publish(p)
    /\ UNCHANGED <<booted, atCmdPending, outstanding>>

AtTerminalResponse(p) ==
    /\ outstanding > 0
    /\ Publish(p)
    /\ outstanding' = outstanding - 1
    /\ atCmdPending' = FALSE
    /\ UNCHANGED booted

\* REQ_DATA with the complete JSON document.  yajl_complete_parse accepts no
\* less, and an empty fragment after it changes nothing.
SubscribeData(cmds, adds) ==
    /\ ~parsed
    /\ parsed' = TRUE
    /\ reqQueue # <<>> /\ Head(reqQueue) = Sub
    /\ ParseContent(adds)
    /\ RunCommands(cmds, adds)
    /\ level' = [r \in Requests |-> IF r \in Elements(adds) THEN 0 ELSE level[r]]
    /\ UNCHANGED <<booted, yajl>>

PublishData ==
    /\ ~parsed
    /\ parsed' = TRUE
    /\ reqQueue # <<>> /\ Head(reqQueue) \in Pubs
    /\ ParseContent(<<>>)
    /\ UNCHANGED <<booted, atCmdPending, outstanding, heap, yajl, level>>

\* REQ_DATA with a document that is cut, damaged or has too long a token: the
\* strings before that point have been acted on and open arrays stay counted.
SubscribeDataRejected(cmds, adds, open) ==
    /\ ~parsed
    /\ reqQueue # <<>> /\ Head(reqQueue) = Sub
    /\ ParseRejected(adds)
    /\ RunCommands(cmds, adds)
    /\ level' = [r \in Requests |-> CASE r = Sub -> level[r] + open
                                      [] r \in Elements(adds) -> 0
                                      [] OTHER -> level[r]]
    /\ UNCHANGED <<booted, yajl, parsed>>

PublishDataRejected(open) ==
    /\ ~parsed
    /\ reqQueue # <<>> /\ Head(reqQueue) \in Pubs
    /\ ParseRejected(<<>>)
    /\ level' = [level EXCEPT ![Head(reqQueue)] = @ + open]
    /\ UNCHANGED <<booted, atCmdPending, outstanding, heap, yajl, parsed>>

\* Mutant of RequestDone: publish_callback without ve_free.
RequestDoneLeaks ==
    /\ parsed
    /\ ParseDone(Subscription(Tail(reqQueue)))
    /\ yajl' = [yajl EXCEPT ![Head(reqQueue)] = @ - 1]
    /\ UNCHANGED <<booted, atCmdPending, outstanding, heap, level, parsed>>

\* REQ_DONE: the parser is freed; publish_callback frees the request as well;
\* both callbacks subscribe if nothing else is left to do.
RequestDone ==
    /\ parsed
    /\ ParseDone(Subscription(Tail(reqQueue)))
    /\ LET r == Head(reqQueue) IN
        /\ yajl' = [yajl EXCEPT ![r] = @ - 1]
        /\ heap' = heap \ {r}
    /\ UNCHANGED <<booted, atCmdPending, outstanding, level, parsed>>

\* The tail of WIP_CEV_READ.
AtReadEnd ==
    /\ ReadEnd
    /\ IF parseState = "done" /\ reqQueue # <<>>
       THEN BeingSent(Head(reqQueue))
       ELSE UNCHANGED <<yajl, parsed>>
    /\ UNCHANGED <<booted, atCmdPending, outstanding, heap, level>>

AtTimeoutRetry ==
    /\ TimeoutRetry
    /\ BeingSentAgain
    /\ UNCHANGED <<booted, atCmdPending, outstanding, heap, level>>

\* Events that reach neither file, or make json_parse do no more than retry.
Transport ==
    /\ \/ TcpOpen \/ TcpWrite \/ TcpRead
       \/ ParseHead \/ ParseMalformed \/ ParseTrailing \/ TcpStray
       \/ TcpError \/ TcpPeerClose \/ PeerMute
       \/ TimeoutOpen \/ TimeoutFails
    /\ UNCHANGED console

Data ==
    \E adds \in Batches : \E cmds \in Strings :
        \/ SubscribeData(cmds, adds)
        \/ \E open \in 0..2 : SubscribeDataRejected(cmds, adds, open)

AtNext ==
    \/ \E p \in Pubs : Boot(p) \/ AtResponse(p) \/ AtTerminalResponse(p)
    \/ Data \/ PublishData \/ \E open \in 0..1 : PublishDataRejected(open)
    \/ RequestDone \/ AtReadEnd \/ AtTimeoutRetry
    \/ Transport

AtSpec == AtInit /\ [][AtNext]_atVars

------------------------------------------------------------------------------
(* Fairness: that of the client below, a peer that answers with a sound        *)
(* document, and a modem that ends every command.                              *)

Network == (TcpOpen \/ TcpWrite \/ TcpRead) /\ UNCHANGED console
Recovery == (ClosingEvent \/ HopelessTimeout) /\ UNCHANGED console
AnyData == \E adds \in Batches : \E cmds \in Strings : SubscribeData(cmds, adds)
AnyTerminalResponse == \E p \in Pubs : AtTerminalResponse(p)

AtFairSpec ==
    /\ AtSpec
    /\ WF_atVars(\E p \in Pubs : Boot(p))
    /\ WF_atVars(Network) /\ WF_atVars(Recovery)
    /\ WF_atVars(AtReadEnd) /\ WF_atVars(AtTimeoutRetry)
    /\ SF_atVars(ParseHead /\ UNCHANGED console)
    /\ SF_atVars(AnyData) /\ SF_atVars(PublishData) /\ SF_atVars(RequestDone)
    /\ SF_atVars(AnyTerminalResponse)

------------------------------------------------------------------------------
(* Properties.                                                                 *)

\* "From here on it should take care of itself": the console never ends up with
\* an empty queue and nobody who will fill it.  pubnub_atSubscribe declines
\* while a command is pending, so a modem command must then really be running,
\* whose terminal response will publish and in the end subscribe again; this
\* has to survive commands answered while they are being sent, refused, or
\* repeated by a second reply.
NeverAllAsleep ==
    /\ booted /\ reqQueue = <<>> => atCmdPending
    /\ atCmdPending => outstanding > 0

\* A publish request is allocated exactly while it is queued: none is leaked
\* when the connection fails under it and none is freed while the client still
\* links to it.
HeapIsQueue == heap = {p \in Pubs : Queued(p)}

\* json_parse frees and allocates the JSON parser of a request in step with the
\* retries of the client: the head owns exactly one from its first transmission
\* to its REQ_DONE, the others none, so that REQ_BEING_SEND_AGAIN and REQ_DONE
\* free a live handle and none is lost.
HeadHasBeenSent ==
    /\ reqQueue # <<>>
    /\ state # "error"
    /\ ~(rx /\ parseState \in {"done", "wild"})

ParserOwnership ==
    \A r \in Requests :
        yajl[r] = IF HeadHasBeenSent /\ r = Head(reqQueue) THEN 1 ELSE 0

\* A resend starts clean ("resend, cleaning up"): while none of the reply has been
\* parsed, the head counts no open array.
ResendStartsClean ==
    HeadHasBeenSent /\ parseState = "http" => level[Head(reqQueue)] = 0

\* After finitely many faults the console always comes back to listening: a
\* complete subscribe request is with the server again and again.
KeepsListening == []<>(wire = Sub)

==============================================================================
