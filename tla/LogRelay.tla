------------------------------ MODULE LogRelay ------------------------------
(***************************************************************************)
(* The log stream of the backend: StreamSandboxLogs and relaySandboxLogs   *)
(* of backend/pkg/handlers/logs_handler.go, for one request.               *)
(*                                                                         *)
(* The handler writes server-sent events; a goroutine receives from the    *)
(* gateway and hands on over a channel of one. A log line is its position  *)
(* in the sandbox's log, which the gateway (external) follows. The browser *)
(* (external) may close its source, or the connection be cut, at any time. *)
(***************************************************************************)
EXTENDS Integers, Sequences

CONSTANTS MaxLines,  \* bound: lines the sandbox logs
          MaxWire,   \* bound: frames under way before a write blocks
          Lines      \* the query parameter: how much of the tail to replay

ASSUME BoundsAssumption == /\ MaxLines \in Nat
                           /\ MaxWire \in Nat \ {0}
                           /\ Lines \in Nat \ {0}

VARIABLES log,       \* sandbox: lines logged so far
          stream,    \* gateway: "open", "eof" or "broken"
          first,     \* the line the replay starts with
          next,      \* the line the stream delivers next
          handler,   \* StreamSandboxLogs: "watch", "first", "relaying", "ended"
          receiver,  \* its goroutine: "none", "recv", "offer", "ended"
          hand,      \* the event it holds
          incoming,  \* the channel
          ctx,       \* "live" or "done"
          wire,      \* frames on the way to the browser
          source,    \* the browser's EventSource: "open" or "closed"
          got        \* frames the browser was given

gateway == <<log, stream, first, next>>
vars == <<gateway, handler, receiver, hand, incoming, ctx, wire, source, got>>

Status == 0   \* an event that is not a line: nothing is forwarded
Eof == -1     \* "end"
Broken == -2  \* "stream-error"

Init ==
    /\ log \in 0 .. MaxLines
    /\ stream = "open"
    /\ first = 1 /\ next = 1
    /\ handler = "watch" /\ receiver = "none"
    /\ hand = Status
    /\ incoming = <<>>
    /\ ctx = "live"
    /\ wire = <<>>
    /\ source = "open"
    /\ got = <<>>

-----------------------------------------------------------------------------
\* The handler.

\* It returns: its deferred cancel ends the gateway's stream.
Return == handler' = "ended" /\ ctx' = "done"

\* The gateway replays the tail that was asked for and follows, or refuses.
WatchSandboxLogs ==
    /\ handler = "watch"
    /\ \/ /\ handler' = "first"
          /\ first' = IF log > Lines THEN log - Lines + 1 ELSE 1
          /\ next' = first'
          /\ UNCHANGED ctx
       \/ Return /\ UNCHANGED <<first, next>>
    /\ UNCHANGED <<log, stream, receiver, hand, incoming, wire, source, got>>

StreamOver == stream # "open" \/ ctx = "done"

\* The first Recv, before any header: the status of the sandbox, or an error,
\* which can still be answered with a status code of its own. The frame that
\* opens the response may meet a browser that is gone.
FirstEvent ==
    /\ handler = "first"
    /\ \/ /\ ~StreamOver
          /\ handler' = "relaying" /\ receiver' = "recv"
          /\ UNCHANGED ctx
       \/ /\ StreamOver \/ source = "closed"
          /\ Return /\ UNCHANGED receiver
    /\ UNCHANGED <<gateway, hand, incoming, wire, source, got>>

\* A write waits while the wire is full. After ten seconds it fails.
Write(frame) == source = "open" /\ Len(wire) < MaxWire /\ wire' = Append(wire, frame)
WriteFails == (source = "closed" \/ Len(wire) = MaxWire) /\ UNCHANGED wire

\* One event from the channel: a line is forwarded, the end is announced,
\* unless the context ended with it.
RelayEvent ==
    /\ handler = "relaying" /\ incoming # <<>>
    /\ incoming' = <<>>
    /\ LET event == Head(incoming) IN
       \/ event = Status /\ UNCHANGED <<handler, ctx, wire>>
       \/ event > 0 /\ Write(event) /\ UNCHANGED <<handler, ctx>>
       \/ event > 0 /\ WriteFails /\ Return
       \/ event < 0 /\ ctx = "live" /\ (Write(event) \/ WriteFails) /\ Return
       \/ event < 0 /\ ctx = "done" /\ UNCHANGED wire /\ Return
    /\ UNCHANGED <<gateway, receiver, hand, source, got>>

RelayDone ==
    /\ handler = "relaying" /\ ctx = "done"
    /\ Return
    /\ UNCHANGED <<gateway, receiver, hand, incoming, wire, source, got>>

\* A keepalive that cannot be written. One that can leaves nothing behind.
HeartbeatFails ==
    /\ handler = "relaying" /\ WriteFails
    /\ Return
    /\ UNCHANGED <<gateway, receiver, hand, incoming, source, got>>

-----------------------------------------------------------------------------
\* The goroutine.

\* Fault: every end is a regular one.
Fault_HowItEnded == Eof

HowItEnded == IF stream = "eof" /\ ctx = "live" THEN Eof ELSE Broken

\* Recv: the next line, a status, or how the stream ended.
Recv ==
    /\ receiver = "recv"
    /\ \/ /\ ~StreamOver /\ next <= log
          /\ hand' = next /\ next' = next + 1
       \/ /\ ~StreamOver /\ hand # Status
          /\ hand' = Status /\ UNCHANGED next
       \/ /\ StreamOver
          /\ hand' = HowItEnded
          /\ UNCHANGED next
    /\ receiver' = "offer"
    /\ UNCHANGED <<log, stream, first, handler, incoming, ctx, wire, source, got>>

\* Fault: an event is dropped while the channel is full.
Fault_OfferDrops ==
    /\ receiver = "offer"
    /\ incoming' = IF incoming = <<>> THEN <<hand>> ELSE incoming
    /\ receiver' = IF hand < 0 THEN "ended" ELSE "recv"
    /\ UNCHANGED <<gateway, handler, hand, ctx, wire, source, got>>

\* Fault: the channel alone is waited for.
Fault_OfferWaits ==
    /\ receiver = "offer"
    /\ incoming = <<>>
    /\ incoming' = <<hand>>
    /\ receiver' = IF hand < 0 THEN "ended" ELSE "recv"
    /\ UNCHANGED <<gateway, handler, hand, ctx, wire, source, got>>

\* The channel takes the event, or the context ends while it is full.
Offer ==
    /\ receiver = "offer"
    /\ \/ /\ incoming = <<>>
          /\ incoming' = <<hand>>
          /\ receiver' = IF hand < 0 THEN "ended" ELSE "recv"
       \/ /\ ctx = "done"
          /\ receiver' = "ended"
          /\ UNCHANGED incoming
    /\ UNCHANGED <<gateway, handler, hand, ctx, wire, source, got>>

-----------------------------------------------------------------------------
\* External: the sandbox, the gateway and the browser.

Log ==
    /\ log < MaxLines
    /\ log' = log + 1
    /\ UNCHANGED <<stream, first, next, handler, receiver, hand, incoming, ctx,
                   wire, source, got>>

\* The gateway ends the stream, or it breaks. What is under way is lost.
StreamEnds ==
    /\ handler # "ended" /\ stream = "open"
    /\ stream' \in {"eof", "broken"}
    /\ UNCHANGED <<log, first, next, handler, receiver, hand, incoming, ctx,
                   wire, source, got>>

\* net/http notices that the browser is gone, or the server shuts down.
RequestEnds ==
    /\ ctx = "live"
    /\ ctx' = "done"
    /\ UNCHANGED <<gateway, handler, receiver, hand, incoming, wire, source, got>>

BrowserReads ==
    /\ source = "open" /\ wire # <<>>
    /\ got' = Append(got, Head(wire))
    /\ wire' = Tail(wire)
    /\ UNCHANGED <<gateway, handler, receiver, hand, incoming, ctx, source>>

\* The tab closes its source, or the connection is cut.
BrowserLeaves ==
    /\ source = "open"
    /\ source' = "closed"
    /\ wire' = <<>>
    /\ UNCHANGED <<gateway, handler, receiver, hand, incoming, ctx, got>>

Handler == WatchSandboxLogs \/ FirstEvent \/ RelayEvent \/ RelayDone
Receiver == Recv \/ Offer

Next == \/ Handler \/ HeartbeatFails \/ Receiver
        \/ Log \/ StreamEnds \/ RequestEnds \/ BrowserReads \/ BrowserLeaves

\* Goroutines are scheduled, the ticker ticks, and a browser that is there
\* reads. Nothing is asked of the gateway or the sandbox.
Spec == /\ Init /\ [][Next]_vars
        /\ WF_vars(Handler) /\ WF_vars(Receiver) /\ WF_vars(BrowserReads)
        /\ WF_vars(HeartbeatFails /\ source = "closed")

-----------------------------------------------------------------------------

\* Every variable has its type.
TypeOK ==
    /\ log \in 0 .. MaxLines
    /\ stream \in {"open", "eof", "broken"}
    /\ first \in 1 .. MaxLines + 1 /\ next \in 1 .. MaxLines + 1
    /\ handler \in {"watch", "first", "relaying", "ended"}
    /\ receiver \in {"none", "recv", "offer", "ended"}
    /\ hand \in Broken .. MaxLines
    /\ incoming \in Seq(Broken .. MaxLines) /\ Len(incoming) <= 1
    /\ ctx \in {"live", "done"}
    /\ wire \in Seq(Broken .. MaxLines) /\ Len(wire) <= MaxWire
    /\ source \in {"open", "closed"}
    /\ got \in Seq(Broken .. MaxLines)

Sent == got \o wire

\* What is sent is the log from the start of the tail on: in order, no line
\* missing, none twice. Nothing follows the frame that ends it.
InOrder ==
    \A k \in DOMAIN Sent :
        Sent[k] = first + k - 1 \/ (Sent[k] < 0 /\ k = Len(Sent))

\* A stream that is announced as ended is one the gateway ended, and every
\* line it delivered before that was sent. One that broke is never "end".
EndIsHonest ==
    Sent # <<>> => LET last == Sent[Len(Sent)] IN
        /\ last = Eof => stream = "eof"
        /\ last = Broken => stream = "broken"
        /\ last < 0 => Len(Sent) - 1 = next - first

\* A handler whose browser is gone ends, and its goroutine with it, even one
\* that waits for the gateway or to hand an event on.
GoroutinesEnd ==
    source = "closed" ~> handler = "ended" /\ receiver \in {"none", "ended"}

\* A line the sandbox logs reaches the browser, unless the stream ends first.
LinesArrive ==
    \A n \in 1 .. MaxLines :
        handler = "relaying" /\ first <= n /\ n <= log
            ~> handler = "ended" \/ source = "closed" \/ \E k \in DOMAIN got : got[k] = n
=============================================================================
