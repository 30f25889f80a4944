------------------------------ MODULE Terminal ------------------------------
(***************************************************************************)
(* An interactive session: the Terminal tab of the frontend                *)
(* (SandboxTerminalTab.tsx), the WebSocket relay of the backend            *)
(* (backend/pkg/handlers/terminal_handler.go) and the exec session behind  *)
(* it, which is the gateway's and external.                                *)
(*                                                                         *)
(* Every connect of the tab is a socket of its own, numbered in the order  *)
(* they are opened; `cur` is the one whose events count. For each socket   *)
(* the backend runs two goroutines: the handler, which reads the socket    *)
(* and writes the session, and the relay, which does the opposite.         *)
(***************************************************************************)
EXTENDS Integers, Sequences

CONSTANTS MaxSockets,  \* bound: times the tab connects
          MaxQueue     \* bound: frames under way in one direction

ASSUME SocketsAssumption == MaxSockets \in Nat \ {0}
ASSUME QueueAssumption == MaxQueue \in Nat \ {0}

VARIABLES cur,      \* the tab's socket, 0 once it is unmounted
          ui,       \* what the tab shows: connected, error, exit, cut
          socket,   \* browser's side of a socket
          up, down, \* frames under way
          handler,  \* the goroutine of Terminal
          relay,    \* the goroutine of relaySessionToWS
          ctx,      \* the context of a session: "live" or "cancelled"
          session   \* "none", "running", "closed", "failed", or its exit status

tab == <<cur, ui, socket>>
backend == <<handler, relay, ctx>>
vars == <<tab, up, down, backend, session>>

Sockets == 1 .. MaxSockets
Statuses == {"exit 0", "exit 1"}
Blank == [connected |-> FALSE, error |-> FALSE, exit |-> "none", cut |-> FALSE]

\* The close frame says why: an exit status, a refusal, or nothing at all.
CloseFrame(reason) == [kind |-> "close", reason |-> reason]
Output == [kind |-> "output", reason |-> ""]

Init ==
    /\ cur = 1
    /\ ui = Blank
    /\ socket = [g \in Sockets |-> IF g = 1 THEN "connecting" ELSE "none"]
    /\ up = [g \in Sockets |-> <<>>]
    /\ down = [g \in Sockets |-> <<>>]
    /\ handler = [g \in Sockets |-> "none"]
    /\ relay = [g \in Sockets |-> "none"]
    /\ ctx = [g \in Sockets |-> "live"]
    /\ session = [g \in Sockets |-> "none"]

-----------------------------------------------------------------------------
\* The tab.

\* Fault: a close without a reason is not a cut.
Fault_Closed(reason) ==
    [ui EXCEPT !.connected = FALSE,
               !.exit = IF reason \in Statuses THEN reason ELSE @,
               !.error = @ \/ reason = "refused"]

\* onclose of the current socket: an exit status, a refusal, or a cut.
Closed(reason) ==
    [ui EXCEPT !.connected = FALSE,
               !.cut = @ \/ reason = "",
               !.exit = IF reason \in Statuses THEN reason ELSE @,
               !.error = @ \/ reason = "refused"]

\* onerror of the current socket, which onclose follows without a reason.
Failed == [ui EXCEPT !.connected = FALSE, !.error = TRUE, !.cut = TRUE]

\* Fault: every socket reports.
Fault_Report(g, state) == ui' = state

\* An event of a socket that was replaced does not reach the state.
Report(g, state) == ui' = IF g = cur THEN state ELSE ui

\* The cleanup of the session that is open: ws.close().
Replaced == IF cur # 0 /\ socket[cur] \in {"connecting", "open"}
            THEN [socket EXCEPT ![cur] = "closing"] ELSE socket

\* Start new session, Reconnect, or another sandbox.
Connect ==
    /\ cur # 0 /\ cur < MaxSockets
    /\ cur' = cur + 1
    /\ ui' = Blank
    /\ socket' = [Replaced EXCEPT ![cur + 1] = "connecting"]
    /\ UNCHANGED <<up, down, backend, session>>

Unmount ==
    /\ cur # 0
    /\ cur' = 0
    /\ socket' = Replaced
    /\ UNCHANGED <<ui, up, down, backend, session>>

\* The browser's side of a socket is closed, and frames on their way to it
\* are lost.
Shut(g) == /\ socket' = [socket EXCEPT ![g] = "closed"]
           /\ down' = [down EXCEPT ![g] = <<>>]

\* onopen: the start message is the first frame.
OnOpen(g) ==
    /\ socket[g] = "connecting" /\ handler[g] # "none"
    /\ socket' = [socket EXCEPT ![g] = "open"]
    /\ up' = [up EXCEPT ![g] = Append(@, "start")]
    /\ Report(g, [ui EXCEPT !.connected = TRUE])
    /\ UNCHANGED <<cur, down, backend, session>>

\* The handshake fails: onerror and onclose.
OnConnectFailed(g) ==
    /\ socket[g] = "connecting"
    /\ Shut(g)
    /\ Report(g, Failed)
    /\ UNCHANGED <<cur, up, backend, session>>

OnMessage(g) ==
    /\ socket[g] = "open" /\ down[g] # <<>>
    /\ Head(down[g]) = Output
    /\ down' = [down EXCEPT ![g] = Tail(@)]
    /\ UNCHANGED <<tab, up, backend, session>>

OnClose(g) ==
    /\ socket[g] = "open" /\ down[g] # <<>>
    /\ Head(down[g]).kind = "close"
    /\ Shut(g)
    /\ Report(g, Closed(Head(down[g]).reason))
    /\ UNCHANGED <<cur, up, backend, session>>

\* The backend closed the connection without a close frame.
OnBackendClosed(g) ==
    /\ socket[g] = "open" /\ handler[g] = "ended" /\ down[g] = <<>>
    /\ Shut(g)
    /\ Report(g, Closed(""))
    /\ UNCHANGED <<cur, up, backend, session>>

\* The network or a proxy cuts the connection, which the browser may report
\* as an error as well.
OnCut(g) ==
    /\ socket[g] = "open"
    /\ Shut(g)
    /\ Report(g, Closed("")) \/ Report(g, Failed)
    /\ UNCHANGED <<cur, up, backend, session>>

\* A socket closed by the tab is done closing. onclose is called then too,
\* with the reason the backend gave if its close frame was there first.
OnReplacedClosed(g) ==
    /\ socket[g] = "closing"
    /\ Shut(g)
    /\ Report(g, Closed(IF down[g] # <<>> THEN down[g][Len(down[g])].reason ELSE ""))
    /\ UNCHANGED <<cur, up, backend, session>>

\* Typing and resizing, which one frame stands for.
Send(g) ==
    /\ socket[g] = "open" /\ Len(up[g]) < MaxQueue
    /\ up' = [up EXCEPT ![g] = Append(@, "input")]
    /\ UNCHANGED <<tab, down, backend, session>>

Tab(g) == \/ OnOpen(g) \/ OnConnectFailed(g) \/ OnMessage(g) \/ OnClose(g)
          \/ OnBackendClosed(g) \/ OnCut(g) \/ OnReplacedClosed(g)
          \/ Send(g)

-----------------------------------------------------------------------------
\* The backend.

Upgrade(g) ==
    /\ socket[g] \in {"connecting", "closing"} /\ handler[g] = "none"
    /\ handler' = [handler EXCEPT ![g] = "start"]
    /\ UNCHANGED <<tab, up, down, relay, ctx, session>>

\* A write to the socket; one to a socket that is gone is dropped.
WriteFrame(g, frame) ==
    down' = [down EXCEPT ![g] = IF socket[g] = "closed" THEN @ ELSE Append(@, frame)]

\* A close frame with why, and the deferred calls.
Refuse(g) ==
    /\ WriteFrame(g, CloseFrame("refused"))
    /\ handler' = [handler EXCEPT ![g] = "ended"]
    /\ ctx' = [ctx EXCEPT ![g] = "cancelled"]

\* readStartMessage: the frame, or none in time, a bad one, or no client.
ReadStartMessage(g) ==
    /\ handler[g] = "start"
    /\ \/ /\ up[g] # <<>> /\ Head(up[g]) = "start"
          /\ up' = [up EXCEPT ![g] = Tail(@)]
          /\ handler' = [handler EXCEPT ![g] = "open"]
          /\ UNCHANGED <<down, ctx>>
       \/ Refuse(g) /\ UNCHANGED up
    /\ UNCHANGED <<tab, relay, session>>

OpenSession(g) ==
    /\ handler[g] = "open"
    /\ \/ /\ session' = [session EXCEPT ![g] = "running"]
          /\ relay' = [relay EXCEPT ![g] = "reading"]
          /\ handler' = [handler EXCEPT ![g] = "relaying"]
          /\ UNCHANGED <<down, ctx>>
       \/ Refuse(g) /\ UNCHANGED <<session, relay>>
    /\ UNCHANGED <<tab, up>>

\* The handler leaves its loop: cancel, then session.Close and ws.Close, in
\* a step of its own so that the relay may come between.
Leave(g) ==
    /\ handler' = [handler EXCEPT ![g] = "leaving"]
    /\ ctx' = [ctx EXCEPT ![g] = "cancelled"]

\* Fault: the loop is left for a close of the browser and not for a cut.
Fault_ReadFails(g) ==
    /\ handler[g] = "relaying"
    /\ socket[g] = "closing"
    /\ Leave(g)
    /\ UNCHANGED <<tab, up, down, relay, session>>

\* ReadMessage fails once the browser's side is closed or gone.
ReadFails(g) ==
    /\ handler[g] = "relaying"
    /\ socket[g] \in {"closing", "closed"}
    /\ Leave(g)
    /\ UNCHANGED <<tab, up, down, relay, session>>

\* A frame is read, and its write to the session (Write, Resize) begins.
ReadFrame(g) ==
    /\ handler[g] = "relaying"
    /\ up[g] # <<>>
    /\ up' = [up EXCEPT ![g] = Tail(@)]
    /\ handler' = [handler EXCEPT ![g] = "writing"]
    /\ UNCHANGED <<tab, down, relay, ctx, session>>

\* External: the session takes what is written. It need not, for a command
\* that does not read its input holds the write up (flow control).
SessionTakes(g) ==
    /\ handler[g] = "writing"
    /\ session[g] = "running" /\ ctx[g] = "live"
    /\ handler' = [handler EXCEPT ![g] = "relaying"]
    /\ UNCHANGED <<tab, up, down, relay, ctx, session>>

\* The write returns by itself once the session or its context has ended. A
\* resize's error is ignored. A write's is too when it is io.EOF, which is
\* how a session that has ended refuses it; another error ends the loop.
WriteReturns(g) ==
    /\ handler[g] = "writing"
    /\ session[g] # "running" \/ ctx[g] = "cancelled"
    /\ \/ handler' = [handler EXCEPT ![g] = "relaying"] /\ UNCHANGED ctx
       \/ Leave(g)
    /\ UNCHANGED <<tab, up, down, relay, session>>

\* Fault: the session is left to itself.
Fault_CloseSession(g) ==
    /\ handler[g] = "leaving"
    /\ handler' = [handler EXCEPT ![g] = "ended"]
    /\ UNCHANGED <<tab, up, down, relay, ctx, session>>

CloseSession(g) ==
    /\ handler[g] = "leaving"
    /\ handler' = [handler EXCEPT ![g] = "ended"]
    /\ session' = [session EXCEPT ![g] = IF @ = "running" THEN "closed" ELSE @]
    /\ UNCHANGED <<tab, up, down, relay, ctx>>

\* session.Read returns output, which is written to the socket.
RelayOutput(g) ==
    /\ relay[g] = "reading" /\ session[g] = "running" /\ ctx[g] = "live"
    /\ Len(down[g]) < MaxQueue
    /\ WriteFrame(g, Output)
    /\ UNCHANGED <<tab, up, backend, session>>

\* sessionCloseMessage: the exit status if there is one.
CloseReason(g) == IF session[g] \in Statuses THEN session[g] ELSE "refused"

\* Fault: the relay ends without a word.
Fault_RelayEnds(g) ==
    /\ relay[g] = "reading"
    /\ session[g] # "running" \/ ctx[g] = "cancelled"
    /\ relay' = [relay EXCEPT ![g] = "ended"]
    /\ UNCHANGED <<tab, up, down, handler, ctx, session>>

\* session.Read fails: the session ended, or its context did. The close
\* frame goes nowhere when the handler has closed the socket first.
RelayEnds(g) ==
    /\ relay[g] = "reading"
    /\ session[g] # "running" \/ ctx[g] = "cancelled"
    /\ IF handler[g] = "ended" THEN UNCHANGED down
                               ELSE WriteFrame(g, CloseFrame(CloseReason(g)))
    /\ relay' = [relay EXCEPT ![g] = "ended"]
    /\ ctx' = [ctx EXCEPT ![g] = "cancelled"]
    /\ UNCHANGED <<tab, up, handler, session>>

Handler(g) == \/ ReadStartMessage(g) \/ OpenSession(g) \/ ReadFails(g)
              \/ ReadFrame(g) \/ WriteReturns(g) \/ CloseSession(g)
Relay(g) == RelayOutput(g) \/ RelayEnds(g)

\* External: the command exits, or the gateway refuses it or is lost.
SessionEnds(g) ==
    /\ session[g] = "running" /\ ctx[g] = "live"
    /\ \E s \in Statuses \cup {"failed"} : session' = [session EXCEPT ![g] = s]
    /\ UNCHANGED <<tab, up, down, backend>>

Next == \/ Connect \/ Unmount
        \/ \E g \in Sockets : \/ Tab(g) \/ Upgrade(g) \/ Handler(g) \/ Relay(g)
                              \/ SessionTakes(g) \/ SessionEnds(g)

\* The backend's goroutines are scheduled, and the browser delivers the
\* events of its sockets. Neither the user nor the session owes anything,
\* not even to take what is written to it.
Spec == /\ Init /\ [][Next]_vars
        /\ \A g \in Sockets :
              /\ WF_vars(Handler(g)) /\ WF_vars(RelayEnds(g))
              /\ WF_vars(OnMessage(g) \/ OnClose(g) \/ OnBackendClosed(g))

-----------------------------------------------------------------------------

\* Every variable has its type.
TypeOK ==
    /\ cur \in 0 .. MaxSockets
    /\ ui \in [connected : BOOLEAN, error : BOOLEAN, exit : Statuses \cup {"none"},
               cut : BOOLEAN]
    /\ socket \in [Sockets -> {"none", "connecting", "open", "closing", "closed"}]
    /\ up \in [Sockets -> Seq({"start", "input"})]
    /\ down \in [Sockets -> Seq([kind : {"output", "close"},
                                 reason : Statuses \cup {"", "refused"}])]
    /\ handler \in [Sockets -> {"none", "start", "open", "relaying", "writing",
                            "leaving", "ended"}]
    /\ relay \in [Sockets -> {"none", "reading", "ended"}]
    /\ ctx \in [Sockets -> {"live", "cancelled"}]
    /\ session \in [Sockets -> {"none", "running", "closed", "failed"} \cup Statuses]

\* An exit code is shown only for the session on the screen, and only the one
\* its command exited with; a session cut short is never a success.
ExitIsTrue == ui.exit # "none" /\ cur # 0 => session[cur] = ui.exit

\* The tab never goes on looking as if it were connecting, or connected, once
\* its socket is closed: it says how the session ended or that it cannot.
NoSilentEnd ==
    cur # 0 =>
        /\ ui.connected <=> socket[cur] = "open"
        /\ socket[cur] = "closed" <=> ui.error \/ ui.cut \/ ui.exit # "none"

\* No session is left running in the sandbox by a handler that is gone.
NoOrphanSession ==
    \A g \in Sockets : handler[g] = "ended" => session[g] # "running"

\* A write to the session is held up: the command runs on and takes nothing.
HeldUp(g) == handler[g] = "writing" /\ session[g] = "running" /\ ctx[g] = "live"

\* Once a socket is closed, for whatever reason, both of its goroutines end,
\* unless a write to the session is held up for good: it has no deadline, and
\* the closing of the socket is only noticed by the read that follows it.
GoroutinesEnd ==
    \A g \in Sockets :
        []<>~HeldUp(g) =>
            ((socket[g] = "closed" /\ handler[g] # "none")
                ~> (handler[g] = "ended" /\ relay[g] # "reading"))

\* A session that ends closes its socket, without the user's help.
EndIsShown ==
    \A g \in Sockets :
        (session[g] \in Statuses) ~> (socket[g] \in {"closing", "closed"})
=============================================================================
