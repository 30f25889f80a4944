------------------------------ MODULE StdinExec ------------------------------
(***************************************************************************)
(* ExecWithStdinStream of backend/pkg/clients/rawexec.go: a command run in *)
(* a sandbox over one bidirectional gRPC stream, with its stdin read from  *)
(* a request body while it is sent.                                        *)
(*                                                                         *)
(* A goroutine (the sender) reads the body and sends; the caller receives. *)
(* The context they share ends when the reader fails, when the receiver is *)
(* done, and when the caller's timeout passes or its client leaves. The    *)
(* stream, the gateway and the command are external: messages arrive in    *)
(* order, flow control lets Window of them wait, and the stream may break  *)
(* at any point.                                                           *)
(***************************************************************************)
EXTENDS Integers, Sequences

CONSTANTS MaxChunks,  \* bound: stdinChunkSize chunks in the payload
          Window      \* gRPC flow control: messages sent and not yet taken

ASSUME ChunksAssumption == MaxChunks \in Nat
ASSUME WindowAssumption == Window \in Nat \ {0}

VARIABLES total,     \* chunks in the payload
          left,      \* chunks the reader has not handed out
          reader,    \* "reading", "ended" or "failed"
          sendPc,    \* the sender: "start", "fill", "send", "close", "done"
          sentErr,   \* what it left in the channel `sent`
          recvPc,    \* the caller: "recv", "wait" (for sent), "returned"
          recvErr, exitCode,
          call,      \* Running, or what was returned
          ctx,       \* "live" or "cancelled"
          up, down,  \* messages under way, in each direction
          gateway,   \* "open", or how it ended the stream: "ok", "failed"
          cmd,       \* "none", "running", "exited"
          fed,       \* chunks the command was given
          toldEnd    \* the command's stdin was closed

Running == [err |-> "pending", exit |-> -1]
Output == -2  \* an event with output; any other event is an exit code

sender == <<left, reader, sendPc, sentErr>>
receiver == <<recvPc, recvErr, exitCode, call>>
remote == <<gateway, cmd, fed, toldEnd>>
vars == <<total, sender, receiver, ctx, up, down, remote>>

Init ==
    /\ total \in 0 .. MaxChunks
    /\ left = total
    /\ reader = "reading"
    /\ sendPc = "start" /\ sentErr = "none"
    /\ recvPc = "recv" /\ recvErr = "none" /\ exitCode = -1
    /\ call = Running
    /\ ctx = "live"
    /\ up = <<>> /\ down = <<>>
    /\ gateway = "open"
    /\ cmd = "none" /\ fed = 0 /\ toldEnd = FALSE

\* The stream is over as far as this side can tell.
StreamOver == ctx = "cancelled" \/ gateway # "open"

-----------------------------------------------------------------------------
\* The sender.

\* Fault: a send waits for the window alone, not for the end of the stream.
Fault_SendOn(m, nextPc) ==
    /\ ~StreamOver /\ Len(up) < Window
    /\ up' = Append(up, m)
    /\ sendPc' = nextPc
    /\ UNCHANGED sentErr

\* Send puts a message on the stream, waiting while the window is full. Once
\* the stream is over it fails, or what it sends is dropped.
SendOn(m, nextPc) ==
    \/ /\ ~StreamOver /\ Len(up) < Window
       /\ up' = Append(up, m)
       /\ sendPc' = nextPc
       /\ UNCHANGED sentErr
    \/ /\ StreamOver
       /\ sendPc' = "done" /\ sentErr' = "stream"
       /\ UNCHANGED up
    \/ /\ StreamOver
       /\ sendPc' = nextPc
       /\ UNCHANGED <<up, sentErr>>

SendStart ==
    /\ sendPc = "start"
    /\ SendOn("start", "fill")
    /\ UNCHANGED <<total, left, reader, receiver, ctx, down, remote>>

\* One chunk is filled. The end of the reader may come with its last bytes
\* or, when those filled a chunk, in a read of its own.
FillChunk ==
    /\ sendPc = "fill"
    /\ \/ /\ left > 0
          /\ left' = left - 1
          /\ sendPc' = "send"
          /\ reader' \in {"reading"} \cup (IF left = 1 THEN {"ended"} ELSE {})
       \/ /\ left = 0
          /\ reader' = "ended"
          /\ sendPc' = "close"
          /\ UNCHANGED left
    /\ UNCHANGED <<total, sentErr, receiver, ctx, up, down, remote>>

\* Fault: a reader that fails is taken for one that has ended.
Fault_FillFails ==
    /\ sendPc = "fill"
    /\ reader' = "failed"
    /\ sendPc' = "close"
    /\ UNCHANGED <<total, left, sentErr, receiver, ctx, up, down, remote>>

\* The reader fails: a dropped connection, a body past its limit. What was
\* read of the chunk is not sent, and the stream is cancelled.
FillFails ==
    /\ sendPc = "fill"
    /\ reader' = "failed"
    /\ ctx' = "cancelled"
    /\ sendPc' = "done" /\ sentErr' = "reader"
    /\ UNCHANGED <<total, left, receiver, up, down, remote>>

SendChunk ==
    /\ sendPc = "send"
    /\ SendOn("chunk", IF reader = "ended" THEN "close" ELSE "fill")
    /\ UNCHANGED <<total, left, reader, receiver, ctx, down, remote>>

\* CloseSend never blocks.
CloseSend ==
    /\ sendPc = "close"
    /\ up' = IF StreamOver THEN up ELSE Append(up, "end")
    /\ sendPc' = "done"
    /\ UNCHANGED <<total, left, reader, sentErr, receiver, ctx, down, remote>>

-----------------------------------------------------------------------------
\* The caller, which receives.

\* An event: output, which is collected, or the exit code.
RecvEvent ==
    /\ recvPc = "recv" /\ down # <<>>
    /\ exitCode' = IF Head(down) = Output THEN exitCode ELSE Head(down)
    /\ down' = Tail(down)
    /\ UNCHANGED <<total, sender, recvPc, recvErr, call, ctx, up, remote>>

\* The loop is left, on io.EOF or an error, and the context is cancelled so
\* that the sender cannot be left waiting to send.
StopReceiving(err) ==
    /\ recvErr' = err
    /\ recvPc' = "wait"
    /\ ctx' = "cancelled"
    /\ UNCHANGED <<total, sender, exitCode, call, up, down, remote>>

RecvEnd ==
    /\ recvPc = "recv" /\ down = <<>>
    /\ gateway # "open"
    /\ StopReceiving(IF gateway = "ok" THEN "none" ELSE "stream")

\* A cancelled stream fails at once, whatever is still under way on it.
RecvCancelled ==
    /\ recvPc = "recv"
    /\ ctx = "cancelled"
    /\ StopReceiving("stream")

\* Fault: the error of the stream goes first.
Fault_ReturnOrder ==
    /\ recvPc = "wait" /\ sendPc = "done"
    /\ recvPc' = "returned"
    /\ call' = [err |-> IF recvErr = "none" /\ sentErr = "reader" THEN "reader" ELSE recvErr,
                exit |-> exitCode]
    /\ UNCHANGED <<total, sender, recvErr, exitCode, ctx, up, down, remote>>

\* Fault: the sender is not waited for.
Fault_ReturnAtOnce ==
    /\ recvPc = "wait"
    /\ recvPc' = "returned"
    /\ call' = [err |-> recvErr, exit |-> exitCode]
    /\ UNCHANGED <<total, sender, recvErr, exitCode, ctx, up, down, remote>>

\* <-sent: the reader's own error goes before that of the stream.
ReturnResult ==
    /\ recvPc = "wait" /\ sendPc = "done"
    /\ recvPc' = "returned"
    /\ call' = [err |-> IF sentErr = "reader" THEN "reader" ELSE recvErr,
                exit |-> exitCode]
    /\ UNCHANGED <<total, sender, recvErr, exitCode, ctx, up, down, remote>>

-----------------------------------------------------------------------------
\* External: the caller's context, the gateway and the command (dd).

\* The timeout of the call passes, or the client that made it goes away.
ParentEnds ==
    /\ ctx = "live"
    /\ ctx' = "cancelled"
    /\ UNCHANGED <<total, sender, receiver, up, down, remote>>

GatewayTakes ==
    /\ gateway = "open" /\ up # <<>>
    /\ up' = Tail(up)
    /\ CASE Head(up) = "start" -> cmd' = "running" /\ UNCHANGED <<fed, toldEnd>>
         [] Head(up) = "chunk" -> fed' = fed + 1 /\ UNCHANGED <<cmd, toldEnd>>
         [] Head(up) = "end" -> toldEnd' = TRUE /\ UNCHANGED <<cmd, fed>>
    /\ UNCHANGED <<total, sender, receiver, ctx, down, gateway>>

\* Output, which a cancelled stream no longer delivers.
CommandPrints ==
    /\ gateway = "open" /\ cmd = "running" /\ ctx = "live"
    /\ down = <<>>
    /\ down' = <<Output>>
    /\ UNCHANGED <<total, sender, receiver, ctx, up, remote>>

\* dd exits 0 once its input has ended, and with an error at any time (no
\* space, no permission). The gateway then ends the stream.
CommandExits ==
    /\ gateway = "open" /\ cmd = "running"
    /\ \E code \in {0, 1} :
          /\ code = 0 => toldEnd
          /\ down' = IF ctx = "live" THEN Append(down, code) ELSE down
    /\ cmd' = "exited"
    /\ gateway' = "ok"
    /\ UNCHANGED <<total, sender, receiver, ctx, up, fed, toldEnd>>

\* The gateway ends the stream without an exit event, or the connection
\* breaks and what was under way is lost.
GatewayFails ==
    /\ gateway = "open"
    /\ gateway' \in {"ok", "failed"}
    /\ down' = <<>>
    /\ UNCHANGED <<total, sender, receiver, ctx, up, cmd, fed, toldEnd>>

\* The connection breaks after the exit event and before the status.
StatusLost ==
    /\ gateway = "ok"
    /\ gateway' = "failed"
    /\ UNCHANGED <<total, sender, receiver, ctx, up, down, cmd, fed, toldEnd>>

Sender == SendStart \/ FillChunk \/ FillFails \/ SendChunk \/ CloseSend
Receiver == RecvEvent \/ RecvEnd \/ RecvCancelled \/ ReturnResult
External == \/ ParentEnds \/ GatewayTakes \/ CommandPrints \/ CommandExits
            \/ GatewayFails \/ StatusLost

Next == Sender \/ Receiver \/ External

\* Both goroutines are scheduled; a read of the body ends (the browser sends,
\* or the server's read deadline passes) and the caller's timeout does pass.
\* Nothing is asked of the gateway or the command.
Spec == /\ Init /\ [][Next]_vars
        /\ WF_vars(Sender) /\ WF_vars(Receiver) /\ WF_vars(ParentEnds)

-----------------------------------------------------------------------------

\* Every variable has its type.
TypeOK ==
    /\ total \in 0 .. MaxChunks /\ left \in 0 .. total
    /\ reader \in {"reading", "ended", "failed"}
    /\ sendPc \in {"start", "fill", "send", "close", "done"}
    /\ sentErr \in {"none", "reader", "stream"}
    /\ recvPc \in {"recv", "wait", "returned"}
    /\ recvErr \in {"none", "stream"} /\ exitCode \in {-1, 0, 1}
    /\ ctx \in {"live", "cancelled"}
    /\ up \in Seq({"start", "chunk", "end"}) /\ Len(up) <= Window + 1
    /\ down \in Seq({Output, 0, 1})
    /\ gateway \in {"open", "ok", "failed"}
    /\ cmd \in {"none", "running", "exited"}
    /\ fed \in 0 .. total /\ toldEnd \in BOOLEAN

\* The command is never told that its input ended before it had all of it: a
\* reader that fails half way must not look like a shorter payload.
EndIsTheEnd == toldEnd => fed = total /\ reader = "ended"

\* The sender is gone when the call returns, so that the request body is not
\* read by two.
ReaderLetGo == recvPc = "returned" => sendPc = "done"

\* The call returns: neither a full window, nor a silent command, nor a dead
\* gateway keeps it.
Returns == <>(recvPc = "returned")

\* The call keeps its promise to its callers.
Contract == INSTANCE ExecContract WITH
    stdin <- IF ~toldEnd THEN "part"
             ELSE IF fed = total /\ reader = "ended" THEN "all" ELSE "short"

Promise == Contract!Spec

-----------------------------------------------------------------------------

\* The inductive invariant behind EndIsTheEnd, ReaderLetGo and Promise.

Ones(b) == IF b THEN 1 ELSE 0
StartWaits == cmd = "none" /\ up # <<>>
EndWaits == up # <<>> /\ up[Len(up)] = "end"
ChunksWaiting == Len(up) - Ones(StartWaits) - Ones(EndWaits)

\* What is under way to the command, and in which order.
UpInOrder ==
    /\ \A k \in 1 .. Len(up) : /\ up[k] = "start" <=> k = 1 /\ cmd = "none"
                               /\ up[k] = "end" => k = Len(up)
    /\ sendPc = "start" => up = <<>> /\ cmd = "none"
    /\ sendPc # "done" => Len(up) <= Window
    /\ sendPc # "start" /\ cmd = "none" /\ ~StreamOver => up # <<>>
    /\ cmd = "exited" => gateway # "open"

\* Chunks are lost only once the stream is over, and then nothing is sent.
Flow ==
    /\ fed + ChunksWaiting <= total - left - Ones(sendPc = "send")
    /\ ~StreamOver => fed + ChunksWaiting = total - left - Ones(sendPc = "send")

\* Where the sender is tells how far the reader got.
SenderIsAt ==
    /\ sendPc \in {"start", "fill"} => reader = "reading"
    /\ sendPc = "send" => reader # "failed" /\ (reader = "ended" => left = 0)
    /\ sendPc = "close" => reader = "ended" /\ left = 0
    /\ sendPc # "done" => sentErr = "none"
    /\ reader = "failed" <=> sentErr = "reader"

\* The end follows the whole of the payload.
EndFlow ==
    /\ EndWaits => sendPc = "done" /\ reader = "ended" /\ fed + ChunksWaiting = total
    /\ toldEnd => sendPc = "done" /\ reader = "ended" /\ fed = total /\ up = <<>>

\* The caller returns last, and has 0 only from a command whose input ended.
CallerIsAt ==
    /\ recvPc = "returned" => sendPc = "done"
    /\ recvPc # "returned" => call = Running
    /\ exitCode = 0 => toldEnd
    /\ \A k \in 1 .. Len(down) : down[k] = 0 => toldEnd

IInv == TypeOK /\ UpInOrder /\ Flow /\ SenderIsAt /\ EndFlow /\ CallerIsAt
=============================================================================
