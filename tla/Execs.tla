-------------------------------- MODULE Execs --------------------------------
(***************************************************************************)
(* The two kinds of request for which the files handlers of the backend    *)
(* run a command in a sandbox: one feeds it a body (StdinExec, which       *)
(* UploadFile calls), the other relays its output (Download). Every        *)
(* request has a stream, a context and goroutines of its own and they      *)
(* share no state: a behaviour is that of one request, of either kind.     *)
(***************************************************************************)
EXTENDS StdinExec, Download

VARIABLE asked  \* the kind of the request: "stdin" or "output"

execVars == <<asked, vars, downloadVars>>

\* The other kind stays as it begins, in whichever way.
ExecInit ==
    /\ asked \in {"stdin", "output"}
    /\ Init /\ (asked = "output" => total = 0)
    /\ DownloadInit /\ (asked = "stdin" => actual = "file" /\ size = 0)

Feeds(A) == asked = "stdin" /\ A /\ UNCHANGED <<asked, downloadVars>>
Relays(A) == asked = "output" /\ A /\ UNCHANGED <<asked, vars>>

ExecNext == Feeds(Next) \/ Relays(DownloadNext)

\* The fairness of either module.
ExecSpec == /\ ExecInit /\ [][ExecNext]_execVars
            /\ WF_execVars(Feeds(Sender)) /\ WF_execVars(Feeds(Receiver))
            /\ WF_execVars(Feeds(ParentEnds))
            /\ WF_execVars(Relays(Handler)) /\ WF_execVars(Relays(Watchdog))

-----------------------------------------------------------------------------

\* A call that feeds a command returns: neither a full window, nor a silent
\* command, nor a dead gateway keeps it (rawexec.go, the context that sender
\* and receiver share).
CallReturns == asked = "stdin" => Returns

\* Every download ends and lets its command go, even when the command or the
\* client stands still for ever (files_handler.go, the watchdog and the write
\* deadline).
DownloadEnds == asked = "output" => Ends
=============================================================================
