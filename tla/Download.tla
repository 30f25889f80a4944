------------------------------ MODULE Download ------------------------------
(***************************************************************************)
(* A download out of a sandbox: DownloadFile, probePath, streamDownload,   *)
(* failDownload and downloadWriter of backend/pkg/handlers/files_handler.go*)
(*                                                                         *)
(* The handler asks what the path is, starts `cat` or `tar` and relays its *)
(* standard output. The status line goes out with the first byte; a        *)
(* failure after it can only abort the connection. A watchdog and a write  *)
(* deadline bound how long either side may stand still.                    *)
(*                                                                         *)
(* External: what the path is (which an agent may change meanwhile), the   *)
(* command and the gateway, and the client's connection.                   *)
(***************************************************************************)
EXTENDS Integers, Sequences

CONSTANTS MaxOutput,    \* bound: chunks of output of a command
          OutputWindow  \* gRPC flow control: chunks under way

ASSUME OutputAssumption == MaxOutput \in Nat
ASSUME OutputWindowAssumption == OutputWindow \in Nat \ {0}

VARIABLES actual,   \* sandbox: what is at the path
          size,     \* chunks a command that succeeds writes
          pc,       \* the handler: "probe", "open", "next", "write", "exit", "done"
          kind,     \* pathKind, as probed
          execCtx,  \* "live" or "cancelled"
          stalled,  \* set by the watchdog before it cancels
          program,  \* "none", "running", "exited0", "exited1"
          made,     \* chunks the command has written
          pipe,     \* chunks under way: "out" or "err"
          stream,   \* "open", "ended" or "broken"
          hasExit,  \* the exit event is on the stream
          started,  \* the status line and the headers were sent
          sent,     \* chunks of the body the client was sent
          client,   \* "reading", "slow" or "gone"
          reply     \* what the client sees: "none", "complete", "aborted",
                    \* or an error response

downloadVars == <<actual, size, pc, kind, execCtx, stalled, program, made, pipe, stream,
                  hasExit, started, sent, client, reply>>
path == <<actual, size>>
command == <<program, made, pipe, stream, hasExit>>
response == <<started, sent, reply>>

Kinds == {"file", "directory", "special", "missing"}

DownloadInit ==
    /\ actual \in Kinds
    /\ size \in 0 .. MaxOutput
    /\ pc = "probe" /\ kind = "unknown"
    /\ execCtx = "live" /\ stalled = FALSE
    /\ program = "none" /\ made = 0 /\ pipe = <<>> /\ stream = "open" /\ hasExit = FALSE
    /\ started = FALSE /\ sent = 0
    /\ client = "reading"
    /\ reply = "none"

\* The handler ends: its deferred calls cancel the context, which ends the
\* stream and with it the command.
End(r) ==
    /\ reply' = r
    /\ pc' = "done"
    /\ execCtx' = "cancelled"

\* Fault: the handler returns without aborting the connection.
Fault_FailReturns == End(IF started THEN "complete" ELSE IF stalled THEN "timeout" ELSE "error")

\* failDownload.
Fail == End(IF started THEN "aborted" ELSE IF stalled THEN "timeout" ELSE "error")

-----------------------------------------------------------------------------

\* A sandbox without stat downloads the path as a file.
ProbePath ==
    /\ pc = "probe"
    /\ \/ /\ actual \in {"file", "directory"}
          /\ kind' = actual /\ pc' = "open" /\ UNCHANGED <<execCtx, reply>>
       \/ kind' = "unknown" /\ pc' = "open" /\ UNCHANGED <<execCtx, reply>>
       \/ End("error") /\ UNCHANGED kind
    /\ UNCHANGED <<path, stalled, command, started, sent, client>>

\* tar for a directory and cat for anything else.
OpenStream ==
    /\ pc = "open"
    /\ \/ execCtx = "live" /\ program' = "running" /\ pc' = "next" /\ UNCHANGED <<execCtx, reply>>
       \/ End("error") /\ UNCHANGED program
    /\ UNCHANGED <<path, kind, stalled, made, pipe, stream, hasExit, started,
                   sent, client>>

\* Standard error is kept aside.
NextStderr ==
    /\ pc = "next" /\ pipe # <<>> /\ Head(pipe) = "err"
    /\ pipe' = Tail(pipe)
    /\ UNCHANGED <<path, pc, kind, execCtx, stalled, program, made, stream, hasExit,
                   response, client>>

\* A chunk of the file: out.Write sends the headers before the first.
NextStdout ==
    /\ pc = "next" /\ pipe # <<>> /\ Head(pipe) = "out"
    /\ pipe' = Tail(pipe)
    /\ started' = TRUE
    /\ pc' = "write"
    /\ UNCHANGED <<path, kind, execCtx, stalled, program, made, stream, hasExit, sent,
                   client, reply>>

WriteDone ==
    /\ pc = "write" /\ client = "reading"
    /\ sent' = sent + 1
    /\ pc' = "next"
    /\ UNCHANGED <<path, kind, execCtx, stalled, command, started, client, reply>>

\* The client is gone, or its write deadline passes: http.ErrAbortHandler.
WriteFails ==
    /\ pc = "write" /\ client # "reading"
    /\ End("aborted")
    /\ UNCHANGED <<path, kind, stalled, command, started, sent, client>>

\* Next reports the end of the stream once everything on it was read.
NextEOF ==
    /\ pc = "next" /\ pipe = <<>> /\ stream = "ended" /\ execCtx = "live"
    /\ pc' = "exit"
    /\ UNCHANGED <<path, kind, execCtx, stalled, command, response, client>>

\* Next fails: the context was cancelled or the stream broke.
NextFails ==
    /\ pc = "next"
    /\ \/ execCtx = "cancelled"
       \/ pipe = <<>> /\ stream = "broken"
    /\ Fail
    /\ UNCHANGED <<path, kind, stalled, command, started, sent, client>>

\* ExitCode: an error when no exit event arrived; a failure of the command is
\* an error response only while nothing was sent; an empty file sends its
\* headers now.
ExitCode ==
    /\ pc = "exit"
    /\ \/ ~hasExit /\ Fail /\ UNCHANGED started
       \/ /\ hasExit /\ program = "exited1"
          /\ End(IF started THEN "aborted" ELSE "error")
          /\ UNCHANGED started
       \/ /\ hasExit /\ program = "exited0"
          /\ started' = TRUE
          /\ End("complete")
    /\ UNCHANGED <<path, kind, stalled, command, sent, client>>

\* Fault: the watchdog is armed by the first chunk.
Fault_Watchdog ==
    /\ started /\ pc # "done" /\ ~stalled
    /\ stalled' = TRUE
    /\ execCtx' = "cancelled"
    /\ UNCHANGED <<path, pc, kind, command, response, client>>

\* time.AfterFunc: armed from the start and put off by every chunk and write.
\* It is a goroutine of its own, so it may fire at any step of the loop.
Watchdog ==
    /\ pc # "probe" /\ pc # "done" /\ ~stalled
    /\ stalled' = TRUE
    /\ execCtx' = "cancelled"
    /\ UNCHANGED <<path, pc, kind, command, response, client>>

-----------------------------------------------------------------------------
\* External.

PathChanges ==
    /\ program = "none" /\ pc # "done"
    /\ actual' \in Kinds
    /\ UNCHANGED <<size, pc, kind, execCtx, stalled, command, response, client>>

\* The command writes output when the path is what the command is for.
Readable == actual = IF kind = "directory" THEN "directory" ELSE "file"

ProgramWrites ==
    /\ program = "running" /\ stream = "open" /\ Len(pipe) < OutputWindow
    /\ Readable /\ made < size
    /\ pipe' = Append(pipe, "out")
    /\ made' = made + 1
    /\ UNCHANGED <<path, pc, kind, execCtx, stalled, program, stream, hasExit, response, client>>

\* It ends: with success after all of its output, or with an error, said on
\* stderr, at any point. A device or a FIFO is read for ever.
ProgramExits ==
    /\ program = "running" /\ stream = "open" /\ Len(pipe) < OutputWindow
    /\ \/ Readable /\ made = size /\ program' = "exited0" /\ UNCHANGED pipe
       \/ actual # "special" /\ program' = "exited1" /\ pipe' = Append(pipe, "err")
    /\ hasExit' = TRUE
    /\ stream' = "ended"
    /\ UNCHANGED <<path, pc, kind, execCtx, stalled, made, response, client>>

\* The gateway ends the stream without an exit event, or the stream breaks,
\* which may be between the exit event and the final status.
StreamLost ==
    /\ program # "none" /\ stream # "broken"
    /\ stream' \in {"ended", "broken"} \ {stream}
    /\ UNCHANGED <<path, pc, kind, execCtx, stalled, program, made, pipe, hasExit, response, client>>

\* A client that goes away also ends the context of its request.
ClientLeaves ==
    /\ client # "gone" /\ pc # "done"
    /\ client' = "gone"
    /\ execCtx' = "cancelled"
    /\ UNCHANGED <<path, pc, kind, stalled, command, response>>

ClientStopsReading ==
    /\ client = "reading" /\ pc # "done"
    /\ client' = "slow"
    /\ UNCHANGED <<path, pc, kind, execCtx, stalled, command, response>>

Handler == \/ ProbePath \/ OpenStream \/ NextStderr \/ NextStdout \/ WriteDone
           \/ WriteFails \/ NextEOF \/ NextFails \/ ExitCode
Sandbox == \/ PathChanges \/ ProgramWrites \/ ProgramExits \/ StreamLost
           \/ ClientLeaves \/ ClientStopsReading

DownloadNext == Handler \/ Watchdog \/ Sandbox

\* The handler is scheduled, its calls and writes have deadlines, and the
\* watchdog fires when nothing puts it off. Nothing is asked of the sandbox.
DownloadSpec == /\ DownloadInit /\ [][DownloadNext]_downloadVars
                /\ WF_downloadVars(Handler) /\ WF_downloadVars(Watchdog)

-----------------------------------------------------------------------------

\* Every variable has its type.
DownloadTypeOK ==
    /\ actual \in Kinds /\ size \in 0 .. MaxOutput
    /\ pc \in {"probe", "open", "next", "write", "exit", "done"}
    /\ kind \in {"unknown", "file", "directory"}
    /\ execCtx \in {"live", "cancelled"} /\ stalled \in BOOLEAN
    /\ program \in {"none", "running", "exited0", "exited1"}
    /\ made \in 0 .. size
    /\ pipe \in Seq({"out", "err"}) /\ Len(pipe) <= OutputWindow
    /\ stream \in {"open", "ended", "broken"} /\ hasExit \in BOOLEAN
    /\ started \in BOOLEAN /\ sent \in 0 .. made
    /\ client \in {"reading", "slow", "gone"}
    /\ reply \in {"none", "complete", "aborted", "timeout", "error"}

\* A client is never left with a response that looks complete and is short:
\* it holds all the command wrote, and the command had no more to write. An
\* error response is only given while no byte of the file was sent.
CompleteIsWhole ==
    /\ reply = "complete" => sent = size /\ program = "exited0"
    /\ reply \in {"error", "timeout"} => ~started /\ sent = 0

\* Every download ends and lets its command go, even when the command or the
\* client stands still for ever.
Ends == <>(pc = "done" /\ execCtx = "cancelled" /\ reply # "none")
=============================================================================
