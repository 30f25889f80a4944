---------------------------- MODULE ExecContract ----------------------------
(***************************************************************************)
(* What a caller of ExecWithStdinStream is promised                        *)
(* (backend/pkg/clients/rawexec.go), whatever the stream, the command and  *)
(* the reader do: one call, from the moment it is made to its return.      *)
(*                                                                         *)
(* The upload handler is modelled on this promise (module Upload), and     *)
(* StdinExec, the call with its goroutines and messages, implements it.    *)
(***************************************************************************)

EXTENDS Integers

VARIABLES call,    \* Running, or what the call returned
          reader,  \* "reading", "ended" (io.EOF) or "failed"
          stdin    \* what the command was given: "part" of it, "all" of it
                   \* with its end, or an end that came too early: "short"

vars == <<call, reader, stdin>>

\* err: nil, the reader's own error, or one of the stream;
\* exit: the command's exit code, or -1 when none arrived.
Results == [err : {"none", "reader", "stream"}, exit : {-1, 0, 1}]

Running == [err |-> "pending", exit |-> -1]

Init == call = Running /\ reader = "reading" /\ stdin = "part"

\* The payload is fed to the command. Its end is passed on only after the
\* reader has ended: "A stdin that fails part way is not a shorter stdin."
Feed ==
    /\ reader = "reading"
    /\ reader' \in {"reading", "ended", "failed"}
    /\ UNCHANGED <<call, stdin>>

EndInput ==
    /\ reader = "ended" /\ stdin = "part"
    /\ stdin' = "all"
    /\ UNCHANGED <<call, reader>>

\* The call returns. A reader that failed is what the caller is told about,
\* and a success means that the command had the whole of its input.
Promised(r) ==
    /\ r.err = "reader" <=> reader = "failed"
    /\ r.err = "none" /\ r.exit = 0 => stdin = "all"

Return ==
    /\ call = Running
    /\ \E r \in Results : Promised(r) /\ call' = r
    /\ UNCHANGED <<reader, stdin>>

\* "The reader is not touched again once this returns"; the command is on its
\* own by then and may still be told the end of an input it has whole.
Next == \/ call = Running /\ Feed
        \/ EndInput
        \/ Return

Spec == Init /\ [][Next]_vars
=============================================================================
