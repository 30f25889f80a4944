-------------------------------- MODULE Logs ---------------------------------
(***************************************************************************)
(* Both ends of a sandbox's log stream: the backend's request handler      *)
(* (LogRelay) and the Logs tab of the browser (LogsTab). Each is modelled  *)
(* against all that the other may do to it: the tab takes the stream as    *)
(* LogRelay gives it, with an error at any time, and the handler a browser *)
(* that may read slowly or leave. A behaviour is that of one of the two.   *)
(***************************************************************************)
EXTENDS LogRelay, LogsTab

VARIABLE end  \* the end that is followed: "handler" or "tab"

logsVars == <<end, vars, tabVars>>

\* The other end stays as it begins, in whichever way.
LogsInit ==
    /\ end \in {"handler", "tab"}
    /\ Init /\ (end = "tab" => log = 0)
    /\ TabInit /\ (end = "handler" => logged = 0 /\ filter = CHOOSE f \in Filters : TRUE)

AtHandler(A) == end = "handler" /\ A /\ UNCHANGED <<end, tabVars>>
AtTab(A) == end = "tab" /\ A /\ UNCHANGED <<end, vars>>

LogsNext == AtHandler(Next) \/ AtTab(TabNext)

\* The fairness of either module.
LogsSpec ==
    /\ LogsInit /\ [][LogsNext]_logsVars
    /\ WF_logsVars(AtHandler(Handler)) /\ WF_logsVars(AtHandler(Receiver))
    /\ WF_logsVars(AtHandler(BrowserReads))
    /\ WF_logsVars(AtHandler(HeartbeatFails /\ source = "closed"))
    /\ WF_logsVars(AtTab(OnLog)) /\ WF_logsVars(AtTab(Poll))
    /\ \A f \in Filters : WF_logsVars(AtTab(PollAnswers(f) \/ PollFails(f)))

-----------------------------------------------------------------------------

\* A handler whose browser is gone ends, and its goroutine with it, even one
\* that waits for the gateway or to hand an event on (logs_handler.go,
\* relaySandboxLogs).
HandlerEnds == end = "handler" => GoroutinesEnd

\* A line the sandbox logs reaches the browser, unless the stream ends first
\* (logs_handler.go, relaySandboxLogs).
RelayedLinesArrive == end = "handler" => LinesArrive

\* Whichever transport it is on, a tab left alone gets to the newest line or
\* says that its updates have stopped (SandboxLogsTab.tsx).
TabCatchesUp == end = "tab" => CatchesUp
=============================================================================
