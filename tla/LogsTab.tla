------------------------------- MODULE LogsTab -------------------------------
(***************************************************************************)
(* The Logs tab of the frontend (SandboxLogsTab.tsx with watchSandboxLogs  *)
(* and useSandboxLogs of api/sandboxes.ts): one sandbox's log over a       *)
(* stream, or by polling once the stream has failed.                       *)
(*                                                                         *)
(* A log line is its position in the sandbox's log. The stream is used as  *)
(* module LogRelay gives it: from the start of the tail on, in order, and  *)
(* then an end, or an error at any time. A source that was closed delivers *)
(* nothing more. Polling is react-query's, whose cache outlives a change   *)
(* of transport or filter.                                                 *)
(***************************************************************************)
EXTENDS Integers, Sequences

CONSTANTS MaxLogged,    \* bound: lines the sandbox logs
          MaxSubs,      \* bound: subscriptions of the tab
          MaxLogLines,  \* MAX_LOG_LINES: what the tab asks for and keeps
          Filters       \* choices of the filter controls

ASSUME TabAssumption == /\ MaxLogged \in Nat /\ MaxSubs \in Nat \ {0}
                        /\ MaxLogLines \in Nat \ {0}

VARIABLES logged,       \* sandbox: lines logged so far
          upcoming,     \* the line the open stream delivers next
          mounted,
          eventSource,  \* the EventSource: "open" or "closed"
          opened,       \* sources opened so far
          transport,    \* "stream" or "poll"
          autoRefresh,
          receivedLines,
          pollingFailure,
          filter,       \* the query key of polling
          query         \* what react-query holds for each key

subscription == <<upcoming, eventSource, opened>>
tab == <<mounted, transport, autoRefresh, receivedLines>>
polling == <<pollingFailure, filter, query>>
tabVars == <<logged, subscription, tab, polling>>

NoData == -1
Blank == [status |-> "pending", fetching |-> FALSE, since |-> 0, data |-> NoData]

\* The line a replay of the tail begins with.
TailStart == IF logged > MaxLogLines THEN logged - MaxLogLines + 1 ELSE 1

TabInit ==
    /\ logged \in 0 .. MaxLogged
    /\ upcoming = TailStart
    /\ mounted = TRUE
    /\ eventSource = "open" /\ opened = 1
    /\ transport = "stream" /\ autoRefresh = TRUE
    /\ receivedLines = <<>>
    /\ pollingFailure = FALSE
    /\ filter \in Filters
    /\ query = [f \in Filters |-> Blank]

LogLine ==
    /\ logged < MaxLogged
    /\ logged' = logged + 1
    /\ UNCHANGED <<subscription, tab, polling>>

-----------------------------------------------------------------------------
\* The stream.

\* Fault: what the previous source received is kept.
Fault_Subscribe ==
    /\ opened < MaxSubs
    /\ opened' = opened + 1
    /\ eventSource' = "open"
    /\ upcoming' = TailStart
    /\ UNCHANGED receivedLines

\* The effect that subscribes: a new source, and what the previous one
\* received is replaced.
Subscribe ==
    /\ opened < MaxSubs
    /\ opened' = opened + 1
    /\ eventSource' = "open"
    /\ upcoming' = TailStart
    /\ receivedLines' = <<>>

\* Its cleanup.
Unsubscribe == eventSource' = "closed" /\ UNCHANGED <<upcoming, opened, receivedLines>>

\* Only the newest MAX_LOG_LINES lines are kept.
Keep(lines) == IF Len(lines) > MaxLogLines THEN Tail(lines) ELSE lines

OnLog ==
    /\ eventSource = "open" /\ upcoming <= logged
    /\ receivedLines' = Keep(Append(receivedLines, upcoming))
    /\ upcoming' = upcoming + 1
    /\ UNCHANGED <<logged, eventSource, opened, mounted, transport, autoRefresh, polling>>

\* "end", "stream-error", onerror, or a source that cannot be opened: the
\* source is closed and the tab polls. A failure that the query still holds
\* is a failure of the new transport.
OnDisconnect ==
    /\ eventSource = "open"
    /\ eventSource' = "closed"
    /\ transport' = "poll"
    /\ pollingFailure' = (pollingFailure \/ query[filter].status = "error")
    /\ UNCHANGED <<logged, upcoming, opened, mounted, autoRefresh, receivedLines, filter, query>>

SwitchAutoRefresh ==
    /\ mounted
    /\ autoRefresh' = ~autoRefresh
    /\ IF transport = "stream" /\ ~autoRefresh THEN Subscribe ELSE Unsubscribe
    /\ UNCHANGED <<logged, mounted, transport, polling>>

\* "Retry stream", which only polling offers.
RetryStream ==
    /\ mounted /\ transport = "poll"
    /\ transport' = "stream" /\ autoRefresh' = TRUE
    /\ pollingFailure' = FALSE
    /\ Subscribe
    /\ UNCHANGED <<logged, mounted, filter, query>>

Unmount ==
    /\ mounted
    /\ mounted' = FALSE
    /\ Unsubscribe
    /\ UNCHANGED <<logged, transport, autoRefresh, polling>>

-----------------------------------------------------------------------------
\* Polling.

\* Fault: there is no interval.
Fault_EnabledOnce == /\ mounted /\ transport = "poll" /\ autoRefresh /\ ~pollingFailure
                     /\ query[filter].data = NoData

Enabled == mounted /\ transport = "poll" /\ autoRefresh /\ ~pollingFailure

Fetch(f) == [query EXCEPT ![f].fetching = TRUE, ![f].since = logged]

\* A poll: the first one, or that of an interval.
Poll ==
    /\ Enabled /\ query[filter].status # "error" /\ ~query[filter].fetching
    /\ query' = Fetch(filter)
    /\ UNCHANGED <<logged, subscription, tab, pollingFailure, filter>>

\* The answer is the log as it was at some moment since the request. It may
\* be to a key that is no longer the one shown, or come after a retry of the
\* stream.
PollAnswers(f) ==
    /\ query[f].fetching
    /\ \E n \in query[f].since .. logged :
          query' = [query EXCEPT ![f] = [Blank EXCEPT !.status = "success", !.data = n]]
    /\ UNCHANGED <<logged, subscription, tab, pollingFailure, filter>>

\* The failure of the query on the screen is kept until Retry.
PollFails(f) ==
    /\ query[f].fetching
    /\ query' = [query EXCEPT ![f] = [Blank EXCEPT !.status = "error", !.data = query[f].data]]
    /\ pollingFailure' = (pollingFailure \/ (mounted /\ transport = "poll" /\ f = filter))
    /\ UNCHANGED <<logged, subscription, tab, filter>>

\* Fault: the failure of the query that is shown again is not taken up.
Fault_ChangeFilter(f) ==
    /\ mounted /\ f # filter
    /\ filter' = f
    /\ UNCHANGED <<logged, subscription, tab, pollingFailure, query>>

ChangeFilter(f) ==
    /\ mounted /\ f # filter
    /\ filter' = f
    /\ pollingFailure' = (pollingFailure \/ (transport = "poll" /\ query[f].status = "error"))
    /\ UNCHANGED <<logged, subscription, tab, query>>

\* "Retry" while polling: refetch, and a query without data is pending again.
RetryPoll ==
    /\ mounted /\ transport = "poll" /\ pollingFailure
    /\ pollingFailure' = FALSE
    /\ query' = [Fetch(filter) EXCEPT ![filter].status =
                   IF query[filter].data = NoData THEN "pending" ELSE @]
    /\ UNCHANGED <<logged, subscription, tab, filter>>

User == \/ SwitchAutoRefresh \/ RetryStream \/ RetryPoll \/ Unmount
        \/ \E f \in Filters : ChangeFilter(f)

TabNext == \/ LogLine \/ OnLog \/ OnDisconnect \/ Poll \/ User
           \/ \E f \in Filters : PollAnswers(f) \/ PollFails(f)

\* The browser delivers what the stream sends, intervals pass and requests
\* are answered or fail. Nothing is asked of the user.
TabSpec == /\ TabInit /\ [][TabNext]_tabVars
           /\ WF_tabVars(OnLog) /\ WF_tabVars(Poll)
           /\ \A f \in Filters : WF_tabVars(PollAnswers(f) \/ PollFails(f))

-----------------------------------------------------------------------------

\* Every variable has its type.
TabTypeOK ==
    /\ logged \in 0 .. MaxLogged /\ upcoming \in 1 .. MaxLogged + 1
    /\ mounted \in BOOLEAN
    /\ eventSource \in {"open", "closed"} /\ opened \in 1 .. MaxSubs
    /\ transport \in {"stream", "poll"} /\ autoRefresh \in BOOLEAN
    /\ receivedLines \in Seq(1 .. MaxLogged) /\ Len(receivedLines) <= MaxLogLines
    /\ pollingFailure \in BOOLEAN /\ filter \in Filters
    /\ query \in [Filters -> [status : {"pending", "success", "error"},
                              fetching : BOOLEAN, since : 0 .. MaxLogged,
                              data : NoData .. MaxLogged]]

\* What the tab has received is a piece of the log: in order, no line missing
\* and none twice, however often it reconnects; while the stream is open it
\* ends where the stream is.
NoGapsNoDuplicates ==
    /\ \A k \in 1 .. Len(receivedLines) - 1 : receivedLines[k + 1] = receivedLines[k] + 1
    /\ eventSource = "open" /\ receivedLines # <<>> => receivedLines[Len(receivedLines)] = upcoming - 1

\* A failure that stopped polling is on the screen until Retry: the tab is
\* never stopped and silent about it.
NeverSilentlyStopped ==
    mounted /\ transport = "poll" /\ query[filter].status = "error"
        => pollingFailure \/ query[filter].fetching

\* The newest line on the screen.
Newest == IF transport = "poll" /\ query[filter].data # NoData THEN query[filter].data
          ELSE IF receivedLines = <<>> THEN 0 ELSE receivedLines[Len(receivedLines)]

\* Whichever transport it is on, a tab left alone gets to the newest line or
\* says that its updates have stopped.
CatchesUp ==
    (mounted /\ autoRefresh) ~>
        \/ ~mounted \/ ~autoRefresh \/ pollingFailure
        \/ Newest = logged
=============================================================================
