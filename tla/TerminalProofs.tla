---------------------------- MODULE TerminalProofs ----------------------------
(***************************************************************************)
(* Proofs about Terminal, for every number of sockets and every length of  *)
(* the queues between browser and backend.                                 *)
(*                                                                         *)
(* An exit status passes from the session through a close frame to the     *)
(* screen, while the tab may have replaced its socket and the backend may  *)
(* be closing the session from its side. What makes the screen true is that*)
(* a status, once reached, is the session's last word.                     *)
(***************************************************************************)
EXTENDS Terminal, SequenceTheorems, TLAPS

Frames == [kind : {"output", "close"}, reason : Statuses \cup {"", "refused"}]

\* A session begins when its handler opens it, and only once.
SessionIsAt ==
    \A g \in Sockets : handler[g] \in {"none", "start", "open"} => session[g] = "none"

\* A close frame that tells an exit status tells the session's.
FramesAreTrue ==
    \A g \in Sockets : \A k \in DOMAIN down[g] :
        down[g][k].reason \in Statuses => session[g] = down[g][k].reason

\* The tab's own socket is never one that it has closed itself, and those it
\* has not opened yet are untouched.
SocketIsAt ==
    /\ cur # 0 => socket[cur] \in {"connecting", "open", "closed"}
    /\ \A g \in Sockets : cur # 0 /\ g > cur => socket[g] = "none"

IInv ==
    /\ TypeOK
    /\ SessionIsAt
    /\ FramesAreTrue
    /\ SocketIsAt
    /\ ExitIsTrue
    /\ NoSilentEnd
    /\ NoOrphanSession

-----------------------------------------------------------------------------
\* Queues of frames.

LEMMA FrameTypes ==
    /\ \A reason \in Statuses \cup {"", "refused"} :
          CloseFrame(reason) \in Frames /\ CloseFrame(reason).reason = reason
    /\ Output \in Frames /\ Output.reason \notin Statuses
  BY DEF CloseFrame, Output, Frames, Statuses

\* A frame that tells the truth may be written.
LEMMA FrameWritten ==
    ASSUME IInv, NEW g \in Sockets, NEW frame \in Frames, WriteFrame(g, frame),
           frame.reason \in Statuses => session[g] = frame.reason
    PROVE  /\ down' \in [Sockets -> Seq(Frames)]
           /\ \A h \in Sockets : \A k \in DOMAIN down'[h] :
                 down'[h][k].reason \in Statuses => session[h] = down'[h][k].reason
  <1>1. down \in [Sockets -> Seq(Frames)]
    BY DEF IInv, TypeOK, Frames
  <1>2. down' = [down EXCEPT ![g] = IF socket[g] = "closed" THEN @ ELSE Append(@, frame)]
    BY DEF WriteFrame
  <1>3. down[g] \in Seq(Frames)
    BY <1>1
  <1>4. /\ Append(down[g], frame) \in Seq(Frames)
        /\ Len(Append(down[g], frame)) = Len(down[g]) + 1
        /\ \A k \in 1 .. Len(down[g]) : Append(down[g], frame)[k] = down[g][k]
        /\ Append(down[g], frame)[Len(down[g]) + 1] = frame
    BY <1>3, AppendProperties
  <1>5. down' \in [Sockets -> Seq(Frames)]
    BY <1>1, <1>2, <1>4
  <1>6. ASSUME NEW h \in Sockets, NEW k \in DOMAIN down'[h], down'[h][k].reason \in Statuses
        PROVE  session[h] = down'[h][k].reason
    <2>1. CASE h = g /\ socket[g] # "closed"
      <3>1. down'[h] = Append(down[g], frame)
        BY <1>1, <1>2, <2>1
      <3>2. k \in 1 .. Len(down[g]) + 1
        BY <1>4, <1>6, <3>1
      <3>3. Len(down[g]) \in Nat /\ DOMAIN down[g] = 1 .. Len(down[g])
        BY <1>3
      <3>4. k = Len(down[g]) + 1 \/ k \in 1 .. Len(down[g])
        BY <3>2, <3>3
      <3> QED BY <1>4, <1>6, <2>1, <3>1, <3>3, <3>4 DEF IInv, FramesAreTrue
    <2>2. CASE h # g \/ socket[g] = "closed"
      <3>1. down'[h] = down[h]
        BY <1>1, <1>2, <2>2
      <3> QED BY <1>6, <3>1 DEF IInv, FramesAreTrue
    <2> QED BY <2>1, <2>2
  <1> QED BY <1>5, <1>6

\* Frames may be taken from the front, or lost together.
LEMMA FrameTaken ==
    ASSUME IInv, NEW g \in Sockets,
           \/ down' = [down EXCEPT ![g] = <<>>]
           \/ down[g] # <<>> /\ down' = [down EXCEPT ![g] = Tail(@)]
    PROVE  /\ down' \in [Sockets -> Seq(Frames)]
           /\ \A h \in Sockets : \A k \in DOMAIN down'[h] :
                 down'[h][k].reason \in Statuses => session[h] = down'[h][k].reason
  <1>1. down \in [Sockets -> Seq(Frames)] /\ down[g] \in Seq(Frames)
    BY DEF IInv, TypeOK, Frames
  <1>2. CASE down' = [down EXCEPT ![g] = <<>>]
    <2>1. down' \in [Sockets -> Seq(Frames)]
      BY <1>1, <1>2
    <2>2. \A h \in Sockets : h # g => down'[h] = down[h]
      BY <1>1, <1>2
    <2>3. down'[g] = <<>> /\ DOMAIN down'[g] = {}
      BY <1>1, <1>2
    <2> QED BY <2>1, <2>2, <2>3 DEF IInv, FramesAreTrue
  <1>3. CASE down[g] # <<>> /\ down' = [down EXCEPT ![g] = Tail(@)]
    <2>1. /\ Tail(down[g]) \in Seq(Frames) /\ Len(Tail(down[g])) = Len(down[g]) - 1
          /\ \A k \in 1 .. Len(Tail(down[g])) : Tail(down[g])[k] = down[g][k + 1]
      BY <1>1, <1>3, HeadTailProperties
    <2>2. down' \in [Sockets -> Seq(Frames)]
      BY <1>1, <1>3, <2>1
    <2>3. ASSUME NEW h \in Sockets, NEW k \in DOMAIN down'[h],
                 down'[h][k].reason \in Statuses
          PROVE  session[h] = down'[h][k].reason
      <3>1. CASE h # g
        BY <1>1, <1>3, <2>3, <3>1 DEF IInv, FramesAreTrue
      <3>2. CASE h = g
        <4>1. down'[h] = Tail(down[g])
          BY <1>1, <1>3, <3>2
        <4>2. k \in 1 .. Len(down[g]) - 1 /\ Len(down[g]) \in Nat
          BY <1>1, <2>1, <2>3, <4>1
        <4>3. k + 1 \in DOMAIN down[g] /\ down'[h][k] = down[g][k + 1]
          BY <1>1, <2>1, <4>1, <4>2
        <4> QED BY <2>3, <3>2, <4>3 DEF IInv, FramesAreTrue
      <3> QED BY <3>1, <3>2
    <2> QED BY <2>2, <2>3
  <1> QED BY <1>2, <1>3

\* The tab's socket, while it is mounted, is one of its sockets.
LEMMA CurType ==
    ASSUME NEW c \in 0 .. MaxSockets
    PROVE  /\ c # 0 => c \in Sockets
           /\ c # 0 /\ c < MaxSockets => c \in Nat /\ c + 1 \in Sockets /\ c + 1 \in 0 .. MaxSockets
           /\ 0 \in 0 .. MaxSockets
  BY SocketsAssumption DEF Sockets

-----------------------------------------------------------------------------
LEMMA InitIInv == Init => IInv
  <1> SUFFICES ASSUME Init PROVE IInv
    OBVIOUS
  <1>1. cur \in 0 .. MaxSockets /\ cur # 0 /\ cur \in Sockets
    BY SocketsAssumption DEF Init, Sockets
  <1>2. \A g \in Sockets : down[g] = <<>> /\ DOMAIN down[g] = {}
    BY DEF Init
  <1>3. TypeOK
    <2>1. ui \in [connected : BOOLEAN, error : BOOLEAN, exit : Statuses \cup {"none"},
                  cut : BOOLEAN]
      BY DEF Init, Blank
    <2> QED BY <1>1, <2>1 DEF Init, TypeOK
  <1>4. SessionIsAt /\ SocketIsAt /\ NoOrphanSession
    BY <1>1 DEF Init, SessionIsAt, SocketIsAt, NoOrphanSession, Sockets
  <1>5. FramesAreTrue
    BY <1>2 DEF FramesAreTrue
  <1>6. ExitIsTrue /\ NoSilentEnd
    BY <1>1 DEF Init, Blank, ExitIsTrue, NoSilentEnd
  <1> QED BY <1>3, <1>4, <1>5, <1>6 DEF IInv

-----------------------------------------------------------------------------
\* The tab.

Screens == [connected : BOOLEAN, error : BOOLEAN, exit : Statuses \cup {"none"}, cut : BOOLEAN]

\* What the end of a socket makes of the screen: it says how, it says so of the
\* session's own end, and it is not connected.
LEMMA EndOnScreen ==
    ASSUME TypeOK, NEW state, NEW reason \in Statuses \cup {"", "refused"},
           state \in {Failed, Closed(reason)}
    PROVE  /\ state \in Screens
           /\ ~state.connected
           /\ state.error \/ state.cut \/ state.exit # "none"
           /\ state.exit # ui.exit => reason \in Statuses /\ state.exit = reason
  <1>1. ui \in Screens
    BY DEF TypeOK, Screens
  <1>2. CASE state = Failed
    <2>1. /\ state \in Screens /\ state.connected = FALSE /\ state.error = TRUE
          /\ state.exit = ui.exit
      BY <1>1, <1>2 DEF Failed, Screens
    <2> QED BY <2>1
  <1>3. CASE state = Closed(reason)
    <2>1. state \in Screens
      BY <1>1, <1>3 DEF Closed, Screens
    <2>2. state.connected = FALSE
      BY <1>1, <1>3 DEF Closed, Screens
    <2>3. /\ state.exit = IF reason \in Statuses THEN reason ELSE ui.exit
          /\ reason = "" => state.cut = TRUE
          /\ reason = "refused" => state.error = TRUE
      BY <1>1, <1>3 DEF Closed, Screens
    <2>4. state.error \/ state.cut \/ state.exit # "none"
      BY <2>3 DEF Statuses
    <2> QED BY <2>1, <2>2, <2>3, <2>4
  <1> QED BY <1>2, <1>3

\* A socket that ends, and with it what it shows.
LEMMA ShutIInv ==
    ASSUME IInv, NEW g \in Sockets, socket[g] \in {"connecting", "open", "closing"},
           Shut(g), UNCHANGED <<cur, up, backend, session>>,
           NEW reason \in Statuses \cup {"", "refused"},
           reason \in Statuses => session[g] = reason,
           Report(g, Failed) \/ Report(g, Closed(reason))
    PROVE  IInv'
  <1> USE DEF IInv
  <1>1. /\ down' \in [Sockets -> Seq(Frames)]
        /\ \A h \in Sockets : \A k \in DOMAIN down'[h] :
              down'[h][k].reason \in Statuses => session[h] = down'[h][k].reason
    BY FrameTaken DEF Shut
  <1>2. /\ socket' \in [Sockets -> {"none", "connecting", "open", "closing", "closed"}]
        /\ socket'[g] = "closed"
        /\ \A h \in Sockets : h # g => socket'[h] = socket[h]
    BY DEF Shut, TypeOK
  <1>3. /\ cur' = cur /\ up' = up /\ session' = session
        /\ handler' = handler /\ relay' = relay /\ ctx' = ctx
    BY DEF backend
  <1>4. cur # 0 => cur \in Sockets
    <2>1. cur \in 0 .. MaxSockets
      BY DEF TypeOK
    <2> QED BY <2>1, CurType
  <1>5. PICK state : /\ state \in {Failed, Closed(reason)}
                     /\ ui' = IF g = cur THEN state ELSE ui
    BY DEF Report
  <1>6. /\ state \in Screens
        /\ ~state.connected
        /\ state.error \/ state.cut \/ state.exit # "none"
        /\ state.exit # ui.exit => reason \in Statuses /\ state.exit = reason
    BY <1>5, EndOnScreen
  <1>7. TypeOK'
    <2>1. ui' \in Screens
      BY <1>5, <1>6 DEF TypeOK, Screens
    <2> QED BY <1>1, <1>2, <1>3, <2>1 DEF TypeOK, Screens, Frames
  <1>8. SessionIsAt' /\ FramesAreTrue' /\ NoOrphanSession'
    BY <1>1, <1>3 DEF SessionIsAt, FramesAreTrue, NoOrphanSession
  <1>9. SocketIsAt'
    BY <1>2, <1>3, <1>4 DEF SocketIsAt
  <1>10. ExitIsTrue'
    BY <1>3, <1>5, <1>6 DEF ExitIsTrue
  <1>11. NoSilentEnd'
    <2>1. CASE g = cur
      BY <1>2, <1>3, <1>5, <1>6, <2>1 DEF NoSilentEnd
    <2>2. CASE g # cur
      BY <1>2, <1>3, <1>4, <1>5, <2>2 DEF NoSilentEnd
    <2> QED BY <2>1, <2>2
  <1> QED BY <1>7, <1>8, <1>9, <1>10, <1>11

LEMMA ConnectIInv == ASSUME IInv, Connect PROVE IInv'
  <1> USE DEF IInv
  <1>1. /\ cur \in Sockets /\ cur + 1 \in Sockets /\ cur' = cur + 1 /\ cur \in Nat
        /\ cur + 1 \in 0 .. MaxSockets
    <2>1. cur \in 0 .. MaxSockets
      BY DEF TypeOK
    <2>2. cur # 0 /\ cur < MaxSockets /\ cur' = cur + 1
      BY DEF Connect
    <2> QED BY <2>1, <2>2, CurType
  <1>2. /\ up' = up /\ down' = down /\ session' = session
        /\ handler' = handler /\ relay' = relay /\ ctx' = ctx
    BY DEF Connect, backend
  <1>3. Replaced \in [Sockets -> {"none", "connecting", "open", "closing", "closed"}]
        /\ \A h \in Sockets : h # cur => Replaced[h] = socket[h]
    BY <1>1 DEF Replaced, TypeOK
  <1>4. /\ socket' \in [Sockets -> {"none", "connecting", "open", "closing", "closed"}]
        /\ socket'[cur + 1] = "connecting"
        /\ \A h \in Sockets : h # cur /\ h # cur + 1 => socket'[h] = socket[h]
    BY <1>1, <1>3 DEF Connect
  <1>5. /\ ui' \in Screens /\ ui'.exit = "none"
        /\ ui'.connected = FALSE /\ ui'.error = FALSE /\ ui'.cut = FALSE
    BY DEF Connect, Blank, Screens
  <1>6. TypeOK'
    <2>1. cur' \in 0 .. MaxSockets
      BY <1>1
    <2> QED BY <1>2, <1>4, <1>5, <2>1 DEF TypeOK, Screens
  <1>7. SessionIsAt' /\ FramesAreTrue' /\ NoOrphanSession'
    BY <1>2 DEF SessionIsAt, FramesAreTrue, NoOrphanSession
  <1>8. SocketIsAt'
    <2>1. \A h \in Sockets : h > cur + 1 => h # cur /\ h # cur + 1 /\ h > cur
      BY <1>1 DEF Sockets
    <2>2. \A h \in Sockets : h > cur + 1 => socket'[h] = "none"
      <3>1. \A h \in Sockets : h > cur => socket[h] = "none"
        BY DEF SocketIsAt, Connect
      <3> QED BY <1>4, <2>1, <3>1
    <2>3. socket'[cur'] = "connecting"
      BY <1>1, <1>4
    <2> QED BY <1>1, <2>2, <2>3 DEF SocketIsAt
  <1>9. ExitIsTrue'
    BY <1>5 DEF ExitIsTrue
  <1>10. NoSilentEnd'
    BY <1>1, <1>4, <1>5 DEF NoSilentEnd
  <1> QED BY <1>6, <1>7, <1>8, <1>9, <1>10

LEMMA UnmountIInv == ASSUME IInv, Unmount PROVE IInv'
  <1> USE DEF IInv
  <1>1. /\ cur' = 0 /\ ui' = ui /\ up' = up /\ down' = down /\ session' = session
        /\ handler' = handler /\ relay' = relay /\ ctx' = ctx /\ socket' = Replaced
    BY DEF Unmount, backend
  <1>2. Replaced \in [Sockets -> {"none", "connecting", "open", "closing", "closed"}]
    BY DEF Replaced, TypeOK
  <1>3. TypeOK'
    <2>1. 0 \in 0 .. MaxSockets
      BY SocketsAssumption
    <2> QED BY <1>1, <1>2, <2>1 DEF TypeOK
  <1>4. SessionIsAt' /\ FramesAreTrue' /\ NoOrphanSession'
    BY <1>1 DEF SessionIsAt, FramesAreTrue, NoOrphanSession
  <1>5. SocketIsAt' /\ ExitIsTrue' /\ NoSilentEnd'
    BY <1>1 DEF SocketIsAt, ExitIsTrue, NoSilentEnd
  <1> QED BY <1>3, <1>4, <1>5

LEMMA OnOpenIInv == ASSUME IInv, NEW g \in Sockets, OnOpen(g) PROVE IInv'
  <1> USE DEF IInv
  <1>1. /\ cur' = cur /\ down' = down /\ session' = session
        /\ handler' = handler /\ relay' = relay /\ ctx' = ctx
    BY DEF OnOpen, backend
  <1>2. /\ socket' \in [Sockets -> {"none", "connecting", "open", "closing", "closed"}]
        /\ socket[g] = "connecting" /\ socket'[g] = "open"
        /\ \A h \in Sockets : h # g => socket'[h] = socket[h]
    BY DEF OnOpen, TypeOK
  <1>3. up' \in [Sockets -> Seq({"start", "input"})]
    <2>1. up[g] \in Seq({"start", "input"})
      BY DEF TypeOK
    <2>2. Append(up[g], "start") \in Seq({"start", "input"})
      BY <2>1, AppendProperties
    <2> QED BY <2>2 DEF OnOpen, TypeOK
  <1>4. cur # 0 => cur \in Sockets
    <2>1. cur \in 0 .. MaxSockets
      BY DEF TypeOK
    <2> QED BY <2>1, CurType
  <1>5. ui' = IF g = cur THEN [ui EXCEPT !.connected = TRUE] ELSE ui
    BY DEF OnOpen, Report
  <1>6. /\ ui \in Screens /\ ui' \in Screens
        /\ ui'.exit = ui.exit /\ ui'.error = ui.error /\ ui'.cut = ui.cut
        /\ g = cur => ui'.connected = TRUE
        /\ g # cur => ui' = ui
    BY <1>5 DEF TypeOK, Screens
  <1>7. TypeOK'
    BY <1>1, <1>2, <1>3, <1>6 DEF TypeOK, Screens
  <1>8. SessionIsAt' /\ FramesAreTrue' /\ NoOrphanSession'
    BY <1>1 DEF SessionIsAt, FramesAreTrue, NoOrphanSession
  <1>9. SocketIsAt'
    BY <1>1, <1>2, <1>4 DEF SocketIsAt
  <1>10. ExitIsTrue'
    BY <1>1, <1>6 DEF ExitIsTrue
  <1>11. NoSilentEnd'
    <2>1. CASE g = cur
      BY <1>1, <1>2, <1>6, <2>1 DEF NoSilentEnd
    <2>2. CASE g # cur
      BY <1>1, <1>2, <1>4, <1>6, <2>2 DEF NoSilentEnd
    <2> QED BY <2>1, <2>2
  <1> QED BY <1>7, <1>8, <1>9, <1>10, <1>11

\* The last thing a replaced socket hears is a reason of the backend's, or none.
LEMMA OnReplacedClosedIInv == ASSUME IInv, NEW g \in Sockets, OnReplacedClosed(g) PROVE IInv'
  <1> DEFINE reason == IF down[g] # <<>> THEN down[g][Len(down[g])].reason ELSE ""
  <1>1. down[g] \in Seq(Frames)
    BY DEF IInv, TypeOK, Frames
  <1>2. /\ reason \in Statuses \cup {"", "refused"}
        /\ reason \in Statuses => session[g] = reason
    <2>1. CASE down[g] # <<>>
      <3>1. Len(down[g]) \in DOMAIN down[g] /\ down[g][Len(down[g])] \in Frames
        BY <1>1, <2>1, EmptySeq, ElementOfSeq
      <3> QED BY <2>1, <3>1 DEF Frames, IInv, FramesAreTrue
    <2>2. CASE down[g] = <<>>
      BY <2>2 DEF Statuses
    <2> QED BY <2>1, <2>2
  <1>3. /\ socket[g] \in {"connecting", "open", "closing"}
        /\ Shut(g) /\ UNCHANGED <<cur, up, backend, session>> /\ Report(g, Closed(reason))
    BY DEF OnReplacedClosed
  <1> HIDE DEF reason
  <1> QED BY <1>2, <1>3, ShutIInv

LEMMA OnCloseIInv == ASSUME IInv, NEW g \in Sockets, OnClose(g) PROVE IInv'
  <1> DEFINE reason == Head(down[g]).reason
  <1>1. down[g] \in Seq(Frames) /\ down[g] # <<>>
    BY DEF IInv, TypeOK, Frames, OnClose
  <1>2. 1 \in DOMAIN down[g] /\ Head(down[g]) = down[g][1] /\ down[g][1] \in Frames
    BY <1>1, EmptySeq, ElementOfSeq, HeadTailProperties
  <1>3. /\ reason \in Statuses \cup {"", "refused"}
        /\ reason \in Statuses => session[g] = reason
    BY <1>2 DEF Frames, IInv, FramesAreTrue
  <1>4. /\ socket[g] \in {"connecting", "open", "closing"}
        /\ Shut(g) /\ UNCHANGED <<cur, up, backend, session>> /\ Report(g, Closed(reason))
    BY DEF OnClose
  <1> HIDE DEF reason
  <1> QED BY <1>3, <1>4, ShutIInv

LEMMA TabIInv == ASSUME IInv, NEW g \in Sockets, Tab(g) PROVE IInv'
  <1>1. CASE OnConnectFailed(g) \/ OnBackendClosed(g) \/ OnCut(g)
    <2>1. /\ socket[g] \in {"connecting", "open", "closing"}
          /\ Shut(g) /\ UNCHANGED <<cur, up, backend, session>>
          /\ Report(g, Failed) \/ Report(g, Closed(""))
      BY <1>1 DEF OnConnectFailed, OnBackendClosed, OnCut
    <2>2. "" \notin Statuses
      BY DEF Statuses
    <2> QED BY <2>1, <2>2, ShutIInv
  <1>2. CASE OnMessage(g)
    <2> USE DEF IInv
    <2>1. down[g] # <<>> /\ down' = [down EXCEPT ![g] = Tail(@)]
      BY <1>2 DEF OnMessage
    <2>2. /\ down' \in [Sockets -> Seq(Frames)]
          /\ \A h \in Sockets : \A k \in DOMAIN down'[h] :
                down'[h][k].reason \in Statuses => session[h] = down'[h][k].reason
      BY <2>1, FrameTaken
    <2>3. /\ cur' = cur /\ ui' = ui /\ socket' = socket /\ up' = up /\ session' = session
          /\ handler' = handler /\ relay' = relay /\ ctx' = ctx
      BY <1>2 DEF OnMessage, tab, backend
    <2>4. TypeOK'
      BY <2>2, <2>3 DEF TypeOK, Frames
    <2>5. SessionIsAt' /\ FramesAreTrue' /\ NoOrphanSession' /\ SocketIsAt'
      BY <2>2, <2>3 DEF SessionIsAt, FramesAreTrue, NoOrphanSession, SocketIsAt
    <2>6. ExitIsTrue' /\ NoSilentEnd'
      BY <2>3 DEF ExitIsTrue, NoSilentEnd
    <2> QED BY <2>4, <2>5, <2>6
  <1>3. CASE Send(g)
    <2> USE DEF IInv
    <2>1. /\ cur' = cur /\ ui' = ui /\ socket' = socket /\ down' = down /\ session' = session
          /\ handler' = handler /\ relay' = relay /\ ctx' = ctx
      BY <1>3 DEF Send, tab, backend
    <2>2. up' \in [Sockets -> Seq({"start", "input"})]
      <3>1. up[g] \in Seq({"start", "input"})
        BY DEF TypeOK
      <3>2. Append(up[g], "input") \in Seq({"start", "input"})
        BY <3>1, AppendProperties
      <3> QED BY <1>3, <3>2 DEF Send, TypeOK
    <2>3. TypeOK'
      BY <2>1, <2>2 DEF TypeOK
    <2>4. SessionIsAt' /\ FramesAreTrue' /\ NoOrphanSession' /\ SocketIsAt'
      BY <2>1 DEF SessionIsAt, FramesAreTrue, NoOrphanSession, SocketIsAt
    <2>5. ExitIsTrue' /\ NoSilentEnd'
      BY <2>1 DEF ExitIsTrue, NoSilentEnd
    <2> QED BY <2>3, <2>4, <2>5
  <1> QED BY <1>1, <1>2, <1>3, OnOpenIInv, OnCloseIInv, OnReplacedClosedIInv DEF Tab

-----------------------------------------------------------------------------
\* The backend. Nothing of it is on the screen, so that what its steps owe the
\* tab is only that an exit status, once there, stays.
LEMMA BackendStep ==
    ASSUME IInv, UNCHANGED tab, TypeOK', SessionIsAt', NoOrphanSession',
           \A h \in Sockets : session[h] \in Statuses => session'[h] = session[h],
           \A h \in Sockets : \A k \in DOMAIN down'[h] :
              down'[h][k].reason \in Statuses => session[h] = down'[h][k].reason
    PROVE  IInv'
  <1>1. cur' = cur /\ ui' = ui /\ socket' = socket
    BY DEF tab
  <1>2. FramesAreTrue'
    <2>1. ASSUME NEW h \in Sockets, NEW k \in DOMAIN down'[h],
                 down'[h][k].reason \in Statuses
          PROVE  session'[h] = down'[h][k].reason
      <3>1. session[h] = down'[h][k].reason
        BY <2>1
      <3> QED BY <2>1, <3>1
    <2> QED BY <2>1 DEF FramesAreTrue
  <1>3. SocketIsAt' /\ NoSilentEnd'
    BY <1>1 DEF IInv, SocketIsAt, NoSilentEnd
  <1>4. ExitIsTrue'
    <2>1. ASSUME ui.exit # "none", cur # 0
          PROVE  session'[cur] = ui.exit
      <3>1. cur \in Sockets
        <4>1. cur \in 0 .. MaxSockets
          BY DEF IInv, TypeOK
        <4> QED BY <2>1, <4>1, CurType
      <3>2. session[cur] = ui.exit /\ ui.exit \in Statuses
        BY <2>1 DEF IInv, ExitIsTrue, TypeOK
      <3> QED BY <3>1, <3>2
    <2> QED BY <1>1, <2>1 DEF ExitIsTrue
  <1> QED BY <1>2, <1>3, <1>4 DEF IInv

\* A frame is taken from the front of what the browser sent.
LEMMA UpTaken ==
    ASSUME TypeOK, NEW g \in Sockets, up[g] # <<>>
    PROVE  [up EXCEPT ![g] = Tail(@)] \in [Sockets -> Seq({"start", "input"})]
  <1>1. up[g] \in Seq({"start", "input"})
    BY DEF TypeOK
  <1>2. Tail(up[g]) \in Seq({"start", "input"})
    BY <1>1, HeadTailProperties
  <1> QED BY <1>2 DEF TypeOK

LEMMA RefuseIInv ==
    ASSUME IInv, NEW g \in Sockets, handler[g] \in {"start", "open"}, Refuse(g),
           UNCHANGED <<tab, up, relay, session>>
    PROVE  IInv'
  <1> DEFINE frame == CloseFrame("refused")
  <1>1. frame \in Frames /\ frame.reason \notin Statuses
    BY FrameTypes DEF Statuses
  <1>2. WriteFrame(g, frame) /\ cur' = cur /\ ui' = ui /\ socket' = socket
        /\ up' = up /\ relay' = relay /\ session' = session
    BY DEF Refuse, tab
  <1> HIDE DEF frame
  <1>3. /\ down' \in [Sockets -> Seq(Frames)]
        /\ \A h \in Sockets : \A k \in DOMAIN down'[h] :
              down'[h][k].reason \in Statuses => session[h] = down'[h][k].reason
    BY <1>1, <1>2, FrameWritten
  <1>4. /\ handler' = [handler EXCEPT ![g] = "ended"]
        /\ ctx' = [ctx EXCEPT ![g] = "cancelled"]
    BY DEF Refuse
  <1>5. TypeOK'
    BY <1>2, <1>3, <1>4 DEF IInv, TypeOK, Frames
  <1>6. session[g] = "none"
    BY DEF IInv, SessionIsAt
  <1>7. SessionIsAt' /\ NoOrphanSession'
    BY <1>2, <1>4, <1>6 DEF IInv, TypeOK, SessionIsAt, NoOrphanSession
  <1> QED BY <1>2, <1>3, <1>5, <1>7, BackendStep DEF tab

\* The steps of the handler that send nothing.
LEMMA HandlerStep ==
    ASSUME IInv, NEW g \in Sockets, UNCHANGED <<tab, down, session>>, TypeOK',
           \A h \in Sockets : h # g => handler'[h] = handler[h],
           \/ handler'[g] = handler[g]
           \/ handler'[g] \in {"start", "open"} /\ handler[g] \in {"none", "start"}
           \/ handler'[g] \in {"relaying", "writing", "leaving"}
    PROVE  IInv'
  <1>1. down' = down /\ session' = session /\ UNCHANGED tab
    OBVIOUS
  <1>2. SessionIsAt' /\ NoOrphanSession'
    BY <1>1 DEF IInv, SessionIsAt, NoOrphanSession
  <1>3. \A h \in Sockets : \A k \in DOMAIN down'[h] :
           down'[h][k].reason \in Statuses => session[h] = down'[h][k].reason
    BY <1>1 DEF IInv, FramesAreTrue
  <1> QED BY <1>1, <1>2, <1>3, BackendStep

LEMMA UpgradeIInv == ASSUME IInv, NEW g \in Sockets, Upgrade(g) PROVE IInv'
  <1>1. /\ UNCHANGED <<tab, down, session>> /\ cur' = cur /\ ui' = ui /\ socket' = socket
        /\ up' = up /\ down' = down /\ relay' = relay /\ ctx' = ctx /\ session' = session
        /\ handler[g] = "none" /\ handler' = [handler EXCEPT ![g] = "start"]
    BY DEF Upgrade, tab
  <1>2. TypeOK'
    BY <1>1 DEF IInv, TypeOK
  <1>3. handler'[g] = "start" /\ \A h \in Sockets : h # g => handler'[h] = handler[h]
    BY <1>1 DEF IInv, TypeOK
  <1> QED BY <1>1, <1>2, <1>3, HandlerStep

LEMMA ReadStartMessageIInv ==
    ASSUME IInv, NEW g \in Sockets, ReadStartMessage(g) PROVE IInv'
  <1>1. UNCHANGED <<tab, relay, session>> /\ handler[g] = "start"
    BY DEF ReadStartMessage
  <1>2. CASE Refuse(g) /\ UNCHANGED up
    BY <1>1, <1>2, RefuseIInv
  <1>3. CASE /\ up[g] # <<>>
             /\ up' = [up EXCEPT ![g] = Tail(@)]
             /\ handler' = [handler EXCEPT ![g] = "open"]
             /\ UNCHANGED <<down, ctx>>
    <2>1. up' \in [Sockets -> Seq({"start", "input"})]
      BY <1>3, UpTaken DEF IInv
    <2>2. /\ UNCHANGED <<tab, down, session>> /\ cur' = cur /\ ui' = ui /\ socket' = socket
          /\ down' = down /\ relay' = relay /\ ctx' = ctx /\ session' = session
      BY <1>1, <1>3 DEF tab
    <2>3. handler' = [handler EXCEPT ![g] = "open"]
      BY <1>3
    <2>4. TypeOK'
      BY <2>1, <2>2, <2>3 DEF IInv, TypeOK
    <2>5. handler'[g] = "open" /\ \A h \in Sockets : h # g => handler'[h] = handler[h]
      BY <2>3 DEF IInv, TypeOK
    <2> QED BY <1>1, <2>2, <2>4, <2>5, HandlerStep
  <1> QED BY <1>2, <1>3 DEF ReadStartMessage

LEMMA OpenSessionIInv ==
    ASSUME IInv, NEW g \in Sockets, OpenSession(g) PROVE IInv'
  <1>1. UNCHANGED <<tab, up>> /\ handler[g] = "open"
    BY DEF OpenSession
  <1>2. CASE Refuse(g) /\ UNCHANGED <<session, relay>>
    BY <1>1, <1>2, RefuseIInv
  <1>3. CASE /\ session' = [session EXCEPT ![g] = "running"]
             /\ relay' = [relay EXCEPT ![g] = "reading"]
             /\ handler' = [handler EXCEPT ![g] = "relaying"]
             /\ UNCHANGED <<down, ctx>>
    <2>1. cur' = cur /\ ui' = ui /\ socket' = socket /\ up' = up /\ down' = down /\ ctx' = ctx
      BY <1>1, <1>3 DEF tab
    <2>2. TypeOK'
      BY <1>3, <2>1 DEF IInv, TypeOK
    <2>3. session[g] = "none"
      BY <1>1 DEF IInv, SessionIsAt
    <2>4. SessionIsAt' /\ NoOrphanSession'
      BY <1>3, <2>3 DEF IInv, TypeOK, SessionIsAt, NoOrphanSession
    <2>5. \A h \in Sockets : session[h] \in Statuses => session'[h] = session[h]
      BY <1>3, <2>3 DEF IInv, TypeOK, Statuses
    <2>6. \A h \in Sockets : \A k \in DOMAIN down'[h] :
             down'[h][k].reason \in Statuses => session[h] = down'[h][k].reason
      BY <2>1 DEF IInv, FramesAreTrue
    <2> QED BY <1>1, <2>2, <2>4, <2>5, <2>6, BackendStep
  <1> QED BY <1>2, <1>3 DEF OpenSession

LEMMA ReadFailsIInv == ASSUME IInv, NEW g \in Sockets, ReadFails(g) PROVE IInv'
  <1>1. /\ UNCHANGED <<tab, down, session>> /\ cur' = cur /\ ui' = ui /\ socket' = socket
        /\ up' = up /\ down' = down /\ relay' = relay /\ session' = session
        /\ handler' = [handler EXCEPT ![g] = "leaving"]
        /\ ctx' = [ctx EXCEPT ![g] = "cancelled"]
    BY DEF ReadFails, Leave, tab
  <1>2. TypeOK'
    BY <1>1 DEF IInv, TypeOK
  <1>3. handler'[g] = "leaving" /\ \A h \in Sockets : h # g => handler'[h] = handler[h]
    BY <1>1 DEF IInv, TypeOK
  <1> QED BY <1>1, <1>2, <1>3, HandlerStep

LEMMA ReadFrameIInv == ASSUME IInv, NEW g \in Sockets, ReadFrame(g) PROVE IInv'
  <1>1. up' \in [Sockets -> Seq({"start", "input"})]
    <2>1. up[g] # <<>> /\ up' = [up EXCEPT ![g] = Tail(@)]
      BY DEF ReadFrame
    <2> QED BY <2>1, UpTaken DEF IInv
  <1>2. /\ UNCHANGED <<tab, down, session>> /\ cur' = cur /\ ui' = ui /\ socket' = socket
        /\ down' = down /\ relay' = relay /\ session' = session /\ ctx' = ctx
        /\ handler' = [handler EXCEPT ![g] = "writing"]
    BY DEF ReadFrame, tab
  <1>3. TypeOK'
    BY <1>1, <1>2 DEF IInv, TypeOK
  <1>4. handler'[g] = "writing" /\ \A h \in Sockets : h # g => handler'[h] = handler[h]
    BY <1>2 DEF IInv, TypeOK
  <1> QED BY <1>2, <1>3, <1>4, HandlerStep

\* A write to the session ends: its handler reads on, or leaves.
LEMMA WriteEndsIInv ==
    ASSUME IInv, NEW g \in Sockets, SessionTakes(g) \/ WriteReturns(g)
    PROVE  IInv'
  <1>1. /\ UNCHANGED <<tab, down, session>> /\ cur' = cur /\ ui' = ui /\ socket' = socket
        /\ up' = up /\ down' = down /\ relay' = relay /\ session' = session
    BY DEF SessionTakes, WriteReturns, tab
  <1>2. \/ handler' = [handler EXCEPT ![g] = "relaying"] /\ ctx' = ctx
        \/ /\ handler' = [handler EXCEPT ![g] = "leaving"]
           /\ ctx' = [ctx EXCEPT ![g] = "cancelled"]
    BY DEF SessionTakes, WriteReturns, Leave
  <1>3. TypeOK'
    BY <1>1, <1>2 DEF IInv, TypeOK
  <1>4. /\ \A h \in Sockets : h # g => handler'[h] = handler[h]
        /\ handler'[g] \in {"relaying", "leaving"}
    BY <1>2 DEF IInv, TypeOK
  <1> QED BY <1>1, <1>3, <1>4, HandlerStep

\* The session is closed with the handler: what is running then is not.
LEMMA CloseSessionIInv ==
    ASSUME IInv, NEW g \in Sockets, CloseSession(g) PROVE IInv'
  <1>1. /\ UNCHANGED tab /\ cur' = cur /\ ui' = ui /\ socket' = socket
        /\ up' = up /\ down' = down /\ relay' = relay /\ ctx' = ctx
        /\ handler[g] = "leaving" /\ handler' = [handler EXCEPT ![g] = "ended"]
        /\ session' = [session EXCEPT ![g] = IF @ = "running" THEN "closed" ELSE @]
    BY DEF CloseSession, tab
  <1>2. TypeOK'
    BY <1>1 DEF IInv, TypeOK
  <1>3. SessionIsAt' /\ NoOrphanSession'
    BY <1>1 DEF IInv, TypeOK, SessionIsAt, NoOrphanSession
  <1>4. \A h \in Sockets : session[h] \in Statuses => session'[h] = session[h]
    BY <1>1 DEF IInv, TypeOK, Statuses
  <1>5. \A h \in Sockets : \A k \in DOMAIN down'[h] :
           down'[h][k].reason \in Statuses => session[h] = down'[h][k].reason
    BY <1>1 DEF IInv, FramesAreTrue
  <1> QED BY <1>1, <1>2, <1>3, <1>4, <1>5, BackendStep

\* The relay writes output, or the close frame: the session's own status, if
\* it has one.
LEMMA RelayIInv == ASSUME IInv, NEW g \in Sockets, Relay(g) PROVE IInv'
  <1> DEFINE frame == IF RelayOutput(g) THEN Output ELSE CloseFrame(CloseReason(g))
  <1>1. /\ UNCHANGED tab /\ cur' = cur /\ ui' = ui /\ socket' = socket
        /\ up' = up /\ handler' = handler /\ session' = session
        /\ relay' \in {relay, [relay EXCEPT ![g] = "ended"]}
        /\ ctx' \in {ctx, [ctx EXCEPT ![g] = "cancelled"]}
    BY DEF Relay, RelayOutput, RelayEnds, tab, backend
  <1>2. down' = down \/ WriteFrame(g, frame)
    BY DEF Relay, RelayEnds, RelayOutput
  <1>3. frame \in Frames /\ (frame.reason \in Statuses => session[g] = frame.reason)
    <2>1. CloseReason(g) \in Statuses \cup {"", "refused"}
          /\ (CloseReason(g) \in Statuses => session[g] = CloseReason(g))
      BY DEF CloseReason, Statuses
    <2>2. CloseFrame(CloseReason(g)) \in Frames
          /\ CloseFrame(CloseReason(g)).reason = CloseReason(g)
      BY <2>1, FrameTypes
    <2> QED BY <2>1, <2>2, FrameTypes
  <1>4. /\ down' \in [Sockets -> Seq(Frames)]
        /\ \A h \in Sockets : \A k \in DOMAIN down'[h] :
              down'[h][k].reason \in Statuses => session[h] = down'[h][k].reason
    <2> HIDE DEF frame
    <2>1. CASE down' = down
      BY <2>1 DEF IInv, TypeOK, FramesAreTrue, Frames
    <2>2. CASE WriteFrame(g, frame)
      BY <1>3, <2>2, FrameWritten
    <2> QED BY <1>2, <2>1, <2>2
  <1>5. TypeOK'
    BY <1>1, <1>4 DEF IInv, TypeOK, Frames
  <1>6. SessionIsAt' /\ NoOrphanSession'
    BY <1>1 DEF IInv, SessionIsAt, NoOrphanSession
  <1> QED BY <1>1, <1>4, <1>5, <1>6, BackendStep

LEMMA SessionEndsIInv ==
    ASSUME IInv, NEW g \in Sockets, SessionEnds(g) PROVE IInv'
  <1>1. /\ UNCHANGED tab /\ cur' = cur /\ ui' = ui /\ socket' = socket
        /\ up' = up /\ down' = down /\ handler' = handler /\ relay' = relay /\ ctx' = ctx
    BY DEF SessionEnds, tab, backend
  <1>2. PICK s \in Statuses \cup {"failed"} : session' = [session EXCEPT ![g] = s]
    BY DEF SessionEnds
  <1>3. session[g] = "running"
    BY DEF SessionEnds
  <1>4. TypeOK'
    BY <1>1, <1>2 DEF IInv, TypeOK
  <1>5. SessionIsAt' /\ NoOrphanSession'
    BY <1>1, <1>2, <1>3 DEF IInv, TypeOK, SessionIsAt, NoOrphanSession, Statuses
  <1>6. \A h \in Sockets : session[h] \in Statuses => session'[h] = session[h]
    BY <1>2, <1>3 DEF IInv, TypeOK, Statuses
  <1>7. \A h \in Sockets : \A k \in DOMAIN down'[h] :
           down'[h][k].reason \in Statuses => session[h] = down'[h][k].reason
    BY <1>1 DEF IInv, FramesAreTrue
  <1> QED BY <1>1, <1>4, <1>5, <1>6, <1>7, BackendStep

-----------------------------------------------------------------------------
LEMMA StutterIInv == ASSUME IInv, UNCHANGED vars PROVE IInv'
  <1>1. /\ cur' = cur /\ ui' = ui /\ socket' = socket /\ up' = up /\ down' = down
        /\ handler' = handler /\ relay' = relay /\ ctx' = ctx /\ session' = session
    BY DEF vars, tab, backend
  <1> QED BY <1>1 DEF IInv, TypeOK, SessionIsAt, FramesAreTrue, SocketIsAt, ExitIsTrue,
                      NoSilentEnd, NoOrphanSession

LEMMA StepIInv == IInv /\ [Next]_vars => IInv'
  <1> SUFFICES ASSUME IInv, [Next]_vars PROVE IInv'
    OBVIOUS
  <1>1. CASE Connect
    BY <1>1, ConnectIInv
  <1>2. CASE Unmount
    BY <1>2, UnmountIInv
  <1>3. ASSUME NEW g \in Sockets, Tab(g) \/ Upgrade(g) \/ Relay(g) \/ SessionTakes(g) \/ SessionEnds(g)
        PROVE  IInv'
    BY <1>3, TabIInv, UpgradeIInv, RelayIInv, WriteEndsIInv, SessionEndsIInv
  <1>4. ASSUME NEW g \in Sockets, Handler(g)
        PROVE  IInv'
    BY <1>4, ReadStartMessageIInv, OpenSessionIInv, ReadFailsIInv, ReadFrameIInv,
       WriteEndsIInv, CloseSessionIInv DEF Handler
  <1>5. CASE UNCHANGED vars
    BY <1>5, StutterIInv
  <1> QED BY <1>1, <1>2, <1>3, <1>4, <1>5 DEF Next

LEMMA Inductive == Spec => []IInv
  <1>1. Init => IInv
    BY InitIInv
  <1>2. IInv /\ [Next]_vars => IInv'
    BY StepIInv
  <1> QED BY <1>1, <1>2, PTL DEF Spec

\* Every variable keeps its type, however many sockets the tab opens.
THEOREM TypeIsInvariant == Spec => []TypeOK
  <1>1. IInv => TypeOK
    BY DEF IInv
  <1> QED BY <1>1, Inductive, PTL

\* An exit code on the screen is the one the command of that session ended
\* with: it came in the close frame the relay made of the session's own status
\* (sessionCloseMessage), and neither a later close by the handler nor an event
\* of a socket the tab has replaced can change it.
THEOREM ExitCodesAreTrue == Spec => []ExitIsTrue
  <1>1. IInv => ExitIsTrue
    BY DEF IInv
  <1> QED BY <1>1, Inductive, PTL

\* The screen says connected exactly while the socket on it is open, and says
\* how the session ended exactly once that socket is closed: onopen, onclose
\* and onerror of the current socket, and of no other, write the state.
THEOREM EndsAreNeverSilent == Spec => []NoSilentEnd
  <1>1. IInv => NoSilentEnd
    BY DEF IInv
  <1> QED BY <1>1, Inductive, PTL

\* A handler that has returned has closed its session on every way out, the
\* refusals before there is one included (the deferred Close of Terminal).
THEOREM NoSessionIsOrphaned == Spec => []NoOrphanSession
  <1>1. IInv => NoOrphanSession
    BY DEF IInv
  <1> QED BY <1>1, Inductive, PTL
=============================================================================
