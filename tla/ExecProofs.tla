------------------------------ MODULE ExecProofs ------------------------------
(***************************************************************************)
(* Proofs about the two ways the handlers use an exec stream of the        *)
(* gateway: StdinExec, which feeds a command its input, and Download,      *)
(* which hands on what a command writes. They hold for every length of     *)
(* payload or output and every window.                                     *)
(***************************************************************************)
EXTENDS StdinExec, Download, SequenceTheorems, TLAPS

-----------------------------------------------------------------------------
(* StdinExec *)

Messages == {"start", "chunk", "end"}

\* What a message more, or less, makes of the messages under way.
LEMMA AppendFacts ==
    ASSUME NEW s \in Seq(Messages), NEW m \in Messages
    PROVE  /\ Append(s, m) \in Seq(Messages)
           /\ Len(Append(s, m)) = Len(s) + 1
           /\ Append(s, m) # <<>>
           /\ Append(s, m)[Len(s) + 1] = m
           /\ \A k \in 1 .. Len(s) : Append(s, m)[k] = s[k]
  BY DEF Messages

LEMMA TailFacts ==
    ASSUME NEW s \in Seq(Messages), s # <<>>
    PROVE  /\ Len(s) \in Nat /\ Len(s) > 0
           /\ Head(s) = s[1] /\ s[1] \in Messages
           /\ Tail(s) \in Seq(Messages)
           /\ Len(Tail(s)) = Len(s) - 1
           /\ Len(s) = 1 => Tail(s) = <<>>
           /\ \A k \in 1 .. Len(Tail(s)) : k + 1 \in 1 .. Len(s) /\ Tail(s)[k] = s[k + 1]
  <1>1. Len(s) \in Nat \ {0}
    BY EmptySeq
  <1>2. Head(s) = s[1] /\ s[1] \in Messages
    BY <1>1, ElementOfSeq
  <1>3. /\ Tail(s) \in Seq(Messages) /\ Len(Tail(s)) = Len(s) - 1
        /\ \A k \in 1 .. Len(Tail(s)) : Tail(s)[k] = s[k + 1]
    BY HeadTailProperties
  <1>4. ASSUME Len(s) = 1 PROVE Tail(s) = <<>>
    <2>1. Len(Tail(s)) = 0
      BY <1>3, <1>4
    <2> QED BY <1>3, <2>1, EmptySeq
  <1> QED BY <1>1, <1>2, <1>3, <1>4

LEMMA OnesType == \A b : Ones(b) \in Int /\ 0 <= Ones(b) /\ Ones(b) <= 1
  BY DEF Ones

LEMMA WaitingType ==
    ASSUME IInv
    PROVE  /\ up \in Seq(Messages) /\ Len(up) \in Nat
           /\ ChunksWaiting \in Int
  <1>1. up \in Seq(Messages) /\ Len(up) \in Nat
    BY DEF IInv, TypeOK, Messages
  <1> QED BY <1>1, OnesType DEF ChunksWaiting

LEMMA InitIInv == Init => IInv
  <1> SUFFICES ASSUME Init PROVE IInv
    OBVIOUS
  <1>1. up = <<>> /\ down = <<>> /\ Len(up) = 0 /\ Len(down) = 0
    BY DEF Init
  <1>2. TypeOK
    <2>1. up \in Seq({"start", "chunk", "end"}) /\ down \in Seq({Output, 0, 1})
      BY <1>1, EmptySeq
    <2>2. total \in 0 .. MaxChunks /\ left \in 0 .. total /\ fed \in 0 .. total
      BY ChunksAssumption DEF Init
    <2>3. Len(up) <= Window + 1
      BY <1>1, WindowAssumption
    <2> QED BY <2>1, <2>2, <2>3 DEF Init, TypeOK
  <1>3. UpInOrder
    BY <1>1, WindowAssumption DEF Init, UpInOrder
  <1>4. ~StartWaits /\ ~EndWaits /\ ChunksWaiting = 0
    BY <1>1 DEF StartWaits, EndWaits, ChunksWaiting, Ones
  <1>5. Flow
    BY <1>4, ChunksAssumption DEF Init, Flow, Ones
  <1>6. SenderIsAt /\ EndFlow /\ CallerIsAt
    BY <1>1, <1>4 DEF Init, SenderIsAt, EndFlow, CallerIsAt
  <1> QED BY <1>2, <1>3, <1>5, <1>6 DEF IInv

\* While the stream is not over, a message is sent: what IInv says of the
\* messages under way is kept.
LEMMA Sends ==
    ASSUME IInv, NEW m \in Messages, ~StreamOver, up' = Append(up, m),
           sendPc # "done", m = "start" <=> sendPc = "start",
           UNCHANGED <<total, ctx, remote>>
    PROVE  /\ up' \in Seq(Messages) /\ Len(up') = Len(up) + 1
           /\ \A k \in 1 .. Len(up') : /\ up'[k] = "start" <=> k = 1 /\ cmd' = "none"
                                       /\ up'[k] = "end" => k = Len(up')
           /\ up' # <<>> /\ ~StreamOver'
           /\ EndWaits' <=> m = "end"
           /\ ChunksWaiting' = ChunksWaiting + Ones(m = "chunk")
  <1>1. /\ up \in Seq(Messages) /\ Len(up) \in Nat /\ ~EndWaits
        /\ cmd' = cmd /\ ~StreamOver'
    BY WaitingType DEF IInv, EndFlow, remote, StreamOver
  <1>2. /\ up' \in Seq(Messages) /\ Len(up') = Len(up) + 1
        /\ up' # <<>> /\ up'[Len(up) + 1] = m
        /\ \A k \in 1 .. Len(up) : up'[k] = up[k]
    BY <1>1, AppendFacts
  <1>3. up # <<>> => Len(up) > 0 /\ up[Len(up)] # "end"
    BY <1>1 DEF EndWaits
  <1>4. up = <<>> => Len(up) = 0
    OBVIOUS
  <1>5. \A k \in 1 .. Len(up) : up[k] # "end"
    BY <1>1, <1>3 DEF IInv, UpInOrder
  <1>6. m = "start" => up = <<>> /\ cmd = "none"
    BY DEF IInv, UpInOrder
  <1>7. m # "start" => (cmd = "none" => up # <<>>)
    BY DEF IInv, UpInOrder
  <1>8. \A k \in 1 .. Len(up') : /\ up'[k] = "start" <=> k = 1 /\ cmd' = "none"
                                 /\ up'[k] = "end" => k = Len(up')
    BY <1>1, <1>2, <1>3, <1>4, <1>5, <1>6, <1>7 DEF IInv, UpInOrder
  <1>9. EndWaits' <=> m = "end"
    BY <1>2 DEF EndWaits
  <1>10. StartWaits' <=> StartWaits \/ m = "start"
    BY <1>1, <1>2, <1>6, <1>7 DEF StartWaits
  <1>11. m = "start" => ~StartWaits
    BY <1>6 DEF StartWaits
  <1>12. Ones(EndWaits) = 0 /\ Ones(EndWaits') = Ones(m = "end")
    BY <1>1, <1>9 DEF Ones
  <1>13. Ones(StartWaits') = Ones(StartWaits) + Ones(m = "start")
    BY <1>10, <1>11 DEF Ones
  <1>14. Ones(m = "start") + Ones(m = "chunk") + Ones(m = "end") = 1
    BY DEF Ones, Messages
  <1>15. ChunksWaiting' = ChunksWaiting + Ones(m = "chunk")
    BY <1>1, <1>2, <1>12, <1>13, <1>14, OnesType DEF ChunksWaiting
  <1> QED BY <1>1, <1>2, <1>8, <1>9, <1>15

\* The gateway takes a message from them.
LEMMA Takes ==
    ASSUME IInv, GatewayTakes
    PROVE  /\ up' \in Seq(Messages) /\ Len(up') = Len(up) - 1
           /\ \A k \in 1 .. Len(up') : /\ up'[k] = "start" <=> k = 1 /\ cmd' = "none"
                                       /\ up'[k] = "end" => k = Len(up')
           /\ cmd' # "none"
           /\ fed' + ChunksWaiting' = fed + ChunksWaiting
           /\ fed' \in 0 .. total
           /\ EndWaits' => EndWaits
           /\ Head(up) = "end" => EndWaits /\ up' = <<>> /\ ChunksWaiting' = 0
  <1> DEFINE m == Head(up)
  <1>1. /\ up \in Seq(Messages) /\ Len(up) \in Nat /\ Len(up) > 0
        /\ m = up[1] /\ m \in Messages
        /\ up' \in Seq(Messages) /\ Len(up') = Len(up) - 1
        /\ Len(up) = 1 => up' = <<>>
        /\ \A k \in 1 .. Len(up') : k + 1 \in 1 .. Len(up) /\ up'[k] = up[k + 1]
    BY WaitingType, TailFacts DEF GatewayTakes
  <1>2. m = "start" <=> cmd = "none"
    BY <1>1 DEF IInv, UpInOrder
  <1>3. /\ m = "start" => cmd' = "running" /\ fed' = fed
        /\ m = "chunk" => cmd' = cmd /\ fed' = fed + 1
        /\ m = "end" => cmd' = cmd /\ fed' = fed
    BY DEF GatewayTakes
  <1>4. cmd' # "none"
    BY <1>1, <1>2, <1>3 DEF Messages
  <1>5. \A k \in 1 .. Len(up') : up'[k] # "start" /\ (up'[k] = "end" => k = Len(up'))
    BY <1>1 DEF IInv, UpInOrder
  <1>6. m = "end" => Len(up) = 1
    BY <1>1 DEF IInv, UpInOrder
  <1>7. /\ EndWaits <=> up[Len(up)] = "end"
        /\ StartWaits <=> m = "start"
        /\ ~StartWaits'
    BY <1>1, <1>2, <1>4 DEF EndWaits, StartWaits
  <1>8. EndWaits' <=> EndWaits /\ Len(up) # 1
    <2>1. Len(up) # 1 => up' # <<>> /\ up'[Len(up')] = up[Len(up)]
      BY <1>1
    <2> QED BY <1>1, <1>7, <2>1 DEF EndWaits
  <1>9. fed \in Nat /\ fed' \in Nat
    BY <1>1, <1>3 DEF IInv, TypeOK, Messages
  <1>10. fed' + ChunksWaiting' = fed + ChunksWaiting
    <2>1. /\ Len(up) \in Nat /\ Len(up') = Len(up) - 1
          /\ ChunksWaiting = Len(up) - Ones(StartWaits) - Ones(EndWaits)
          /\ ChunksWaiting' = Len(up') - Ones(StartWaits') - Ones(EndWaits')
          /\ ChunksWaiting \in Int
      BY <1>1, WaitingType DEF ChunksWaiting
    <2>2. Ones(StartWaits') = 0 /\ Ones(StartWaits) = IF m = "start" THEN 1 ELSE 0
      BY <1>7 DEF Ones
    <2>3. CASE m = "end"
      <3>1. Ones(EndWaits) = 1 /\ Ones(EndWaits') = 0 /\ Ones(StartWaits) = 0
        BY <2>3, <2>2, <1>1, <1>6, <1>7, <1>8 DEF Ones
      <3>2. ChunksWaiting' = ChunksWaiting /\ fed' = fed
        BY <2>1, <2>2, <2>3, <3>1, <1>3
      <3> QED BY <3>2
    <2>4. CASE m # "end"
      <3>1. EndWaits' <=> EndWaits
        BY <2>4, <1>1, <1>7, <1>8
      <3>2. Ones(EndWaits') = Ones(EndWaits) /\ Ones(EndWaits) \in {0, 1}
        BY <3>1 DEF Ones
      <3>3. CASE m = "start"
        <4>1. ChunksWaiting' = ChunksWaiting /\ fed' = fed
          BY <2>1, <2>2, <3>2, <3>3, <1>3
        <4> QED BY <4>1
      <3>4. CASE m = "chunk"
        <4>1. ChunksWaiting' = ChunksWaiting - 1 /\ fed' = fed + 1
          BY <2>1, <2>2, <3>2, <3>4, <1>3
        <4> QED BY <4>1, <2>1, <1>9
      <3> QED BY <2>4, <3>3, <3>4, <1>1 DEF Messages
    <2> QED BY <2>3, <2>4
  <1>11. ChunksWaiting' >= 0
    <2>1. EndWaits' => Len(up') > 0
      BY <1>1 DEF EndWaits
    <2>2. Ones(StartWaits') = 0 /\ Ones(EndWaits') <= Len(up')
      BY <1>1, <1>7, <2>1 DEF Ones
    <2> QED BY <1>1, <2>2, OnesType DEF ChunksWaiting
  <1>12. fed' \in 0 .. total
    <2>1. fed + ChunksWaiting <= total - left - Ones(sendPc = "send")
      BY DEF IInv, Flow
    <2>2. total \in Nat /\ left \in Nat
      BY ChunksAssumption DEF IInv, TypeOK
    <2>3. ChunksWaiting \in Int /\ ChunksWaiting' \in Int
      BY <1>1, WaitingType, OnesType DEF ChunksWaiting
    <2>4. Ones(sendPc = "send") >= 0 /\ Ones(sendPc = "send") \in Int
      BY OnesType
    <2>5. fed + ChunksWaiting <= total
      BY <2>1, <2>2, <2>3, <2>4, <1>9
    <2>6. \A f \in Nat, c \in Int : c >= 0 /\ f + c = fed + ChunksWaiting => f \in 0 .. total
      BY <2>2, <2>3, <2>5, <1>9
    <2> QED BY <2>3, <2>6, <1>9, <1>10, <1>11
  <1>13. m = "end" => EndWaits /\ up' = <<>> /\ ChunksWaiting' = 0
    BY <1>1, <1>6, <1>7, <1>8 DEF ChunksWaiting, Ones
  <1> QED BY <1>1, <1>4, <1>5, <1>8, <1>10, <1>12, <1>13

\* Every step keeps it.
LEMMA StepIInv == IInv /\ [Next]_vars => IInv'
  <1> SUFFICES ASSUME IInv, [Next]_vars PROVE IInv'
    OBVIOUS
  <1> USE ChunksAssumption, WindowAssumption
  <1>1. CASE SendStart
    <2>1. CASE ~StreamOver /\ Len(up) < Window /\ up' = Append(up, "start") /\ sendPc' = "fill" /\ UNCHANGED sentErr
      <3>1. /\ sendPc = "start" /\ UNCHANGED <<total, left, reader, receiver, ctx, down, remote>>
        BY <1>1 DEF SendStart
      <3>2. PICK m \in Messages : m = "start"
        BY DEF Messages
      <3>3. /\ up' \in Seq(Messages) /\ Len(up') = Len(up) + 1
            /\ \A k \in 1 .. Len(up') : /\ up'[k] = "start" <=> k = 1 /\ cmd' = "none"
                                        /\ up'[k] = "end" => k = Len(up')
            /\ up' # <<>> /\ ~StreamOver'
            /\ ~EndWaits'
            /\ ChunksWaiting' = ChunksWaiting + Ones(FALSE)
        BY <2>1, <3>1, <3>2, Sends
      <3>4. Len(up) \in Nat
        BY WaitingType
      <3>5. TypeOK'
        BY <2>1, <3>1, <3>3, <3>4 DEF IInv, TypeOK, receiver, remote, Messages
      <3>6. UpInOrder'
        BY <2>1, <3>1, <3>3 DEF IInv, UpInOrder, remote
      <3>7. Flow'
        <4>1. ChunksWaiting' = ChunksWaiting /\ ChunksWaiting \in Int
          BY <3>3, WaitingType DEF Ones
        <4> QED BY <2>1, <3>1, <4>1 DEF IInv, Flow, Ones, remote
      <3>8. SenderIsAt'
        BY <2>1, <3>1 DEF IInv, SenderIsAt
      <3>9. EndFlow'
        BY <2>1, <3>1, <3>3 DEF IInv, EndFlow, remote
      <3>10. CallerIsAt'
        BY <2>1, <3>1 DEF IInv, CallerIsAt, receiver, remote
      <3> QED BY <3>5, <3>6, <3>7, <3>8, <3>9, <3>10 DEF IInv
    <2>2. CASE StreamOver /\ UNCHANGED up
      <3>1. /\ sendPc = "start" /\ UNCHANGED <<total, left, reader, receiver, ctx, down, remote>>
            /\ \/ sendPc' = "done" /\ sentErr' = "stream"
               \/ sendPc' = "fill" /\ sentErr' = sentErr
        BY <1>1, <2>2 DEF SendStart, SendOn
      <3>2. /\ (StreamOver' <=> StreamOver) /\ (EndWaits' <=> EndWaits)
            /\ ChunksWaiting' = ChunksWaiting
        BY <2>2, <3>1 DEF StreamOver, StartWaits, EndWaits, ChunksWaiting, remote
      <3>3. TypeOK'
        BY <2>2, <3>1 DEF IInv, TypeOK, receiver, remote
      <3>4. UpInOrder'
        BY <2>2, <3>1, <3>2 DEF IInv, UpInOrder, remote
      <3>5. Flow'
        BY <2>2, <3>1, <3>2 DEF IInv, Flow, Ones, remote
      <3>6. SenderIsAt'
        BY <3>1 DEF IInv, SenderIsAt
      <3>7. EndFlow'
        BY <2>2, <3>1, <3>2 DEF IInv, EndFlow, remote
      <3>8. CallerIsAt'
        BY <3>1 DEF IInv, CallerIsAt, receiver, remote
      <3> QED BY <3>3, <3>4, <3>5, <3>6, <3>7, <3>8 DEF IInv
    <2> QED BY <1>1, <2>1, <2>2 DEF SendStart, SendOn
  <1>2. CASE FillChunk
    <2>1. /\ (StreamOver' <=> StreamOver) /\ (EndWaits' <=> EndWaits)
          /\ ChunksWaiting' = ChunksWaiting /\ ChunksWaiting \in Int
      BY <1>2, WaitingType DEF FillChunk, StreamOver, StartWaits, EndWaits, ChunksWaiting, remote
    <2>2. /\ sendPc = "fill" /\ UNCHANGED <<total, sentErr, receiver, ctx, up, down, remote>>
          /\ \/ left > 0 /\ left' = left - 1 /\ sendPc' = "send"
                /\ reader' \in {"reading", "ended"} /\ (reader' = "ended" => left = 1)
             \/ left = 0 /\ left' = left /\ sendPc' = "close" /\ reader' = "ended"
      BY <1>2 DEF FillChunk
    <2>3. TypeOK'
      BY <2>2 DEF IInv, TypeOK, receiver, remote
    <2>4. UpInOrder'
      BY <2>1, <2>2 DEF IInv, UpInOrder, remote
    <2>5. Flow'
      <3>1. left \in Nat /\ total \in Nat /\ fed \in Nat
        BY DEF IInv, TypeOK
      <3>2. total' - left' - Ones(sendPc' = "send") = total - left - Ones(sendPc = "send")
        BY <2>2, <3>1 DEF Ones
      <3> QED BY <2>1, <2>2, <3>1, <3>2 DEF IInv, Flow, remote
    <2>6. SenderIsAt'
      BY <2>2 DEF IInv, TypeOK, SenderIsAt
    <2>7. EndFlow'
      BY <2>1, <2>2 DEF IInv, EndFlow, remote
    <2>8. CallerIsAt'
      BY <2>2 DEF IInv, CallerIsAt, receiver, remote
    <2> QED BY <2>3, <2>4, <2>5, <2>6, <2>7, <2>8 DEF IInv
  <1>3. CASE FillFails
    <2>1. TypeOK'
      BY <1>3 DEF FillFails, IInv, TypeOK, receiver, remote
    <2>2. UpInOrder'
      BY <1>3 DEF FillFails, IInv, UpInOrder, StreamOver, receiver, remote
    <2>3. Flow'
      BY <1>3 DEF FillFails, IInv, Flow, StreamOver, StartWaits, EndWaits,
             ChunksWaiting, Ones, receiver, remote
    <2>4. SenderIsAt'
      BY <1>3 DEF FillFails, IInv, SenderIsAt, receiver, remote
    <2>5. EndFlow'
      BY <1>3 DEF FillFails, IInv, EndFlow, StartWaits, EndWaits,
             ChunksWaiting, receiver, remote
    <2>6. CallerIsAt'
      BY <1>3 DEF FillFails, IInv, CallerIsAt, receiver, remote
    <2> QED BY <2>1, <2>2, <2>3, <2>4, <2>5, <2>6 DEF IInv
  <1>4. CASE SendChunk
    <2> DEFINE nextPc == IF reader = "ended" THEN "close" ELSE "fill"
    <2>0. /\ sendPc = "send" /\ UNCHANGED <<total, left, reader, receiver, ctx, down, remote>>
          /\ reader # "failed" /\ (reader = "ended" => left = 0) /\ sentErr = "none"
      BY <1>4 DEF SendChunk, IInv, SenderIsAt
    <2>1. CASE ~StreamOver /\ Len(up) < Window /\ up' = Append(up, "chunk") /\ sendPc' = nextPc /\ UNCHANGED sentErr
      <3>1. PICK m \in Messages : m = "chunk"
        BY DEF Messages
      <3>2. /\ up' \in Seq(Messages) /\ Len(up') = Len(up) + 1
            /\ \A k \in 1 .. Len(up') : /\ up'[k] = "start" <=> k = 1 /\ cmd' = "none"
                                        /\ up'[k] = "end" => k = Len(up')
            /\ up' # <<>> /\ ~StreamOver'
            /\ ~EndWaits'
            /\ ChunksWaiting' = ChunksWaiting + Ones(TRUE)
        BY <2>0, <2>1, <3>1, Sends
      <3>3. Len(up) \in Nat
        BY WaitingType
      <3>4. TypeOK'
        BY <2>0, <2>1, <3>2, <3>3 DEF IInv, TypeOK, receiver, remote, Messages
      <3>5. UpInOrder'
        BY <2>0, <2>1, <3>2 DEF IInv, UpInOrder, remote
      <3>6. Flow'
        <4>1. ChunksWaiting' = ChunksWaiting + 1 /\ ChunksWaiting \in Int
          BY <3>2, WaitingType DEF Ones
        <4>2. left \in Nat /\ total \in Nat /\ fed \in Nat
          BY DEF IInv, TypeOK
        <4>3. fed + ChunksWaiting = total - left - 1
          BY <2>0, <2>1 DEF IInv, Flow, Ones
        <4>4. fed + (ChunksWaiting + 1) = total - left
          BY <4>1, <4>2, <4>3
        <4>5. Ones(sendPc' = "send") = 0
          BY <2>1 DEF Ones
        <4>6. fed' = fed /\ total' = total /\ left' = left
          BY <2>0 DEF remote
        <4>7. fed' + ChunksWaiting' = total' - left' - Ones(sendPc' = "send")
          BY <4>1, <4>2, <4>4, <4>5, <4>6
        <4>8. fed' + ChunksWaiting' \in Int
          BY <4>1, <4>2, <4>6
        <4> QED BY <4>7, <4>8 DEF Flow
      <3>7. SenderIsAt'
        BY <2>0, <2>1 DEF IInv, TypeOK, SenderIsAt
      <3>8. EndFlow'
        BY <2>0, <2>1, <3>2 DEF IInv, EndFlow, remote
      <3>9. CallerIsAt'
        BY <2>0, <2>1 DEF IInv, CallerIsAt, receiver, remote
      <3> QED BY <3>4, <3>5, <3>6, <3>7, <3>8, <3>9 DEF IInv
    <2>2. CASE StreamOver /\ UNCHANGED up
      <3>1. \/ sendPc' = "done" /\ sentErr' = "stream"
            \/ sendPc' = nextPc /\ sentErr' = sentErr
        BY <1>4, <2>2 DEF SendChunk, SendOn
      <3>2. /\ StreamOver' /\ (EndWaits' <=> EndWaits)
            /\ ChunksWaiting' = ChunksWaiting
        BY <2>0, <2>2 DEF StreamOver, StartWaits, EndWaits, ChunksWaiting, remote
      <3>3. TypeOK'
        BY <2>0, <2>2, <3>1 DEF IInv, TypeOK, receiver, remote
      <3>4. UpInOrder'
        BY <2>0, <2>2, <3>1, <3>2 DEF IInv, UpInOrder, remote
      <3>5. Flow'
        <4>1. left \in Nat /\ total \in Nat /\ fed \in Nat /\ ChunksWaiting \in Int
          BY WaitingType DEF IInv, TypeOK
        <4>2. fed + ChunksWaiting <= total - left - 1
          BY <2>0 DEF IInv, Flow, Ones
        <4>3. Ones(sendPc' = "send") = 0
          BY <3>1 DEF Ones
        <4>4. fed + ChunksWaiting <= total - left - 0
          BY <4>1, <4>2
        <4>5. fed' = fed /\ total' = total /\ left' = left
          BY <2>0 DEF remote
        <4> QED BY <3>2, <4>3, <4>4, <4>5 DEF Flow
      <3>6. SenderIsAt'
        BY <2>0, <3>1 DEF IInv, TypeOK, SenderIsAt
      <3>7. EndFlow'
        BY <2>0, <2>2, <3>1, <3>2 DEF IInv, EndFlow, remote
      <3>8. CallerIsAt'
        BY <2>0, <3>1 DEF IInv, CallerIsAt, receiver, remote
      <3> QED BY <3>3, <3>4, <3>5, <3>6, <3>7, <3>8 DEF IInv
    <2> QED BY <1>4, <2>1, <2>2 DEF SendChunk, SendOn
  <1>5. CASE CloseSend
    <2>0. /\ sendPc = "close" /\ sendPc' = "done"
          /\ UNCHANGED <<total, left, reader, sentErr, receiver, ctx, down, remote>>
          /\ reader = "ended" /\ left = 0 /\ sentErr = "none"
      BY <1>5 DEF CloseSend, IInv, SenderIsAt
    <2>1. left \in Nat /\ total \in Nat /\ fed \in Nat /\ ChunksWaiting \in Int /\ Len(up) \in Nat
      BY WaitingType DEF IInv, TypeOK
    <2>2. CASE ~StreamOver
      <3>1. up' = Append(up, "end")
        BY <1>5, <2>2 DEF CloseSend
      <3>2. PICK m \in Messages : m = "end"
        BY DEF Messages
      <3>3. /\ up' \in Seq(Messages) /\ Len(up') = Len(up) + 1
            /\ \A k \in 1 .. Len(up') : /\ up'[k] = "start" <=> k = 1 /\ cmd' = "none"
                                        /\ up'[k] = "end" => k = Len(up')
            /\ up' # <<>> /\ ~StreamOver'
            /\ ChunksWaiting' = ChunksWaiting + Ones(FALSE)
        BY <2>0, <2>2, <3>1, <3>2, Sends
      <3>4. Len(up) <= Window
        BY <2>0 DEF IInv, UpInOrder
      <3>5. ChunksWaiting' = ChunksWaiting
        BY <2>1, <3>3 DEF Ones
      <3>6. TypeOK'
        BY <2>0, <2>1, <3>3, <3>4 DEF IInv, TypeOK, receiver, remote, Messages
      <3>7. UpInOrder'
        BY <2>0, <3>3 DEF IInv, UpInOrder, remote
      <3>8. Flow'
        BY <2>0, <2>1, <2>2, <3>5 DEF IInv, Flow, Ones, remote
      <3>9. SenderIsAt'
        BY <2>0 DEF IInv, SenderIsAt
      <3>10. EndFlow'
        <4>1. fed + ChunksWaiting = total
          BY <2>0, <2>1, <2>2 DEF IInv, Flow, Ones
        <4>2. fed' + ChunksWaiting' = total' /\ toldEnd' = toldEnd
          BY <2>0, <3>5, <4>1 DEF remote
        <4> QED BY <2>0, <4>2 DEF IInv, EndFlow
      <3>11. CallerIsAt'
        BY <2>0 DEF IInv, CallerIsAt, receiver, remote
      <3> QED BY <3>6, <3>7, <3>8, <3>9, <3>10, <3>11 DEF IInv
    <2>3. CASE StreamOver
      <3>1. up' = up
        BY <1>5, <2>3 DEF CloseSend
      <3>2. /\ StreamOver' /\ (EndWaits' <=> EndWaits)
            /\ ChunksWaiting' = ChunksWaiting
        BY <2>0, <2>3, <3>1 DEF StreamOver, StartWaits, EndWaits, ChunksWaiting, remote
      <3>3. TypeOK'
        BY <2>0, <3>1 DEF IInv, TypeOK, receiver, remote
      <3>4. UpInOrder'
        BY <2>0, <3>1, <3>2 DEF IInv, UpInOrder, remote
      <3>5. Flow'
        BY <2>0, <3>2 DEF IInv, Flow, Ones, remote
      <3>6. SenderIsAt'
        BY <2>0 DEF IInv, SenderIsAt
      <3>7. EndFlow'
        BY <2>0, <3>1, <3>2 DEF IInv, EndFlow, remote
      <3>8. CallerIsAt'
        BY <2>0 DEF IInv, CallerIsAt, receiver, remote
      <3> QED BY <3>3, <3>4, <3>5, <3>6, <3>7, <3>8 DEF IInv
    <2> QED BY <2>2, <2>3
  <1>6. CASE RecvEvent
    <2>1. TypeOK'
      BY <1>6 DEF RecvEvent, IInv, TypeOK, sender, remote, Output
    <2>2. UpInOrder'
      BY <1>6 DEF RecvEvent, IInv, UpInOrder, StreamOver, sender, remote
    <2>3. Flow'
      BY <1>6 DEF RecvEvent, IInv, Flow, StreamOver, StartWaits, EndWaits,
             ChunksWaiting, Ones, sender, remote
    <2>4. SenderIsAt'
      BY <1>6 DEF RecvEvent, IInv, SenderIsAt, sender, remote
    <2>5. EndFlow'
      BY <1>6 DEF RecvEvent, IInv, EndFlow, StartWaits, EndWaits,
             ChunksWaiting, sender, remote
    <2>6. CallerIsAt'
      BY <1>6 DEF RecvEvent, IInv, CallerIsAt, sender, remote, Output
    <2> QED BY <2>1, <2>2, <2>3, <2>4, <2>5, <2>6 DEF IInv
  <1>7. CASE RecvEnd
    <2>1. TypeOK'
      BY <1>7 DEF RecvEnd, StopReceiving, IInv, TypeOK, sender, remote
    <2>2. UpInOrder'
      BY <1>7 DEF RecvEnd, StopReceiving, IInv, UpInOrder, StreamOver,
             sender, remote
    <2>3. Flow'
      BY <1>7 DEF RecvEnd, StopReceiving, IInv, Flow, StreamOver,
             StartWaits, EndWaits, ChunksWaiting, Ones, sender, remote
    <2>4. SenderIsAt'
      BY <1>7 DEF RecvEnd, StopReceiving, IInv, SenderIsAt, sender, remote
    <2>5. EndFlow'
      BY <1>7 DEF RecvEnd, StopReceiving, IInv, EndFlow, StartWaits,
             EndWaits, ChunksWaiting, sender, remote
    <2>6. CallerIsAt'
      BY <1>7 DEF RecvEnd, StopReceiving, IInv, CallerIsAt, sender, remote
    <2> QED BY <2>1, <2>2, <2>3, <2>4, <2>5, <2>6 DEF IInv
  <1>8. CASE RecvCancelled
    <2>1. TypeOK'
      BY <1>8 DEF RecvCancelled, StopReceiving, IInv, TypeOK, sender, remote
    <2>2. UpInOrder'
      BY <1>8 DEF RecvCancelled, StopReceiving, IInv, UpInOrder,
             StreamOver, sender, remote
    <2>3. Flow'
      BY <1>8 DEF RecvCancelled, StopReceiving, IInv, Flow, StreamOver,
             StartWaits, EndWaits, ChunksWaiting, Ones, sender, remote
    <2>4. SenderIsAt'
      BY <1>8 DEF RecvCancelled, StopReceiving, IInv, SenderIsAt, sender,
             remote
    <2>5. EndFlow'
      BY <1>8 DEF RecvCancelled, StopReceiving, IInv, EndFlow, StartWaits,
             EndWaits, ChunksWaiting, sender, remote
    <2>6. CallerIsAt'
      BY <1>8 DEF RecvCancelled, StopReceiving, IInv, CallerIsAt, sender,
             remote
    <2> QED BY <2>1, <2>2, <2>3, <2>4, <2>5, <2>6 DEF IInv
  <1>9. CASE ReturnResult
    <2>1. TypeOK'
      BY <1>9 DEF ReturnResult, IInv, TypeOK, sender, remote
    <2>2. UpInOrder'
      BY <1>9 DEF ReturnResult, IInv, UpInOrder, StreamOver, sender, remote
    <2>3. Flow'
      BY <1>9 DEF ReturnResult, IInv, Flow, StreamOver, StartWaits,
             EndWaits, ChunksWaiting, Ones, sender, remote
    <2>4. SenderIsAt'
      BY <1>9 DEF ReturnResult, IInv, SenderIsAt, sender, remote
    <2>5. EndFlow'
      BY <1>9 DEF ReturnResult, IInv, EndFlow, StartWaits, EndWaits,
             ChunksWaiting, sender, remote
    <2>6. CallerIsAt'
      BY <1>9 DEF ReturnResult, IInv, CallerIsAt, sender, remote
    <2> QED BY <2>1, <2>2, <2>3, <2>4, <2>5, <2>6 DEF IInv
  <1>10. CASE ParentEnds
    <2>1. TypeOK'
      BY <1>10 DEF ParentEnds, IInv, TypeOK, sender, receiver, remote
    <2>2. UpInOrder'
      BY <1>10 DEF ParentEnds, IInv, UpInOrder, StreamOver, sender,
             receiver, remote
    <2>3. Flow'
      BY <1>10 DEF ParentEnds, IInv, Flow, StreamOver, StartWaits,
             EndWaits, ChunksWaiting, Ones, sender, receiver, remote
    <2>4. SenderIsAt'
      BY <1>10 DEF ParentEnds, IInv, SenderIsAt, sender, receiver, remote
    <2>5. EndFlow'
      BY <1>10 DEF ParentEnds, IInv, EndFlow, StartWaits, EndWaits,
             ChunksWaiting, sender, receiver, remote
    <2>6. CallerIsAt'
      BY <1>10 DEF ParentEnds, IInv, CallerIsAt, sender, receiver, remote
    <2> QED BY <2>1, <2>2, <2>3, <2>4, <2>5, <2>6 DEF IInv
  <1>11. CASE GatewayTakes
    <2>0. /\ gateway = "open" /\ up # <<>>
          /\ UNCHANGED <<total, sender, receiver, ctx, down, gateway>>
      BY <1>11 DEF GatewayTakes
    <2>1. /\ up' \in Seq(Messages) /\ Len(up') = Len(up) - 1
          /\ \A k \in 1 .. Len(up') : /\ up'[k] = "start" <=> k = 1 /\ cmd' = "none"
                                      /\ up'[k] = "end" => k = Len(up')
          /\ cmd' # "none"
          /\ fed' + ChunksWaiting' = fed + ChunksWaiting
          /\ fed' \in 0 .. total
          /\ EndWaits' => EndWaits
          /\ Head(up) = "end" => EndWaits /\ up' = <<>> /\ ChunksWaiting' = 0
      BY <1>11, Takes
    <2>2. /\ Len(up) \in Nat /\ fed \in Nat /\ left \in Nat /\ total \in Nat
          /\ Head(up) \in Messages
      BY <2>0, WaitingType, TailFacts DEF IInv, TypeOK
    <2>3. /\ cmd' \in {"running", cmd}
          /\ Head(up) = "end" => toldEnd' = TRUE /\ fed' = fed
          /\ Head(up) # "end" => toldEnd' = toldEnd
      BY <1>11, <2>2 DEF GatewayTakes, Messages
    <2>4. StreamOver' <=> StreamOver
      BY <2>0 DEF StreamOver
    <2>5. TypeOK'
      <3>1. Len(up') <= Window + 1 /\ up' \in Seq({"start", "chunk", "end"})
        BY <2>1, <2>2 DEF IInv, TypeOK, Messages
      <3>2. toldEnd' \in BOOLEAN /\ cmd' \in {"none", "running", "exited"} /\ fed' \in 0 .. total'
        BY <2>0, <2>1, <2>3 DEF IInv, TypeOK
      <3> QED BY <2>0, <3>1, <3>2 DEF IInv, TypeOK, sender, receiver
    <2>6. UpInOrder'
      BY <2>0, <2>1, <2>3 DEF IInv, UpInOrder, sender
    <2>7. Flow'
      BY <2>0, <2>1, <2>4 DEF IInv, Flow, sender
    <2>8. SenderIsAt'
      BY <2>0 DEF IInv, SenderIsAt, sender
    <2>9. EndFlow'
      <3>1. EndWaits => sendPc' = "done" /\ reader' = "ended" /\ fed' + ChunksWaiting' = total'
        BY <2>0, <2>1 DEF IInv, EndFlow, sender
      <3>2. CASE Head(up) = "end"
        <4>1. EndWaits /\ up' = <<>> /\ ChunksWaiting' = 0
          BY <2>1, <3>2
        <4>2. fed' + 0 = total'
          BY <3>1, <4>1
        <4>3. fed' = total' /\ ~EndWaits'
          BY <2>2, <2>3, <3>2, <4>1, <4>2 DEF EndWaits
        <4> QED BY <3>1, <4>1, <4>3 DEF EndFlow
      <3>3. CASE Head(up) # "end"
        <4>1. toldEnd' = toldEnd /\ ~toldEnd
          BY <2>0, <2>3, <3>3 DEF IInv, EndFlow
        <4> QED BY <2>1, <3>1, <4>1 DEF EndFlow
      <3> QED BY <3>2, <3>3
    <2>10. CallerIsAt'
      BY <2>0, <2>2, <2>3 DEF IInv, CallerIsAt, sender, receiver
    <2> QED BY <2>5, <2>6, <2>7, <2>8, <2>9, <2>10 DEF IInv
  <1>12. CASE CommandPrints
    <2>1. TypeOK'
      BY <1>12 DEF CommandPrints, IInv, TypeOK, sender, receiver, remote,
             Output
    <2>2. UpInOrder'
      BY <1>12 DEF CommandPrints, IInv, UpInOrder, StreamOver, sender,
             receiver, remote
    <2>3. Flow'
      BY <1>12 DEF CommandPrints, IInv, Flow, StreamOver, StartWaits,
             EndWaits, ChunksWaiting, Ones, sender, receiver, remote
    <2>4. SenderIsAt'
      BY <1>12 DEF CommandPrints, IInv, SenderIsAt, sender, receiver, remote
    <2>5. EndFlow'
      BY <1>12 DEF CommandPrints, IInv, EndFlow, StartWaits, EndWaits,
             ChunksWaiting, sender, receiver, remote
    <2>6. CallerIsAt'
      BY <1>12 DEF CommandPrints, IInv, CallerIsAt, sender, receiver,
             remote, Output
    <2> QED BY <2>1, <2>2, <2>3, <2>4, <2>5, <2>6 DEF IInv
  <1>13. CASE CommandExits
    <2>1. TypeOK'
      BY <1>13 DEF CommandExits, IInv, TypeOK, sender, receiver
    <2>2. UpInOrder'
      BY <1>13 DEF CommandExits, IInv, UpInOrder, StreamOver, sender,
             receiver
    <2>3. Flow'
      BY <1>13 DEF CommandExits, IInv, Flow, StreamOver, StartWaits,
             EndWaits, ChunksWaiting, Ones, sender, receiver
    <2>4. SenderIsAt'
      BY <1>13 DEF CommandExits, IInv, SenderIsAt, sender, receiver
    <2>5. EndFlow'
      BY <1>13 DEF CommandExits, IInv, EndFlow, StartWaits, EndWaits,
             ChunksWaiting, sender, receiver
    <2>6. CallerIsAt'
      BY <1>13 DEF CommandExits, IInv, CallerIsAt, sender, receiver
    <2> QED BY <2>1, <2>2, <2>3, <2>4, <2>5, <2>6 DEF IInv
  <1>14. CASE GatewayFails
    <2>1. TypeOK'
      BY <1>14 DEF GatewayFails, IInv, TypeOK, sender, receiver
    <2>2. UpInOrder'
      BY <1>14 DEF GatewayFails, IInv, UpInOrder, StreamOver, sender,
             receiver
    <2>3. Flow'
      BY <1>14 DEF GatewayFails, IInv, Flow, StreamOver, StartWaits,
             EndWaits, ChunksWaiting, Ones, sender, receiver
    <2>4. SenderIsAt'
      BY <1>14 DEF GatewayFails, IInv, SenderIsAt, sender, receiver
    <2>5. EndFlow'
      BY <1>14 DEF GatewayFails, IInv, EndFlow, StartWaits, EndWaits,
             ChunksWaiting, sender, receiver
    <2>6. CallerIsAt'
      BY <1>14 DEF GatewayFails, IInv, CallerIsAt, sender, receiver
    <2> QED BY <2>1, <2>2, <2>3, <2>4, <2>5, <2>6 DEF IInv
  <1>15. CASE StatusLost
    <2>1. TypeOK'
      BY <1>15 DEF StatusLost, IInv, TypeOK, sender, receiver
    <2>2. UpInOrder'
      BY <1>15 DEF StatusLost, IInv, UpInOrder, StreamOver, sender, receiver
    <2>3. Flow'
      BY <1>15 DEF StatusLost, IInv, Flow, StreamOver, StartWaits,
             EndWaits, ChunksWaiting, Ones, sender, receiver
    <2>4. SenderIsAt'
      BY <1>15 DEF StatusLost, IInv, SenderIsAt, sender, receiver
    <2>5. EndFlow'
      BY <1>15 DEF StatusLost, IInv, EndFlow, StartWaits, EndWaits,
             ChunksWaiting, sender, receiver
    <2>6. CallerIsAt'
      BY <1>15 DEF StatusLost, IInv, CallerIsAt, sender, receiver
    <2> QED BY <2>1, <2>2, <2>3, <2>4, <2>5, <2>6 DEF IInv
  <1>16. CASE UNCHANGED vars
    BY <1>16 DEF vars, sender, receiver, remote, IInv, TypeOK, UpInOrder, Flow,
          SenderIsAt, EndFlow, CallerIsAt, StreamOver, StartWaits, EndWaits,
          ChunksWaiting
  <1> QED BY <1>1, <1>2, <1>3, <1>4, <1>5, <1>6, <1>7, <1>8, <1>9, <1>10, <1>11, <1>12, <1>13, <1>14,
             <1>15, <1>16 DEF Next, Sender, Receiver, External

LEMMA Inductive == Spec => []IInv
  BY InitIInv, StepIInv, PTL DEF Spec

-----------------------------------------------------------------------------

\* Every variable keeps its type: in particular a window of messages, and the
\* end after them, is the most that is ever under way.
THEOREM TypeCorrect == Spec => []TypeOK
  <1>1. IInv => TypeOK
    BY DEF IInv
  <1> QED BY Inductive, <1>1, PTL

\* The command is told the end of its input only when it had the whole of the
\* payload and the reader ended: not of a payload that was cut short.
THEOREM EndOfInput == Spec => []EndIsTheEnd
  <1>1. IInv => EndIsTheEnd
    BY DEF IInv, EndFlow, EndIsTheEnd
  <1> QED BY Inductive, <1>1, PTL

\* The goroutine that reads the body is gone when the call returns.
THEOREM ReaderIsLetGo == Spec => []ReaderLetGo
  <1>1. IInv => ReaderLetGo
    BY DEF IInv, CallerIsAt, ReaderLetGo
  <1> QED BY Inductive, <1>1, PTL

-----------------------------------------------------------------------------

\* What of the command's input the contract sees.
stdinSeen == IF ~toldEnd THEN "part"
             ELSE IF fed = total /\ reader = "ended" THEN "all" ELSE "short"

\* Until the call has returned, the contract may see the reader move on.
LEMMA FillIsFeed ==
    ASSUME IInv, sendPc = "fill", reader' \in {"reading", "ended", "failed"},
           call' = call, stdinSeen' = stdinSeen
    PROVE  Contract!Next
  <1>1. call = Running /\ reader = "reading"
    BY DEF IInv, SenderIsAt, CallerIsAt
  <1>2. Contract!Feed
    BY <1>1 DEF Contract!Feed, stdinSeen
  <1> QED BY <1>1, <1>2 DEF Contract!Next, Contract!Running, Running

\* A step of the call and its goroutine is a step of the contract or none.
LEMMA StepContract ==
    IInv /\ IInv' /\ [Next]_vars => [Contract!Next]_(Contract!vars)
  <1> SUFFICES ASSUME IInv, IInv', [Next]_vars
               PROVE  Contract!Next \/ UNCHANGED <<call, reader, stdinSeen>>
    BY DEF Contract!vars, stdinSeen
  <1>1. /\ stdinSeen = IF toldEnd THEN "all" ELSE "part"
        /\ stdinSeen' = IF toldEnd' THEN "all" ELSE "part"
    BY DEF IInv, EndFlow, stdinSeen
  <1>2. CASE FillChunk
    BY <1>1, <1>2, FillIsFeed DEF FillChunk, receiver, remote
  <1>3. CASE FillFails
    BY <1>1, <1>3, FillIsFeed DEF FillFails, receiver, remote
  <1>4. CASE ReturnResult
    <2> DEFINE r == [err |-> IF sentErr = "reader" THEN "reader" ELSE recvErr,
                     exit |-> exitCode]
    <2>1. /\ call = Running /\ call' = r
          /\ UNCHANGED <<reader, stdinSeen>>
      BY <1>1, <1>4 DEF ReturnResult, sender, remote, IInv, CallerIsAt
    <2>2. r \in Contract!Results
      BY DEF IInv, TypeOK, Contract!Results
    <2>3. r.err = "reader" <=> reader = "failed"
      BY DEF IInv, TypeOK, SenderIsAt
    <2>4. r.err = "none" /\ r.exit = 0 => stdinSeen = "all"
      BY <1>1 DEF IInv, CallerIsAt
    <2>5. Contract!Return
      BY <2>1, <2>2, <2>3, <2>4
         DEF Contract!Return, Contract!Promised, Contract!Running, Running, stdinSeen
    <2> QED BY <2>5 DEF Contract!Next
  <1>5. CASE GatewayTakes
    <2>0. Head(up) \in Messages
      BY <1>5, WaitingType, TailFacts DEF GatewayTakes
    <2>1. /\ UNCHANGED <<call, reader>>
          /\ toldEnd' \in {toldEnd, TRUE}
      BY <1>5, <2>0 DEF GatewayTakes, sender, receiver, IInv, TypeOK, Messages
    <2>2. CASE toldEnd' = toldEnd
      BY <1>1, <2>1, <2>2
    <2>3. CASE ~toldEnd /\ toldEnd'
      <3>1. reader = "ended"
        BY <2>1, <2>3 DEF IInv, EndFlow
      <3>2. stdinSeen = "part" /\ stdinSeen' = "all"
        BY <1>1, <2>3
      <3> QED BY <2>1, <3>1, <3>2 DEF Contract!Next, Contract!EndInput, stdinSeen
    <2> QED BY <2>1, <2>2, <2>3 DEF IInv, TypeOK
  <1>6. CASE \/ SendStart \/ SendChunk \/ CloseSend
             \/ RecvEvent \/ RecvEnd \/ RecvCancelled \/ ParentEnds
             \/ CommandPrints \/ CommandExits \/ GatewayFails \/ StatusLost
             \/ UNCHANGED vars
    <2>1. UNCHANGED <<call, reader, toldEnd>>
      BY <1>6 DEF SendStart, SendChunk, CloseSend, RecvEvent, RecvEnd, RecvCancelled,
                  StopReceiving, ParentEnds, CommandPrints, CommandExits, GatewayFails,
                  StatusLost, vars, sender, receiver, remote
    <2> QED BY <1>1, <2>1
  <1> QED BY <1>2, <1>3, <1>4, <1>5, <1>6 DEF Next, Sender, Receiver, External

\* The call with its goroutine, its stream and every way they fail keeps the
\* promise that ExecContract states, whatever the payload and the window.
THEOREM Implements == Spec => Promise
  <1>1. Init => Contract!Init
    BY DEF Init, Contract!Init, Contract!Running, Running
  <1> QED BY Inductive, <1>1, StepContract, PTL DEF Spec, Promise, Contract!Spec

-----------------------------------------------------------------------------
(* Download: a response that looks complete is whole. What the client was sent *)
(* is known to be all of the output only because no chunk is lost on the way:  *)
(* each one the command wrote is with the client, in the handler's hand, or    *)
(* under way.                                                                  *)

Outputs == {"out", "err"}

\* A command that fails says so once, after all it wrote.
ErrIsLast ==
    \A k \in 1 .. Len(pipe) : pipe[k] = "err" <=> program = "exited1" /\ k = Len(pipe)

\* The chunks of the file under way and in the handler's hand: with those that
\* were sent they are all there were, until the handler ends, which may lose one.
OutsWaiting == Len(pipe) - (IF program = "exited1" /\ pipe # <<>> THEN 1 ELSE 0)
InHand == IF pc = "write" THEN 1 ELSE 0
NothingLost == pc # "done" => made = sent + InHand + OutsWaiting

\* A command that succeeded wrote all there is; one that has not begun wrote
\* nothing; the end of the stream is final, and what the handler saw of it is so.
CommandIsAt ==
    /\ program = "exited0" => made = size
    /\ program = "none" => made = 0 /\ pipe = <<>>
    /\ pc \in {"probe", "open"} => program = "none"
    /\ pc = "exit" => pipe = <<>> /\ stream # "open"
    /\ hasExit => program \in {"exited0", "exited1"} /\ stream # "open"

\* Nothing was sent before the status line, and there is an answer once the
\* handler has ended, and only then.
ReplyIsAt ==
    /\ ~started => sent = 0 /\ pc # "write"
    /\ pc \in {"probe", "open"} => ~started
    /\ pc = "done" <=> reply # "none"

DownInv ==
    /\ DownloadTypeOK
    /\ ErrIsLast
    /\ NothingLost
    /\ CommandIsAt
    /\ ReplyIsAt
    /\ CompleteIsWhole

LEMMA InitDownInv == DownloadInit => DownInv
  <1> SUFFICES ASSUME DownloadInit PROVE DownInv
    OBVIOUS
  <1>1. pipe \in Seq(Outputs) /\ Len(pipe) = 0
    BY DEF DownloadInit, Outputs
  <1>2. DownloadTypeOK
    <2>1. pipe \in Seq({"out", "err"}) /\ Len(pipe) <= OutputWindow
      BY <1>1, OutputWindowAssumption DEF Outputs
    <2>2. size \in 0 .. MaxOutput /\ made \in 0 .. size /\ sent \in 0 .. made
      BY OutputAssumption DEF DownloadInit
    <2>3. stalled \in BOOLEAN /\ hasExit \in BOOLEAN /\ started \in BOOLEAN
      BY DEF DownloadInit
    <2> QED BY <2>1, <2>2, <2>3 DEF DownloadInit, DownloadTypeOK
  <1>3. ErrIsLast /\ NothingLost
    BY <1>1 DEF DownloadInit, ErrIsLast, NothingLost, OutsWaiting, InHand
  <1>4. CommandIsAt /\ ReplyIsAt /\ CompleteIsWhole
    BY DEF DownloadInit, CommandIsAt, ReplyIsAt, CompleteIsWhole
  <1> QED BY <1>2, <1>3, <1>4 DEF DownInv

\* What is under way, one message more.
LEMMA OutputAppended ==
    ASSUME DownInv, NEW m \in Outputs, pipe' = Append(pipe, m)
    PROVE  /\ pipe' \in Seq(Outputs) /\ Len(pipe') = Len(pipe) + 1
           /\ pipe'[Len(pipe')] = m
           /\ \A k \in 1 .. Len(pipe) : pipe'[k] = pipe[k]
  BY DEF DownInv, DownloadTypeOK, Outputs

\* One message less.
LEMMA OutputTaken ==
    ASSUME DownInv, pipe # <<>>, pipe' = Tail(pipe)
    PROVE  /\ pipe' \in Seq(Outputs) /\ Len(pipe') = Len(pipe) - 1
           /\ Head(pipe) = pipe[1]
           /\ pipe' = <<>> <=> Len(pipe) = 1
           /\ \A k \in 1 .. Len(pipe') : pipe'[k] = pipe[k + 1]
  <1>1. pipe \in Seq(Outputs) /\ Len(pipe) \in Nat \ {0}
    BY EmptySeq DEF DownInv, DownloadTypeOK, Outputs
  <1>2. /\ pipe' \in Seq(Outputs) /\ Len(pipe') = Len(pipe) - 1
        /\ Head(pipe) = pipe[1]
        /\ \A k \in 1 .. Len(pipe') : pipe'[k] = pipe[k + 1]
    BY <1>1, HeadTailProperties
  <1>3. pipe' = <<>> <=> Len(pipe') = 0
    BY <1>2, EmptySeq
  <1> QED BY <1>1, <1>2, <1>3

LEMMA StepDownInv == DownInv /\ [DownloadNext]_downloadVars => DownInv'
  <1> SUFFICES ASSUME DownInv, [DownloadNext]_downloadVars PROVE DownInv'
    OBVIOUS
  <1> USE DEF DownInv
  <1>0. /\ pipe \in Seq(Outputs) /\ Len(pipe) \in Nat /\ (pipe = <<>> <=> Len(pipe) = 0)
        /\ OutputWindow \in Nat /\ MaxOutput \in Nat
    BY EmptySeq, OutputWindowAssumption, OutputAssumption DEF DownloadTypeOK, Outputs
  <1>1. CASE ProbePath
    <2>1. DownloadTypeOK'
      BY <1>1 DEF ProbePath, End, DownloadTypeOK, Kinds, path, command
    <2>2. ErrIsLast' /\ NothingLost'
      BY <1>1 DEF ProbePath, End, ErrIsLast, NothingLost, OutsWaiting, InHand, command
    <2>3. CommandIsAt' /\ ReplyIsAt' /\ CompleteIsWhole'
      BY <1>1 DEF ProbePath, End, CommandIsAt, ReplyIsAt, CompleteIsWhole, path, command
    <2> QED BY <2>1, <2>2, <2>3
  <1>2. CASE OpenStream
    <2>1. DownloadTypeOK'
      BY <1>2 DEF OpenStream, End, DownloadTypeOK, path
    <2>2. ErrIsLast' /\ NothingLost'
      BY <1>2
      DEF OpenStream, End, ErrIsLast, NothingLost, OutsWaiting, InHand, CommandIsAt
    <2>3. CommandIsAt' /\ ReplyIsAt' /\ CompleteIsWhole'
      BY <1>2 DEF OpenStream, End, CommandIsAt, ReplyIsAt, CompleteIsWhole, path
    <2> QED BY <2>1, <2>2, <2>3
  <1>3. CASE NextStderr \/ NextStdout
    <2>1. pipe # <<>> /\ pipe' = Tail(pipe)
      BY <1>3 DEF NextStderr, NextStdout
    <2>2. /\ pc = "next" /\ actual' = actual /\ size' = size
          /\ UNCHANGED <<kind, execCtx, stalled, program, made, stream, hasExit, sent, client, reply>>
          /\ \/ Head(pipe) = "err" /\ pc' = "next" /\ started' = started
             \/ Head(pipe) = "out" /\ pc' = "write" /\ started' = TRUE
      BY <1>3 DEF NextStderr, NextStdout, response, path
    <2>3. /\ pipe' \in Seq(Outputs) /\ Len(pipe') = Len(pipe) - 1
          /\ Head(pipe) = pipe[1]
          /\ pipe' = <<>> <=> Len(pipe) = 1
      BY <2>1, OutputTaken
    <2>4. \A k \in 1 .. Len(pipe') : pipe'[k] = pipe[k + 1]
      BY <2>1, OutputTaken
    <2>5. Len(pipe) \in Nat \ {0}
      BY <1>0, <2>1
    <2>6. DownloadTypeOK'
      <3>1. pipe' \in Seq({"out", "err"}) /\ Len(pipe') <= OutputWindow
        BY <1>0, <2>3 DEF DownloadTypeOK, Outputs
      <3>2. started' \in BOOLEAN /\ hasExit' \in BOOLEAN /\ stalled' \in BOOLEAN
        BY <2>2 DEF DownloadTypeOK
      <3>3. pc' \in {"next", "write"}
        BY <2>2
      <3> QED BY <2>2, <3>1, <3>2, <3>3 DEF DownloadTypeOK
    <2>7. ErrIsLast'
      <3>1. ASSUME NEW k \in 1 .. Len(pipe')
            PROVE  pipe'[k] = "err" <=> program' = "exited1" /\ k = Len(pipe')
        <4>1. k + 1 \in 1 .. Len(pipe) /\ (k + 1 = Len(pipe) <=> k = Len(pipe'))
          BY <2>3, <2>5
        <4> QED BY <2>2, <2>4, <4>1 DEF ErrIsLast
      <3> QED BY <3>1 DEF ErrIsLast
    <2>8. NothingLost'
      <3>1. pipe[1] = "err" <=> program = "exited1" /\ Len(pipe) = 1
        BY <2>5, 1 \in 1 .. Len(pipe) DEF ErrIsLast
      <3>2. made = sent + OutsWaiting
        BY <2>2 DEF NothingLost, InHand, DownloadTypeOK, OutsWaiting
      <3>3. made' = made /\ sent' = sent /\ program' = program /\ sent \in Int /\ made \in Int
        BY <2>2 DEF DownloadTypeOK
      <3>4. made = sent + Len(pipe) - (IF program = "exited1" THEN 1 ELSE 0)
        BY <2>1, <2>2, <3>2 DEF OutsWaiting
      <3>5. CASE Head(pipe) = "err"
        <4>1. pc' = "next" /\ pipe' = <<>> /\ Len(pipe') = 0 /\ made = sent
          BY <2>2, <2>3, <2>5, <3>1, <3>3, <3>4, <3>5
        <4> QED BY <3>3, <4>1 DEF NothingLost, OutsWaiting, InHand
      <3>6. CASE Head(pipe) = "out"
        <4>1. pc' = "write" /\ (program = "exited1" => pipe' # <<>>)
          BY <2>2, <2>3, <3>1, <3>6
        <4>2. made = sent + 1 + Len(pipe') - (IF program = "exited1" THEN 1 ELSE 0)
          BY <2>3, <2>5, <3>3, <3>4
        <4>3. Len(pipe') \in Nat
          BY <2>3, <2>5
        <4> QED BY <3>3, <4>1, <4>2, <4>3 DEF NothingLost, OutsWaiting, InHand
      <3> QED BY <2>2, <3>5, <3>6
    <2>9. CommandIsAt' /\ ReplyIsAt' /\ CompleteIsWhole'
      BY <2>1, <2>2 DEF CommandIsAt, ReplyIsAt, CompleteIsWhole
    <2> QED BY <2>6, <2>7, <2>8, <2>9
  <1>4. CASE WriteDone
    <2>1. DownloadTypeOK'
      BY <1>0, <1>4 DEF WriteDone, DownloadTypeOK, NothingLost, InHand, OutsWaiting, path, command
    <2>2. ErrIsLast' /\ NothingLost'
      BY <1>0, <1>4
      DEF WriteDone, DownloadTypeOK, ErrIsLast, NothingLost, OutsWaiting, InHand, command
    <2>3. CommandIsAt' /\ ReplyIsAt' /\ CompleteIsWhole'
      BY <1>4 DEF WriteDone, CommandIsAt, ReplyIsAt, CompleteIsWhole, path, command
    <2> QED BY <2>1, <2>2, <2>3
  <1>5. CASE WriteFails
    <2>1. DownloadTypeOK'
      BY <1>5 DEF WriteFails, End, DownloadTypeOK, path, command
    <2>2. ErrIsLast' /\ NothingLost'
      BY <1>5 DEF WriteFails, End, ErrIsLast, NothingLost, command
    <2>3. CommandIsAt' /\ ReplyIsAt' /\ CompleteIsWhole'
      BY <1>5
      DEF WriteFails, End, CommandIsAt, ReplyIsAt, CompleteIsWhole, path, command
    <2> QED BY <2>1, <2>2, <2>3
  <1>6. CASE NextEOF
    <2>1. DownloadTypeOK'
      BY <1>6 DEF NextEOF, DownloadTypeOK, path, command, response
    <2>2. ErrIsLast' /\ NothingLost'
      BY <1>6
      DEF NextEOF, ErrIsLast, NothingLost, OutsWaiting, InHand, command, response
    <2>3. CommandIsAt' /\ ReplyIsAt' /\ CompleteIsWhole'
      BY <1>6
      DEF NextEOF, CommandIsAt, ReplyIsAt, CompleteIsWhole, path, command, response
    <2> QED BY <2>1, <2>2, <2>3
  <1>7. CASE NextFails
    <2>1. DownloadTypeOK'
      BY <1>7 DEF NextFails, Fail, End, DownloadTypeOK, path, command
    <2>2. ErrIsLast' /\ NothingLost'
      BY <1>7 DEF NextFails, Fail, End, ErrIsLast, NothingLost, command
    <2>3. CommandIsAt' /\ ReplyIsAt' /\ CompleteIsWhole'
      BY <1>7
      DEF NextFails, Fail, End, CommandIsAt, ReplyIsAt, CompleteIsWhole, path, command
    <2> QED BY <2>1, <2>2, <2>3
  <1>8. CASE ExitCode
    <2>1. DownloadTypeOK'
      BY <1>8 DEF ExitCode, Fail, End, DownloadTypeOK, path, command
    <2>2. ErrIsLast' /\ NothingLost'
      BY <1>8 DEF ExitCode, Fail, End, ErrIsLast, NothingLost, command
    <2>3. CommandIsAt' /\ ReplyIsAt'
      BY <1>8 DEF ExitCode, Fail, End, CommandIsAt, ReplyIsAt, path, command
    <2>4. CompleteIsWhole'
      \* All that was written was sent: none is under way any more.
      <3>1. pc = "exit" /\ pipe = <<>> /\ made = sent
        BY <1>0, <1>8
        DEF ExitCode, CommandIsAt, NothingLost, OutsWaiting, InHand, DownloadTypeOK
      <3> QED BY <1>8, <3>1
              DEF ExitCode, Fail, End, CommandIsAt, ReplyIsAt, CompleteIsWhole, path, command
    <2> QED BY <2>1, <2>2, <2>3, <2>4
  <1>9. CASE ProgramWrites
    <2>1. /\ pipe' \in Seq(Outputs) /\ Len(pipe') = Len(pipe) + 1
          /\ pipe'[Len(pipe')] = "out"
          /\ \A k \in 1 .. Len(pipe) : pipe'[k] = pipe[k]
      BY <1>9, OutputAppended DEF ProgramWrites, Outputs
    <2>2. DownloadTypeOK'
      BY <1>0, <1>9, <2>1 DEF ProgramWrites, DownloadTypeOK, Outputs, path, response
    <2>3. ErrIsLast' /\ NothingLost'
      BY <1>0, <1>9, <2>1
      DEF ProgramWrites, DownloadTypeOK, ErrIsLast, NothingLost, OutsWaiting, InHand, response
    <2>4. CommandIsAt' /\ ReplyIsAt' /\ CompleteIsWhole'
      BY <1>9 DEF ProgramWrites, CommandIsAt, ReplyIsAt, CompleteIsWhole, path, response
    <2> QED BY <2>2, <2>3, <2>4
  <1>10. CASE ProgramExits
    <2>1. CASE program' = "exited0"
      <3>1. UNCHANGED pipe
        BY <1>10, <2>1 DEF ProgramExits
      <3>2. DownloadTypeOK'
        BY <1>10, <2>1, <3>1 DEF ProgramExits, DownloadTypeOK, path, response
      <3>3. ErrIsLast' /\ NothingLost'
        BY <1>10, <2>1, <3>1
        DEF ProgramExits, ErrIsLast, NothingLost, OutsWaiting, InHand, response
      <3>4. CommandIsAt' /\ ReplyIsAt' /\ CompleteIsWhole'
        BY <1>10, <2>1, <3>1
        DEF ProgramExits, CommandIsAt, ReplyIsAt, CompleteIsWhole, path, response
      <3> QED BY <3>2, <3>3, <3>4
    <2>2. CASE program' = "exited1"
      <3>1. pipe' = Append(pipe, "err")
        BY <1>10, <2>2 DEF ProgramExits
      <3>2. /\ pipe' \in Seq(Outputs) /\ Len(pipe') = Len(pipe) + 1
            /\ pipe'[Len(pipe')] = "err"
            /\ \A k \in 1 .. Len(pipe) : pipe'[k] = pipe[k]
        BY <3>1, OutputAppended DEF Outputs
      <3>3. DownloadTypeOK'
        BY <1>0, <1>10, <2>2, <3>2 DEF ProgramExits, DownloadTypeOK, Outputs, path, response
      <3>4. ErrIsLast' /\ NothingLost'
        BY <1>0, <1>10, <2>2, <3>2
        DEF ProgramExits, DownloadTypeOK, ErrIsLast, NothingLost, OutsWaiting, InHand, response
      <3>5. CommandIsAt' /\ ReplyIsAt' /\ CompleteIsWhole'
        BY <1>10, <2>2
        DEF ProgramExits, CommandIsAt, ReplyIsAt, CompleteIsWhole, path, response
      <3> QED BY <3>3, <3>4, <3>5
    <2> QED BY <1>10, <2>1, <2>2 DEF ProgramExits
  <1>11. CASE StreamLost
    <2>1. DownloadTypeOK'
      BY <1>11 DEF StreamLost, DownloadTypeOK, path, response
    <2>2. ErrIsLast' /\ NothingLost'
      BY <1>11
      DEF StreamLost, ErrIsLast, NothingLost, OutsWaiting, InHand, response
    <2>3. CommandIsAt' /\ ReplyIsAt' /\ CompleteIsWhole'
      BY <1>11 DEF StreamLost, CommandIsAt, ReplyIsAt, CompleteIsWhole, path, response
    <2> QED BY <2>1, <2>2, <2>3
  <1>12. CASE Watchdog \/ PathChanges \/ ClientLeaves \/ ClientStopsReading \/ UNCHANGED downloadVars
    <2>1. DownloadTypeOK'
      BY <1>12
      DEF Watchdog, PathChanges, ClientLeaves, ClientStopsReading, downloadVars, DownloadTypeOK, path,
          command, response
    <2>2. UNCHANGED <<size, pc, program, made, pipe, stream, hasExit, started, sent, reply>>
      BY <1>12
      DEF Watchdog, PathChanges, ClientLeaves, ClientStopsReading, downloadVars, path, command,
          response
    <2>3. ErrIsLast' /\ NothingLost'
      BY <2>2 DEF ErrIsLast, NothingLost, OutsWaiting, InHand
    <2>4. CommandIsAt' /\ ReplyIsAt' /\ CompleteIsWhole'
      BY <2>2 DEF CommandIsAt, ReplyIsAt, CompleteIsWhole
    <2> QED BY <2>1, <2>3, <2>4
  <1> QED
    BY <1>1, <1>2, <1>3, <1>4, <1>5, <1>6, <1>7, <1>8, <1>9, <1>10, <1>11, <1>12
    DEF DownloadNext, Handler, Sandbox

LEMMA DownInductive == DownloadSpec => []DownInv
  BY InitDownInv, StepDownInv, PTL DEF DownloadSpec

\* Every variable of the download has its type, and no more is sent than the
\* command wrote.
THEOREM DownloadTypeIsInvariant == DownloadSpec => []DownloadTypeOK
  <1>1. DownInv => DownloadTypeOK
    BY DEF DownInv
  <1> QED BY <1>1, DownInductive, PTL

\* Whatever the size of the file, and whoever is slow, cut off or gone: a
\* response that looks complete is whole, and an error status goes out only
\* while no byte of the file has.
THEOREM CompleteResponsesAreWhole == DownloadSpec => []CompleteIsWhole
  <1>1. DownInv => CompleteIsWhole
    BY DEF DownInv
  <1> QED BY <1>1, DownInductive, PTL

=============================================================================
