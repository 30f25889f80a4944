------------------------------ MODULE LogsProofs ------------------------------
(***************************************************************************)
(* Proofs about the two ends of a sandbox's log: LogRelay in the backend,  *)
(* for every length of the log, of the tail asked for and of the wire, and *)
(* LogsTab in the browser, for every length of the log, every number of    *)
(* lines the tab keeps, of subscriptions and of filters.                   *)
(***************************************************************************)
EXTENDS LogRelay, LogsTab, SequenceTheorems, TLAPS

-----------------------------------------------------------------------------
(* LogRelay. A line is in the goroutine's hand, then in the channel, then    *)
(* sent: at every moment what was delivered by the stream is what was sent   *)
(* and what these two hold. The exception is the line dropped when the       *)
(* context ends while the channel is full, after which the handler sends     *)
(* nothing more than the channel still holds, and never an end.              *)

Events == Broken .. MaxLines

\* Lines in the channel, and in the hand of the goroutine.
Held == IF incoming # <<>> /\ incoming[1] > 0 THEN 1 ELSE 0
InHand == IF receiver = "offer" /\ hand > 0 THEN 1 ELSE 0

\* Before the goroutine runs there is nothing of the stream anywhere.
StartIsAt ==
    handler \in {"watch", "first"} =>
        receiver = "none" /\ incoming = <<>> /\ got = <<>> /\ wire = <<>> /\ next = first

\* While the handler relays, what it sent are lines, and what is on its way to
\* it are those that follow.
SentAreLines ==
    handler = "relaying" => \A k \in DOMAIN Sent : Sent[k] = first + k - 1

LinesAreAt ==
    handler = "relaying" /\ source = "open" =>
        /\ incoming # <<>> /\ incoming[1] > 0 => incoming[1] = first + Len(Sent)
        /\ receiver = "offer" /\ hand > 0 => hand = first + Len(Sent) + Held
        /\ receiver # "ended" \/ (incoming # <<>> /\ incoming[1] < 0) =>
              next = first + Len(Sent) + Held + InHand

\* An end, wherever it is, is the stream's, or one that the context brought
\* about; and it is the last thing the goroutine, then the handler, does.
Honest(event) == /\ event = Eof => stream = "eof"
                 /\ event = Broken => stream = "broken" \/ ctx = "done"

EndsAreAt ==
    /\ receiver = "offer" => Honest(hand)
    /\ incoming # <<>> /\ incoming[1] < 0 => receiver = "ended" /\ Honest(incoming[1])
    /\ Sent # <<>> /\ Sent[Len(Sent)] < 0 => receiver = "ended" /\ handler = "ended"

IInv ==
    /\ TypeOK
    /\ StartIsAt
    /\ SentAreLines
    /\ LinesAreAt
    /\ EndsAreAt
    /\ InOrder
    /\ EndIsHonest

-----------------------------------------------------------------------------
\* Sequences: what is written is added to what was sent, what is read stays in
\* it, and what is lost is its end.
LEMMA Written ==
    ASSUME NEW S, NEW g \in Seq(S), NEW w \in Seq(S), NEW e \in S
    PROVE  g \o Append(w, e) = Append(g \o w, e)
  <1>1. <<e>> \in Seq(S) /\ g \o w \in Seq(S)
    BY ConcatProperties
  <1>2. Append(w, e) = w \o <<e>> /\ Append(g \o w, e) = (g \o w) \o <<e>>
    BY <1>1, AppendIsConcat
  <1>3. (g \o w) \o <<e>> = g \o (w \o <<e>>)
    BY <1>1, ConcatAssociative
  <1> QED BY <1>2, <1>3

LEMMA Read ==
    ASSUME NEW S, NEW g \in Seq(S), NEW w \in Seq(S), w # <<>>
    PROVE  Append(g, Head(w)) \o Tail(w) = g \o w
  <1> DEFINE t == Append(g, Head(w)) \o Tail(w)
             u == g \o w
  <1>1. /\ Head(w) \in S /\ Tail(w) \in Seq(S) /\ Len(Tail(w)) = Len(w) - 1 /\ Head(w) = w[1]
        /\ \A k \in 1 .. Len(Tail(w)) : Tail(w)[k] = w[k + 1]
    BY HeadTailProperties
  <1>2. /\ Append(g, Head(w)) \in Seq(S) /\ Len(Append(g, Head(w))) = Len(g) + 1
        /\ \A k \in 1 .. Len(g) : Append(g, Head(w))[k] = g[k]
        /\ Append(g, Head(w))[Len(g) + 1] = w[1]
    BY <1>1, AppendProperties
  <1>3. Len(g) \in Nat /\ Len(w) \in Nat /\ Len(w) # 0
    BY EmptySeq, LenProperties
  <1>4. /\ t \in Seq(S) /\ Len(t) = Len(g) + Len(w)
        /\ \A k \in 1 .. Len(g) + Len(w) :
              t[k] = IF k <= Len(g) + 1 THEN Append(g, Head(w))[k] ELSE Tail(w)[k - (Len(g) + 1)]
    <2>1. /\ t \in Seq(S) /\ Len(t) = (Len(g) + 1) + (Len(w) - 1)
          /\ \A k \in 1 .. (Len(g) + 1) + (Len(w) - 1) :
                t[k] = IF k <= Len(g) + 1 THEN Append(g, Head(w))[k] ELSE Tail(w)[k - (Len(g) + 1)]
      BY <1>1, <1>2, ConcatProperties
    <2>2. (Len(g) + 1) + (Len(w) - 1) = Len(g) + Len(w)
      BY <1>3
    <2> HIDE DEF t
    <2> QED BY <2>1, <2>2
  <1>5. /\ u \in Seq(S) /\ Len(u) = Len(g) + Len(w)
        /\ \A k \in 1 .. Len(g) + Len(w) : u[k] = IF k <= Len(g) THEN g[k] ELSE w[k - Len(g)]
    BY ConcatProperties
  <1> HIDE DEF t, u
  <1>6. ASSUME NEW k \in 1 .. Len(t)
        PROVE  t[k] = u[k]
    <2>0. k \in 1 .. Len(g) + Len(w)
      BY <1>4
    <2>1. CASE k \in 1 .. Len(g)
      BY <1>2, <1>3, <1>4, <1>5, <2>0, <2>1
    <2>2. CASE k = Len(g) + 1
      <3>1. t[k] = w[1]
        BY <1>2, <1>3, <1>4, <2>0, <2>2
      <3>2. u[k] = w[k - Len(g)] /\ k - Len(g) = 1
        BY <1>3, <1>5, <2>0, <2>2
      <3> QED BY <3>1, <3>2
    <2>3. CASE k \in Len(g) + 2 .. Len(g) + Len(w)
      <3>1. t[k] = Tail(w)[k - (Len(g) + 1)] /\ k - (Len(g) + 1) \in 1 .. Len(w) - 1
        BY <1>3, <1>4, <2>0, <2>3
      <3>2. t[k] = w[(k - (Len(g) + 1)) + 1]
        BY <1>1, <3>1
      <3>3. u[k] = w[k - Len(g)] /\ (k - (Len(g) + 1)) + 1 = k - Len(g)
        BY <1>3, <1>5, <2>0, <2>3
      <3> QED BY <3>2, <3>3
    <2> QED BY <1>3, <2>0, <2>1, <2>2, <2>3
  <1> QED BY <1>4, <1>5, <1>6, SeqEqual DEF t, u

LEMMA SentType ==
    ASSUME TypeOK
    PROVE  /\ Sent \in Seq(Events) /\ got \in Seq(Events) /\ wire \in Seq(Events)
           /\ Len(Sent) \in Nat /\ DOMAIN Sent = 1 .. Len(Sent)
           /\ Sent # <<>> => Len(Sent) \in DOMAIN Sent
           /\ \A k \in DOMAIN Sent : Sent[k] \in Int
  <1>1. Sent \in Seq(Events) /\ got \in Seq(Events) /\ wire \in Seq(Events)
    BY ConcatProperties DEF TypeOK, Sent, Events
  <1>2. Len(Sent) \in Nat /\ DOMAIN Sent = 1 .. Len(Sent)
    BY <1>1
  <1>3. Sent # <<>> => Len(Sent) # 0
    BY <1>1, EmptySeq
  <1>4. Events \subseteq Int
    BY BoundsAssumption DEF Events, Broken
  <1>5. \A k \in DOMAIN Sent : Sent[k] \in Int
    BY <1>1, <1>2, <1>4, ElementOfSeq
  <1> QED BY <1>1, <1>2, <1>3, <1>5

\* The channel holds at most one event.
LEMMA ChannelType ==
    ASSUME TypeOK, incoming # <<>>
    PROVE  /\ incoming[1] = Head(incoming) /\ incoming[1] \in Events /\ incoming[1] \in Int
  <1>1. incoming \in Seq(Events)
    BY DEF TypeOK, Events
  <1>2. Head(incoming) \in Events /\ Head(incoming) = incoming[1]
    BY <1>1, HeadTailProperties
  <1> QED BY <1>2, BoundsAssumption DEF Events, Broken

-----------------------------------------------------------------------------
LEMMA InitIInv == Init => IInv
  <1> SUFFICES ASSUME Init PROVE IInv
    OBVIOUS
  <1>1. TypeOK
    BY BoundsAssumption, EmptySeq DEF Init, TypeOK, Status, Broken
  <1>2. Sent = <<>> /\ DOMAIN Sent = {}
    BY ConcatEmptySeq DEF Init, Sent
  <1>3. StartIsAt /\ SentAreLines /\ LinesAreAt
    BY DEF Init, StartIsAt, SentAreLines, LinesAreAt
  <1>4. EndsAreAt
    BY <1>2 DEF Init, EndsAreAt
  <1>5. InOrder /\ EndIsHonest
    BY <1>2 DEF InOrder, EndIsHonest
  <1> QED BY <1>1, <1>3, <1>4, <1>5 DEF IInv

\* A step that moves no event between hand, channel and wire.
LEMMA QuietStep ==
    ASSUME IInv, TypeOK', StartIsAt', Sent' = Sent, first' = first, next' = next,
           incoming' = incoming, hand' = hand, receiver' = receiver, source' = source,
           handler' = handler \/ handler' = "ended",
           ctx' = ctx \/ ctx' = "done",
           stream' = stream \/ stream = "open"
    PROVE  IInv'
  <1>1. (got \o wire)' = Sent
    BY DEF Sent
  <1>2. SentAreLines' /\ LinesAreAt'
    BY <1>1 DEF IInv, SentAreLines, LinesAreAt, Held, InHand, Sent
  <1>3. EndsAreAt'
    BY <1>1 DEF IInv, EndsAreAt, Honest, Sent
  <1>4. InOrder' /\ EndIsHonest'
    BY <1>1 DEF IInv, InOrder, EndIsHonest, Sent
  <1> QED BY <1>2, <1>3, <1>4 DEF IInv

LEMMA WatchIInv == ASSUME IInv, WatchSandboxLogs PROVE IInv'
  <1>1. /\ handler = "watch" /\ log' = log /\ stream' = stream /\ receiver' = receiver
        /\ hand' = hand /\ incoming' = incoming /\ wire' = wire /\ source' = source
        /\ got' = got /\ receiver = "none" /\ incoming = <<>> /\ got = <<>> /\ wire = <<>>
    BY DEF WatchSandboxLogs, IInv, StartIsAt
  <1>2. Sent' = Sent
    BY <1>1 DEF Sent
  <1>3. CASE Return /\ UNCHANGED <<first, next>>
    <2>1. TypeOK'
      BY <1>1, <1>3 DEF Return, IInv, TypeOK
    <2>2. StartIsAt'
      BY <1>3 DEF Return, StartIsAt
    <2> QED BY <1>1, <1>2, <1>3, <2>1, <2>2, QuietStep DEF Return
  <1>4. CASE /\ handler' = "first"
             /\ first' = IF log > Lines THEN log - Lines + 1 ELSE 1
             /\ next' = first'
             /\ UNCHANGED ctx
    <2>1. first' \in 1 .. MaxLines + 1
      <3>1. log \in 0 .. MaxLines
        BY DEF IInv, TypeOK
      <3> QED BY <1>4, <3>1, BoundsAssumption
    <2>2. TypeOK'
      BY <1>1, <1>4, <2>1 DEF IInv, TypeOK
    <2>3. StartIsAt'
      BY <1>1, <1>4 DEF StartIsAt
    <2>4. Sent = <<>> /\ DOMAIN Sent = {}
      BY <1>1, ConcatEmptySeq DEF Sent
    <2>5. (got \o wire)' = <<>> /\ DOMAIN (got \o wire)' = {}
      BY <1>1, <2>4 DEF Sent
    <2>6. SentAreLines' /\ LinesAreAt' /\ EndsAreAt'
      BY <1>1, <1>4, <2>5 DEF SentAreLines, LinesAreAt, EndsAreAt, Sent
    <2>7. InOrder' /\ EndIsHonest'
      BY <2>5 DEF InOrder, EndIsHonest, Sent
    <2> QED BY <2>2, <2>3, <2>6, <2>7 DEF IInv
  <1> QED BY <1>3, <1>4 DEF WatchSandboxLogs

LEMMA FirstEventIInv == ASSUME IInv, FirstEvent PROVE IInv'
  <1>1. /\ handler = "first" /\ log' = log /\ stream' = stream /\ first' = first /\ next' = next
        /\ hand' = hand /\ incoming' = incoming /\ wire' = wire /\ source' = source
        /\ got' = got /\ receiver = "none" /\ incoming = <<>> /\ got = <<>> /\ wire = <<>>
        /\ next = first
    BY DEF FirstEvent, gateway, IInv, StartIsAt
  <1>2. Sent' = Sent
    BY <1>1 DEF Sent
  <1>3. CASE Return /\ UNCHANGED receiver
    <2>1. TypeOK'
      BY <1>1, <1>3 DEF Return, IInv, TypeOK
    <2>2. StartIsAt'
      BY <1>3 DEF Return, StartIsAt
    <2> QED BY <1>1, <1>2, <1>3, <2>1, <2>2, QuietStep DEF Return
  <1>4. CASE handler' = "relaying" /\ receiver' = "recv" /\ UNCHANGED ctx
    <2>1. TypeOK'
      BY <1>1, <1>4 DEF IInv, TypeOK
    <2>2. StartIsAt'
      BY <1>4 DEF StartIsAt
    <2>3. Sent = <<>> /\ DOMAIN Sent = {}
      BY <1>1, ConcatEmptySeq DEF Sent
    <2>4. (got \o wire)' = <<>> /\ DOMAIN (got \o wire)' = {} /\ Len((got \o wire)') = 0
      BY <1>1, <2>3, EmptySeq DEF Sent
    <2>5. first \in Int
      BY BoundsAssumption DEF IInv, TypeOK
    <2>6. LinesAreAt'
      <3>1. Held' = 0 /\ InHand' = 0
        BY <1>1, <1>4 DEF Held, InHand
      <3>2. next' = first' + Len((got \o wire)') + Held' + InHand'
        BY <1>1, <2>4, <2>5, <3>1
      <3> QED BY <1>1, <1>4, <3>2 DEF LinesAreAt, Sent
    <2>7. SentAreLines' /\ EndsAreAt'
      BY <1>1, <1>4, <2>4 DEF SentAreLines, EndsAreAt, Sent
    <2>8. InOrder' /\ EndIsHonest'
      BY <2>4 DEF InOrder, EndIsHonest, Sent
    <2> QED BY <2>1, <2>2, <2>6, <2>7, <2>8 DEF IInv
  <1> QED BY <1>3, <1>4 DEF FirstEvent

LEMMA QuietIInv ==
    ASSUME IInv, RelayDone \/ HeartbeatFails \/ Log \/ StreamEnds \/ RequestEnds PROVE IInv'
  <1>1. /\ first' = first /\ next' = next /\ hand' = hand /\ incoming' = incoming
        /\ wire' = wire /\ source' = source /\ got' = got /\ receiver' = receiver
    BY DEF RelayDone, HeartbeatFails, WriteFails, Log, StreamEnds, RequestEnds, gateway
  <1>2. Sent' = Sent
    BY <1>1 DEF Sent
  <1>3. /\ handler' = handler \/ handler' = "ended"
        /\ ctx' = ctx \/ ctx' = "done"
        /\ stream' = stream \/ (stream = "open" /\ stream' \in {"eof", "broken"})
    BY DEF RelayDone, HeartbeatFails, Return, Log, StreamEnds, RequestEnds, gateway
  <1>4. log' \in 0 .. MaxLines
    <2>1. log' = log \/ (log < MaxLines /\ log' = log + 1)
      BY DEF RelayDone, HeartbeatFails, Log, StreamEnds, RequestEnds, gateway
    <2>2. log \in 0 .. MaxLines
      BY DEF IInv, TypeOK
    <2> QED BY <2>1, <2>2, BoundsAssumption
  <1>5. TypeOK'
    BY <1>1, <1>3, <1>4 DEF IInv, TypeOK
  <1>6. StartIsAt'
    BY <1>1, <1>3 DEF IInv, StartIsAt
  <1> QED BY <1>1, <1>2, <1>3, <1>5, <1>6, QuietStep

LEMMA BrowserReadsIInv == ASSUME IInv, BrowserReads PROVE IInv'
  <1>1. /\ log' = log /\ stream' = stream /\ first' = first /\ next' = next
        /\ hand' = hand /\ incoming' = incoming /\ source' = source
        /\ receiver' = receiver /\ handler' = handler /\ ctx' = ctx
        /\ wire # <<>> /\ got' = Append(got, Head(wire)) /\ wire' = Tail(wire)
    BY DEF BrowserReads, gateway
  <1>2. got \in Seq(Events) /\ wire \in Seq(Events)
    BY SentType DEF IInv
  <1>3. Sent' = Sent
    BY <1>1, <1>2, Read DEF Sent
  <1>4. /\ Head(wire) \in Events /\ Tail(wire) \in Seq(Events) /\ Len(Tail(wire)) = Len(wire) - 1
    BY <1>1, <1>2, HeadTailProperties
  <1>5. got' \in Seq(Events) /\ wire' \in Seq(Events)
    BY <1>1, <1>2, <1>4, AppendProperties
  <1>6. Len(wire') <= MaxWire
    <2>1. Len(wire) <= MaxWire /\ Len(wire) \in Nat /\ Len(wire') = Len(wire) - 1
      BY <1>1, <1>2, <1>4, LenProperties DEF IInv, TypeOK
    <2> QED BY <2>1, BoundsAssumption
  <1>7. TypeOK'
    BY <1>1, <1>5, <1>6 DEF IInv, TypeOK, Events
  <1>8. StartIsAt'
    BY <1>1 DEF IInv, StartIsAt
  <1> QED BY <1>1, <1>3, <1>7, <1>8, QuietStep

\* What is lost with the connection is the end of what was sent; if something
\* is, what is left does not end the stream.
LEMMA BrowserLeavesIInv == ASSUME IInv, BrowserLeaves PROVE IInv'
  <1>1. /\ log' = log /\ stream' = stream /\ first' = first /\ next' = next
        /\ hand' = hand /\ incoming' = incoming /\ source' = "closed"
        /\ receiver' = receiver /\ handler' = handler /\ ctx' = ctx
        /\ got' = got /\ wire' = <<>>
    BY DEF BrowserLeaves, gateway
  <1>2. /\ got \in Seq(Events) /\ wire \in Seq(Events) /\ Sent \in Seq(Events)
        /\ DOMAIN got = 1 .. Len(got) /\ DOMAIN Sent = 1 .. Len(Sent)
    BY SentType, LenProperties DEF IInv
  <1>3. (got \o wire)' = got
    BY <1>1, <1>2, ConcatEmptySeq
  <1>4. /\ Len(got) \in Nat /\ Len(wire) \in Nat /\ Len(Sent) = Len(got) + Len(wire)
        /\ \A k \in DOMAIN got : Sent[k] = got[k]
    <2>1. Len(got) \in Nat /\ Len(wire) \in Nat
      BY <1>2, LenProperties
    <2>2. /\ Len(got \o wire) = Len(got) + Len(wire)
          /\ \A k \in 1 .. Len(got) + Len(wire) :
                (got \o wire)[k] = IF k <= Len(got) THEN got[k] ELSE wire[k - Len(got)]
      BY <1>2, ConcatProperties
    <2> QED BY <1>2, <2>1, <2>2 DEF Sent
  <1>5. DOMAIN got \subseteq DOMAIN Sent
    BY <1>2, <1>4
  <1>6. TypeOK'
    BY <1>1, BoundsAssumption, EmptySeq DEF IInv, TypeOK
  <1>7. StartIsAt' /\ LinesAreAt'
    BY <1>1 DEF IInv, StartIsAt, LinesAreAt
  <1>8. SentAreLines'
    BY <1>1, <1>3, <1>4, <1>5 DEF IInv, SentAreLines, Sent
  <1>9. wire # <<>> => Len(wire) # 0
    BY <1>2, EmptySeq
  <1>10. ASSUME NEW k \in DOMAIN got, wire # <<>>
         PROVE  got[k] = first + k - 1 /\ got[k] > 0
    <2>1. k \in DOMAIN Sent /\ k # Len(Sent) /\ k \in Int /\ k >= 1
      BY <1>2, <1>4, <1>5, <1>9, <1>10
    <2>2. Sent[k] = first + k - 1
      BY <2>1 DEF IInv, InOrder
    <2>3. first \in Int /\ first >= 1
      BY BoundsAssumption DEF IInv, TypeOK
    <2> QED BY <1>4, <2>1, <2>2, <2>3
  <1>11. wire = <<>> => got = Sent
    BY <1>2, ConcatEmptySeq DEF Sent
  <1>12. got # <<>> => Len(got) \in DOMAIN got
    BY <1>2, EmptySeq
  <1>13. CASE wire = <<>>
    <2>1. (got \o wire)' = Sent
      BY <1>3, <1>11, <1>13
    <2>2. EndsAreAt'
      BY <1>1, <2>1 DEF IInv, EndsAreAt, Honest, Sent
    <2>3. InOrder' /\ EndIsHonest'
      BY <1>1, <2>1 DEF IInv, InOrder, EndIsHonest, Sent
    <2> QED BY <1>6, <1>7, <1>8, <2>2, <2>3 DEF IInv
  <1>14. CASE wire # <<>>
    <2>1. got # <<>> => got[Len(got)] > 0 /\ got[Len(got)] \in Int
      <3>1. got # <<>> => got[Len(got)] \in Events
        BY <1>2, <1>12, ElementOfSeq
      <3> QED BY <1>10, <1>12, <1>14, <3>1, BoundsAssumption DEF Events, Broken
    <2>2. EndsAreAt'
      BY <1>1, <1>3, <2>1 DEF IInv, EndsAreAt, Honest, Sent
    <2>3. InOrder'
      BY <1>1, <1>3, <1>10, <1>14 DEF InOrder, Sent
    <2>4. EndIsHonest'
      BY <1>1, <1>3, <2>1 DEF EndIsHonest, Sent, Eof, Broken
    <2> QED BY <1>6, <1>7, <1>8, <2>2, <2>3, <2>4 DEF IInv
  <1> QED BY <1>13, <1>14

\* The goroutine receives: the line the stream delivers next is in its hand.
LEMMA RecvIInv == ASSUME IInv, Recv PROVE IInv'
  <1>1. /\ log' = log /\ stream' = stream /\ first' = first /\ handler' = handler
        /\ incoming' = incoming /\ ctx' = ctx /\ wire' = wire /\ source' = source
        /\ got' = got /\ receiver = "recv" /\ receiver' = "offer"
    BY DEF Recv
  <1>2. (got \o wire)' = Sent
    BY <1>1 DEF Sent
  <1>3. /\ next \in Int /\ next >= 1 /\ next <= MaxLines + 1
        /\ hand \in Broken .. MaxLines /\ log \in Int /\ log <= MaxLines
    BY BoundsAssumption DEF IInv, TypeOK
  <1>4. \/ hand' = next /\ next' = next + 1 /\ next <= log
        \/ hand' = Status /\ next' = next
        \/ StreamOver /\ hand' = HowItEnded /\ next' = next
    BY DEF Recv
  <1>5. TypeOK'
    <2>1. hand' \in Broken .. MaxLines /\ next' \in 1 .. MaxLines + 1
      BY <1>3, <1>4, BoundsAssumption DEF Status, HowItEnded, Eof, Broken
    <2> QED BY <1>1, <2>1 DEF IInv, TypeOK
  <1>6. StartIsAt'
    BY <1>1 DEF IInv, StartIsAt
  <1>7. SentAreLines'
    BY <1>1, <1>2 DEF IInv, SentAreLines, Sent
  <1>8. LinesAreAt'
    <2>1. SUFFICES ASSUME handler = "relaying", source = "open"
                   PROVE  /\ incoming # <<>> /\ incoming[1] > 0 => incoming[1] = first + Len(Sent)
                          /\ hand' > 0 => hand' = first + Len(Sent) + Held
                          /\ next' = first + Len(Sent) + Held + InHand'
      BY <1>1, <1>2 DEF LinesAreAt, Held, InHand, Sent
    <2>2. next = first + Len(Sent) + Held
      <3>1. next = first + Len(Sent) + Held + InHand /\ InHand = 0
        BY <1>1, <2>1 DEF IInv, LinesAreAt, InHand
      <3>2. Len(Sent) \in Nat /\ first \in Int /\ Held \in Int
        BY SentType, BoundsAssumption DEF IInv, TypeOK, Held
      <3> QED BY <3>1, <3>2
    <2>3. incoming # <<>> /\ incoming[1] > 0 => incoming[1] = first + Len(Sent)
      BY <2>1 DEF IInv, LinesAreAt
    <2>4. CASE hand' = next /\ next' = next + 1
      BY <1>1, <1>3, <2>2, <2>3, <2>4 DEF InHand
    <2>5. CASE hand' \in {Status, Eof, Broken} /\ next' = next
      <3>1. ~(hand' > 0) /\ InHand' = 0
        BY <2>5 DEF InHand, Status, Eof, Broken
      <3> QED BY <1>3, <2>2, <2>3, <2>5, <3>1
    <2> QED BY <1>4, <2>4, <2>5 DEF HowItEnded
  <1>9. EndsAreAt'
    <2>1. /\ hand' = Eof => stream = "eof"
          /\ hand' = Broken => stream = "broken" \/ ctx = "done"
      <3>1. stream \in {"open", "eof", "broken"} /\ ctx \in {"live", "done"}
        BY DEF IInv, TypeOK
      <3> QED BY <1>3, <1>4, <3>1 DEF HowItEnded, StreamOver, Status, Eof, Broken
    <2>2. ~(incoming # <<>> /\ incoming[1] < 0) /\ ~(Sent # <<>> /\ Sent[Len(Sent)] < 0)
      BY <1>1 DEF IInv, EndsAreAt
    <2> QED BY <1>1, <1>2, <2>1, <2>2 DEF EndsAreAt, Honest, Sent
  <1>10. InOrder'
    BY <1>1, <1>2 DEF IInv, InOrder, Sent
  <1>11. EndIsHonest'
    <2>1. Sent # <<>> => ~(Sent[Len(Sent)] < 0)
      BY <1>1 DEF IInv, EndsAreAt
    <2> QED BY <1>1, <1>2, <2>1 DEF EndIsHonest, Sent, Eof, Broken
  <1> QED BY <1>5, <1>6, <1>7, <1>8, <1>9, <1>10, <1>11 DEF IInv

\* The event passes from the hand to the channel, or the goroutine ends with
\* the context.
LEMMA OfferIInv == ASSUME IInv, Offer PROVE IInv'
  <1>1. /\ log' = log /\ stream' = stream /\ first' = first /\ next' = next
        /\ handler' = handler /\ hand' = hand /\ ctx' = ctx /\ wire' = wire
        /\ source' = source /\ got' = got /\ receiver = "offer"
    BY DEF Offer, gateway
  <1>2. (got \o wire)' = Sent
    BY <1>1 DEF Sent
  <1>3. /\ hand \in Events /\ hand \in Int /\ next \in Int /\ first \in Int /\ Len(Sent) \in Nat
        /\ ~(Sent # <<>> /\ Sent[Len(Sent)] < 0)
        /\ ~(incoming # <<>> /\ incoming[1] < 0)
    BY <1>1, SentType, BoundsAssumption DEF IInv, TypeOK, EndsAreAt, Events, Broken
  <1>4. receiver' # "offer" /\ receiver' \in {"recv", "ended"}
    BY DEF Offer
  <1>5. StartIsAt'
    BY <1>1 DEF IInv, StartIsAt
  <1>6. SentAreLines'
    BY <1>1, <1>2 DEF IInv, SentAreLines, Sent
  <1>7. InOrder'
    BY <1>1, <1>2 DEF IInv, InOrder, Sent
  <1>8. EndIsHonest'
    BY <1>1, <1>2, <1>3 DEF EndIsHonest, Sent, Eof, Broken
  <1>9. CASE /\ incoming = <<>> /\ incoming' = <<hand>>
             /\ receiver' = IF hand < 0 THEN "ended" ELSE "recv"
    <2>1. incoming' # <<>> /\ incoming'[1] = hand /\ Len(incoming') = 1
      BY <1>9
    <2>2. incoming' \in Seq(Events)
      BY <1>3, <1>9
    <2>3. TypeOK'
      BY <1>1, <1>4, <2>1, <2>2 DEF IInv, TypeOK, Events
    <2>4. LinesAreAt'
      <3>1. SUFFICES ASSUME handler = "relaying", source = "open"
                     PROVE  /\ hand > 0 => hand = first + Len(Sent)
                            /\ next = first + Len(Sent) + Held' + InHand'
        BY <1>1, <1>2, <1>4, <2>1 DEF LinesAreAt, Held, InHand, Sent
      <3>2. Held = 0
        BY <1>9 DEF Held
      <3>3. /\ hand > 0 => hand = first + Len(Sent) + Held
            /\ next = first + Len(Sent) + Held + InHand
        BY <1>1, <3>1 DEF IInv, LinesAreAt
      <3>4. Held' = InHand /\ InHand' = 0 /\ InHand \in {0, 1}
        BY <1>1, <1>4, <2>1 DEF Held, InHand
      <3> QED BY <1>3, <3>2, <3>3, <3>4
    <2>5. EndsAreAt'
      <3>1. Honest(hand)
        BY <1>1 DEF IInv, EndsAreAt
      <3>2. hand < 0 => receiver' = "ended"
        BY <1>9
      <3> QED BY <1>1, <1>2, <1>3, <1>4, <2>1, <3>1, <3>2 DEF EndsAreAt, Honest, Sent
    <2> QED BY <1>5, <1>6, <1>7, <1>8, <2>3, <2>4, <2>5 DEF IInv
  <1>10. CASE ctx = "done" /\ receiver' = "ended" /\ UNCHANGED incoming
    <2>1. TypeOK'
      BY <1>1, <1>10 DEF IInv, TypeOK
    <2>2. LinesAreAt'
      BY <1>1, <1>2, <1>3, <1>10 DEF IInv, LinesAreAt, Sent
    <2>3. EndsAreAt'
      BY <1>1, <1>2, <1>3, <1>10 DEF EndsAreAt, Sent
    <2> QED BY <1>5, <1>6, <1>7, <1>8, <2>1, <2>2, <2>3 DEF IInv
  <1> QED BY <1>9, <1>10 DEF Offer

\* The handler takes the event of the channel: a line is sent, and is the one
\* that follows what was sent before; an end is sent last.
LEMMA RelayEventIInv == ASSUME IInv, RelayEvent PROVE IInv'
  <1> DEFINE event == incoming[1]
  <1>1. /\ log' = log /\ stream' = stream /\ first' = first /\ next' = next /\ hand' = hand
        /\ receiver' = receiver /\ source' = source /\ got' = got
        /\ handler = "relaying" /\ incoming # <<>> /\ incoming' = <<>>
    BY DEF RelayEvent, gateway
  <1>2. event = Head(incoming) /\ event \in Events /\ event \in Int
    BY <1>1, ChannelType DEF IInv
  <1>3. \/ event = Status /\ UNCHANGED <<handler, ctx, wire>>
        \/ event > 0 /\ Write(event) /\ UNCHANGED <<handler, ctx>>
        \/ Return /\ UNCHANGED wire
        \/ event < 0 /\ ctx = "live" /\ Write(event) /\ Return
    BY <1>2 DEF RelayEvent, WriteFails
  <1>4. /\ got \in Seq(Events) /\ wire \in Seq(Events) /\ Sent \in Seq(Events)
        /\ Len(Sent) \in Nat /\ DOMAIN Sent = 1 .. Len(Sent)
        /\ first \in Int /\ next \in Int
        /\ \A k \in DOMAIN Sent : Sent[k] = first + k - 1
    BY <1>1, SentType, BoundsAssumption DEF IInv, TypeOK, SentAreLines
  <1>5. /\ event > 0 /\ source = "open" => event = first + Len(Sent)
        /\ receiver = "offer" /\ hand > 0 /\ source = "open" => hand = first + Len(Sent) + Held
        /\ source = "open" /\ (receiver # "ended" \/ event < 0) =>
              next = first + Len(Sent) + Held + InHand
        /\ event < 0 => receiver = "ended" /\ Honest(event)
        /\ receiver = "offer" => Honest(hand)
    BY <1>1 DEF IInv, LinesAreAt, EndsAreAt
  <1>6. Held' = 0 /\ InHand' = InHand
    BY <1>1 DEF Held, InHand
  <1> HIDE DEF event
  <1>7. incoming' \in Seq(Events) /\ Len(incoming') <= 1
    BY <1>1, EmptySeq
  <1>8. StartIsAt'
    <2>1. handler' \in {"relaying", "ended"}
      BY <1>1, <1>3 DEF Return
    <2> QED BY <2>1 DEF StartIsAt
  <1>9. CASE event = Status /\ UNCHANGED <<handler, ctx, wire>>
    <2>1. (got \o wire)' = Sent
      BY <1>1, <1>9 DEF Sent
    <2>2. TypeOK'
      BY <1>1, <1>7, <1>9 DEF IInv, TypeOK, Events
    <2>3. Held = 0 /\ ~(event < 0)
      BY <1>9 DEF Held, event, Status
    <2>4. LinesAreAt'
      <3>1. receiver = "offer" /\ hand > 0 /\ source = "open" => hand = first + Len(Sent) + Held'
        BY <1>5, <1>6, <2>3
      <3>2. source = "open" /\ receiver # "ended" =>
               next = first + Len(Sent) + Held' + InHand'
        BY <1>5, <1>6, <2>3
      <3> QED BY <1>1, <1>9, <2>1, <3>1, <3>2 DEF LinesAreAt, Sent
    <2>5. SentAreLines' /\ EndsAreAt'
      BY <1>1, <1>9, <2>1 DEF IInv, SentAreLines, EndsAreAt, Honest, Sent
    <2>6. InOrder' /\ EndIsHonest'
      BY <1>1, <2>1 DEF IInv, InOrder, EndIsHonest, Sent
    <2> QED BY <1>8, <2>2, <2>4, <2>5, <2>6 DEF IInv
  <1>10. CASE Return /\ UNCHANGED wire
    <2>1. (got \o wire)' = Sent
      BY <1>1, <1>10 DEF Sent
    <2>2. TypeOK'
      BY <1>1, <1>7, <1>10 DEF IInv, TypeOK, Events, Return
    <2>3. LinesAreAt' /\ SentAreLines'
      BY <1>10 DEF LinesAreAt, SentAreLines, Return
    <2>4. EndsAreAt'
      BY <1>1, <1>10, <2>1 DEF IInv, EndsAreAt, Honest, Return, Sent
    <2>5. InOrder' /\ EndIsHonest'
      BY <1>1, <2>1 DEF IInv, InOrder, EndIsHonest, Sent
    <2> QED BY <1>8, <2>2, <2>3, <2>4, <2>5 DEF IInv
  <1>11. ASSUME Write(event)
         PROVE  /\ source = "open" /\ wire' \in Seq(Events) /\ Len(wire') <= MaxWire
                /\ (got \o wire)' = Append(Sent, event)
                /\ Len(Append(Sent, event)) = Len(Sent) + 1
                /\ DOMAIN Append(Sent, event) = 1 .. Len(Sent) + 1
                /\ \A k \in 1 .. Len(Sent) : Append(Sent, event)[k] = first + k - 1
                /\ Append(Sent, event)[Len(Sent) + 1] = event
    <2>1. source = "open" /\ Len(wire) < MaxWire /\ wire' = Append(wire, event)
      BY <1>11 DEF Write
    <2>2. wire' \in Seq(Events) /\ Len(wire') = Len(wire) + 1
      BY <1>2, <1>4, <2>1, AppendProperties
    <2>3. Len(wire') <= MaxWire
      BY <1>4, <2>1, <2>2, LenProperties, BoundsAssumption
    <2>4. (got \o wire)' = Append(Sent, event)
      BY <1>1, <1>2, <1>4, <2>1, Written DEF Sent
    <2>5. /\ Append(Sent, event) \in Seq(Events) /\ Len(Append(Sent, event)) = Len(Sent) + 1
          /\ \A k \in 1 .. Len(Sent) : Append(Sent, event)[k] = Sent[k]
          /\ Append(Sent, event)[Len(Sent) + 1] = event
      BY <1>2, <1>4, AppendProperties
    <2>6. DOMAIN Append(Sent, event) = 1 .. Len(Sent) + 1
      BY <2>5, LenProperties
    <2> QED BY <1>4, <2>1, <2>2, <2>3, <2>4, <2>5, <2>6
  <1>12. CASE event > 0 /\ Write(event) /\ UNCHANGED <<handler, ctx>>
    <2>1. TypeOK'
      BY <1>1, <1>7, <1>11, <1>12 DEF IInv, TypeOK, Events
    <2>2. Held = 1 /\ event = first + Len(Sent)
      BY <1>1, <1>5, <1>11, <1>12 DEF Held, event
    <2>3. \A k \in 1 .. Len(Sent) + 1 : Append(Sent, event)[k] = first + k - 1
      <3>1. ASSUME NEW k \in 1 .. Len(Sent) + 1
            PROVE  Append(Sent, event)[k] = first + k - 1
        <4>1. k \in 1 .. Len(Sent) \/ k = Len(Sent) + 1
          BY <1>4, <3>1
        <4>2. first + Len(Sent) = first + (Len(Sent) + 1) - 1
          BY <1>4
        <4> QED BY <1>11, <1>12, <2>2, <4>1, <4>2
      <3> QED BY <3>1
    <2>4. SentAreLines' /\ InOrder'
      <3>1. \A k \in DOMAIN (got \o wire)' : (got \o wire)'[k] = first' + k - 1
        BY <1>1, <1>11, <1>12, <2>3
      <3> QED BY <3>1 DEF SentAreLines, InOrder, Sent
    <2>5. LinesAreAt'
      <3>1. receiver = "offer" /\ hand > 0 => hand = first + (Len(Sent) + 1) + Held'
        BY <1>4, <1>5, <1>6, <1>11, <1>12, <2>2
      <3>2. receiver # "ended" => next = first + (Len(Sent) + 1) + Held' + InHand'
        <4>1. InHand \in Int
          BY DEF InHand
        <4> QED BY <1>4, <1>5, <1>6, <1>11, <1>12, <2>2, <4>1
      <3>3. Len((got \o wire)') = Len(Sent) + 1
        BY <1>11, <1>12
      <3> QED BY <1>1, <3>1, <3>2, <3>3 DEF LinesAreAt, Sent
    <2>6. ~((got \o wire)'[Len((got \o wire)')] < 0)
      BY <1>2, <1>11, <1>12
    <2>7. EndsAreAt'
      BY <1>1, <1>5, <1>12, <2>6 DEF EndsAreAt, Honest, Sent
    <2>8. EndIsHonest'
      BY <2>6 DEF EndIsHonest, Sent, Eof, Broken
    <2> QED BY <1>8, <2>1, <2>4, <2>5, <2>7, <2>8 DEF IInv
  <1>13. CASE event < 0 /\ ctx = "live" /\ Write(event) /\ Return
    <2>1. TypeOK'
      BY <1>1, <1>7, <1>11, <1>13 DEF IInv, TypeOK, Events, Return
    <2>2. SentAreLines' /\ LinesAreAt'
      BY <1>13 DEF SentAreLines, LinesAreAt, Return
    <2>3. /\ Len((got \o wire)') = Len(Sent) + 1
          /\ (got \o wire)'[Len((got \o wire)')] = event
          /\ DOMAIN (got \o wire)' = 1 .. Len(Sent) + 1
          /\ \A k \in 1 .. Len(Sent) : (got \o wire)'[k] = first + k - 1
      BY <1>11, <1>13
    <2>4. receiver = "ended" /\ Honest(event)
      BY <1>5, <1>13
    <2>5. EndsAreAt'
      BY <1>1, <1>13, <2>4 DEF EndsAreAt, Return, Sent
    <2>6. InOrder'
      <3>1. \A k \in 1 .. Len(Sent) + 1 : k \in 1 .. Len(Sent) \/ k = Len(Sent) + 1
        BY <1>4
      <3> QED BY <1>1, <1>13, <2>3, <3>1 DEF InOrder, Sent
    <2>7. EndIsHonest'
      <3>1. /\ event = Eof => stream = "eof"
            /\ event = Broken => stream = "broken"
        BY <1>13, <2>4 DEF Honest
      <3>2. Len((got \o wire)') - 1 = next - first
        <4>1. Held = 0 /\ InHand = 0
          BY <1>2, <1>13, <2>4 DEF Held, InHand, event
        <4>2. next = first + Len(Sent)
          BY <1>4, <1>5, <1>11, <1>13, <4>1
        <4> QED BY <1>4, <2>3, <4>2
      <3> QED BY <1>1, <2>3, <3>1, <3>2 DEF EndIsHonest, Sent
    <2> QED BY <1>8, <2>1, <2>2, <2>5, <2>6, <2>7 DEF IInv
  <1> QED BY <1>3, <1>9, <1>10, <1>12, <1>13

-----------------------------------------------------------------------------
LEMMA StepIInv == IInv /\ [Next]_vars => IInv'
  <1> SUFFICES ASSUME IInv, [Next]_vars PROVE IInv'
    OBVIOUS
  <1>1. CASE Handler
    BY <1>1, WatchIInv, FirstEventIInv, RelayEventIInv, QuietIInv DEF Handler
  <1>2. CASE Receiver
    BY <1>2, RecvIInv, OfferIInv DEF Receiver
  <1>3. CASE HeartbeatFails \/ Log \/ StreamEnds \/ RequestEnds
    BY <1>3, QuietIInv
  <1>4. CASE BrowserReads \/ BrowserLeaves
    BY <1>4, BrowserReadsIInv, BrowserLeavesIInv
  <1>5. CASE UNCHANGED vars
    <2>1. /\ log' = log /\ stream' = stream /\ first' = first /\ next' = next /\ hand' = hand
          /\ receiver' = receiver /\ handler' = handler /\ incoming' = incoming
          /\ ctx' = ctx /\ wire' = wire /\ source' = source /\ got' = got
      BY <1>5 DEF vars, gateway
    <2>2. Sent' = Sent
      BY <2>1 DEF Sent
    <2>3. TypeOK' /\ StartIsAt'
      BY <2>1 DEF IInv, TypeOK, StartIsAt
    <2> QED BY <2>1, <2>2, <2>3, QuietStep
  <1> QED BY <1>1, <1>2, <1>3, <1>4, <1>5 DEF Next

LEMMA Inductive == Spec => []IInv
  <1>1. Init => IInv
    BY InitIInv
  <1>2. IInv /\ [Next]_vars => IInv'
    BY StepIInv
  <1> QED BY <1>1, <1>2, PTL DEF Spec

\* Every variable keeps its type: the channel holds one event at most, and the
\* wire never more than it has room for.
THEOREM TypeIsInvariant == Spec => []TypeOK
  <1>1. IInv => TypeOK
    BY DEF IInv
  <1> QED BY <1>1, Inductive, PTL

\* relaySandboxLogs sends the lines the gateway's stream delivers from the
\* start of the replayed tail on, each once and in order, although a goroutine
\* receives them, a channel hands them over and the browser may leave: a line
\* is only ever lost with everything that would follow it.
THEOREM LinesAreInOrder == Spec => []InOrder
  <1>1. IInv => InOrder
    BY DEF IInv
  <1> QED BY <1>1, Inductive, PTL

\* The "end" event is sent only when the gateway ended the stream, the
\* "stream-error" event only when it broke, and both only after every line that
\* was received: the error of Recv is the last thing the goroutine hands over.
THEOREM EndsAreHonest == Spec => []EndIsHonest
  <1>1. IInv => EndIsHonest
    BY DEF IInv
  <1> QED BY <1>1, Inductive, PTL

-----------------------------------------------------------------------------
(* LogsTab. With the types, both invariants are inductive: what was received *)
(* says where the stream is, and a query's failure is taken up by whichever  *)
(* step first shows that query, be it its answer, a change of the filter or  *)
(* the end of the stream.                                                    *)

Query == [status : {"pending", "success", "error"}, fetching : BOOLEAN,
          since : 0 .. MaxLogged, data : NoData .. MaxLogged]

TabInv ==
    /\ TabTypeOK
    /\ NoGapsNoDuplicates
    /\ NeverSilentlyStopped

-----------------------------------------------------------------------------
LEMMA TailStartType == ASSUME TabTypeOK PROVE TailStart \in 1 .. MaxLogged + 1
  <1>1. logged \in 0 .. MaxLogged
    BY DEF TabTypeOK
  <1> QED BY <1>1, TabAssumption DEF TailStart

LEMMA BlankType == Blank \in Query /\ Blank.status = "pending"
  BY TabAssumption DEF Blank, Query, NoData

\* Keep drops the oldest line, and at most that one.
LEMMA KeepNewest ==
    ASSUME NEW lines \in Seq(1 .. MaxLogged), Len(lines) <= MaxLogLines + 1, lines # <<>>
    PROVE  /\ Keep(lines) \in Seq(1 .. MaxLogged) /\ Keep(lines) # <<>>
           /\ Len(Keep(lines)) <= MaxLogLines
           /\ Keep(lines)[Len(Keep(lines))] = lines[Len(lines)]
           /\ \/ Keep(lines) = lines
              \/ /\ Len(Keep(lines)) = Len(lines) - 1
                 /\ \A k \in 1 .. Len(Keep(lines)) : Keep(lines)[k] = lines[k + 1]
  <1>1. Len(lines) \in Nat \ {0}
    BY EmptySeq
  <1>2. CASE Len(lines) > MaxLogLines
    <2>1. Keep(lines) = Tail(lines)
      BY <1>2 DEF Keep
    <2>2. /\ Tail(lines) \in Seq(1 .. MaxLogged) /\ Len(Tail(lines)) = Len(lines) - 1
          /\ \A k \in 1 .. Len(Tail(lines)) : Tail(lines)[k] = lines[k + 1]
      BY HeadTailProperties
    <2>3. Len(Tail(lines)) <= MaxLogLines /\ Len(Tail(lines)) \in Nat \ {0}
      BY <1>1, <1>2, <2>2, TabAssumption
    <2>4. Tail(lines) # <<>>
      BY <2>2, <2>3, EmptySeq
    <2>5. Tail(lines)[Len(Tail(lines))] = lines[Len(lines)]
      BY <1>1, <2>2, <2>3
    <2> QED BY <2>1, <2>2, <2>3, <2>4, <2>5
  <1>3. CASE ~(Len(lines) > MaxLogLines)
    <2>1. Keep(lines) = lines
      BY <1>3 DEF Keep
    <2>2. Len(lines) <= MaxLogLines
      BY <1>1, <1>3, TabAssumption
    <2> QED BY <2>1, <2>2
  <1> QED BY <1>2, <1>3

-----------------------------------------------------------------------------
LEMMA InitTabInv == TabInit => TabInv
  <1> SUFFICES ASSUME TabInit PROVE TabInv
    OBVIOUS
  <1>1. TabTypeOK
    <2>1. upcoming \in 1 .. MaxLogged + 1
      BY TabAssumption DEF TabInit, TailStart
    <2>2. query \in [Filters -> Query]
      BY BlankType DEF TabInit
    <2>3. receivedLines \in Seq(1 .. MaxLogged) /\ Len(receivedLines) <= MaxLogLines
      BY EmptySeq, TabAssumption DEF TabInit
    <2>4. 1 \in 1 .. MaxSubs
      BY TabAssumption
    <2>5. /\ logged \in 0 .. MaxLogged /\ mounted = TRUE /\ eventSource = "open" /\ opened = 1
          /\ transport = "stream" /\ autoRefresh = TRUE /\ pollingFailure = FALSE
          /\ filter \in Filters
      BY DEF TabInit
    <2> QED BY <2>1, <2>2, <2>3, <2>4, <2>5 DEF TabTypeOK, Query
  <1>2. NoGapsNoDuplicates
    BY EmptySeq DEF TabInit, NoGapsNoDuplicates
  <1>3. NeverSilentlyStopped
    BY DEF TabInit, NeverSilentlyStopped
  <1> QED BY <1>1, <1>2, <1>3 DEF TabInv

\* The stream's part of the state is left as it was, or given up for a new
\* source or none.
LEMMA StreamStep ==
    ASSUME TabInv, \/ Subscribe
                   \/ eventSource' \in {eventSource, "closed"} /\ UNCHANGED <<upcoming, opened, receivedLines>>
    PROVE  /\ upcoming' \in 1 .. MaxLogged + 1 /\ eventSource' \in {"open", "closed"}
           /\ opened' \in 1 .. MaxSubs
           /\ receivedLines' \in Seq(1 .. MaxLogged) /\ Len(receivedLines') <= MaxLogLines
           /\ NoGapsNoDuplicates'
  <1>1. CASE Subscribe
    <2>1. upcoming' \in 1 .. MaxLogged + 1 /\ eventSource' = "open" /\ receivedLines' = <<>>
      BY <1>1, TailStartType DEF Subscribe, TabInv
    <2>2. opened' \in 1 .. MaxSubs
      <3>1. opened \in 1 .. MaxSubs /\ opened < MaxSubs /\ opened' = opened + 1
        BY <1>1 DEF Subscribe, TabInv, TabTypeOK
      <3> QED BY <3>1, TabAssumption
    <2>3. receivedLines' \in Seq(1 .. MaxLogged) /\ Len(receivedLines') = 0
      BY <2>1, EmptySeq
    <2>4. NoGapsNoDuplicates'
      BY <2>1, <2>3 DEF NoGapsNoDuplicates
    <2> QED BY <2>1, <2>2, <2>3, <2>4, TabAssumption
  <1>2. CASE eventSource' \in {eventSource, "closed"} /\ UNCHANGED <<upcoming, opened, receivedLines>>
    <2>1. upcoming' = upcoming /\ opened' = opened /\ receivedLines' = receivedLines
      BY <1>2
    <2>2. NoGapsNoDuplicates'
      BY <1>2, <2>1 DEF TabInv, NoGapsNoDuplicates
    <2> QED BY <1>2, <2>1, <2>2 DEF TabInv, TabTypeOK
  <1> QED BY <1>1, <1>2

\* The next line follows the last one received, also when the oldest is
\* dropped for it.
LEMMA TabOnLogInv == ASSUME TabInv, OnLog PROVE TabInv'
  <1> DEFINE lines == Append(receivedLines, upcoming)
  <1>1. /\ logged' = logged /\ eventSource' = eventSource /\ opened' = opened /\ mounted' = mounted
        /\ transport' = transport /\ autoRefresh' = autoRefresh /\ filter' = filter
        /\ query' = query /\ pollingFailure' = pollingFailure
        /\ eventSource = "open" /\ upcoming <= logged /\ upcoming' = upcoming + 1 /\ receivedLines' = Keep(lines)
    BY DEF OnLog, polling
  <1>2. /\ logged \in 0 .. MaxLogged /\ upcoming \in 1 .. MaxLogged /\ upcoming' \in 1 .. MaxLogged + 1
    <2>1. logged \in 0 .. MaxLogged /\ upcoming \in 1 .. MaxLogged + 1
      BY DEF TabInv, TabTypeOK
    <2> QED BY <1>1, <2>1, TabAssumption
  <1>3. receivedLines \in Seq(1 .. MaxLogged) /\ Len(receivedLines) <= MaxLogLines
        /\ Len(receivedLines) \in Nat
    BY LenProperties DEF TabInv, TabTypeOK
  <1>4. /\ lines \in Seq(1 .. MaxLogged) /\ lines # <<>> /\ Len(lines) = Len(receivedLines) + 1
        /\ \A k \in 1 .. Len(receivedLines) : lines[k] = receivedLines[k]
        /\ lines[Len(receivedLines) + 1] = upcoming
    BY <1>2, <1>3, AppendProperties
  <1> HIDE DEF lines
  <1>5. Len(lines) <= MaxLogLines + 1
    BY <1>3, <1>4, TabAssumption
  <1>6. \A k \in 1 .. Len(lines) - 1 : lines[k + 1] = lines[k] + 1
    <2>1. ASSUME NEW k \in 1 .. Len(lines) - 1
          PROVE  lines[k + 1] = lines[k] + 1
      <3>1. k \in 1 .. Len(receivedLines)
        BY <1>3, <1>4, <2>1
      <3>2. CASE k \in 1 .. Len(receivedLines) - 1
        <4>1. receivedLines[k + 1] = receivedLines[k] + 1 /\ k + 1 \in 1 .. Len(receivedLines)
          BY <1>3, <3>2 DEF TabInv, NoGapsNoDuplicates
        <4> QED BY <1>4, <3>1, <4>1
      <3>3. CASE k = Len(receivedLines)
        <4>1. receivedLines # <<>>
          BY <3>1, <3>3, EmptySeq
        <4>2. receivedLines[k] = upcoming - 1
          BY <1>1, <3>3, <4>1 DEF TabInv, NoGapsNoDuplicates
        <4>3. lines[k] = upcoming - 1 /\ lines[k + 1] = upcoming
          BY <1>4, <3>1, <3>3, <4>2
        <4> QED BY <1>2, <4>3
      <3> QED BY <1>3, <3>1, <3>2, <3>3
    <2> QED BY <2>1
  <1>7. /\ Keep(lines) \in Seq(1 .. MaxLogged) /\ Keep(lines) # <<>>
        /\ Len(Keep(lines)) <= MaxLogLines
        /\ Keep(lines)[Len(Keep(lines))] = upcoming
        /\ \/ Keep(lines) = lines
           \/ /\ Len(Keep(lines)) = Len(lines) - 1
              /\ \A k \in 1 .. Len(Keep(lines)) : Keep(lines)[k] = lines[k + 1]
    BY <1>4, <1>5, KeepNewest
  <1>8. TabTypeOK'
    BY <1>1, <1>2, <1>7 DEF TabInv, TabTypeOK
  <1>9. NoGapsNoDuplicates'
    <2>1. receivedLines' # <<>> /\ receivedLines'[Len(receivedLines')] = upcoming' - 1
      BY <1>1, <1>2, <1>7
    <2>2. ASSUME NEW k \in 1 .. Len(Keep(lines)) - 1
          PROVE  Keep(lines)[k + 1] = Keep(lines)[k] + 1
      <3>1. CASE Keep(lines) = lines
        BY <1>6, <2>2, <3>1
      <3>2. CASE /\ Len(Keep(lines)) = Len(lines) - 1
                 /\ \A j \in 1 .. Len(Keep(lines)) : Keep(lines)[j] = lines[j + 1]
        <4>1. Len(lines) \in Nat
          BY <1>4, LenProperties
        <4>2. /\ k \in 1 .. Len(Keep(lines)) /\ k + 1 \in 1 .. Len(Keep(lines))
              /\ k + 1 \in 1 .. Len(lines) - 1
          BY <2>2, <3>2, <4>1
        <4> QED BY <1>6, <3>2, <4>2
      <3> QED BY <1>7, <3>1, <3>2
    <2> QED BY <1>1, <2>1, <2>2 DEF NoGapsNoDuplicates
  <1>10. NeverSilentlyStopped'
    BY <1>1 DEF TabInv, NeverSilentlyStopped
  <1> QED BY <1>8, <1>9, <1>10 DEF TabInv

\* A query is only ever changed whole, for one filter.
LEMMA QueryStep ==
    ASSUME TabTypeOK, NEW f \in Filters, NEW q \in Query, query' = [query EXCEPT ![f] = q]
    PROVE  query' \in [Filters -> Query] /\ query'[f] = q
           /\ \A h \in Filters : h # f => query'[h] = query[h]
  BY DEF TabTypeOK, Query

LEMMA TabPollingInv ==
    ASSUME TabInv, \/ Poll \/ RetryPoll
                   \/ \E f \in Filters : PollAnswers(f) \/ PollFails(f) \/ ChangeFilter(f)
    PROVE  TabInv'
  <1>1. /\ logged' = logged /\ upcoming' = upcoming /\ eventSource' = eventSource /\ opened' = opened
        /\ mounted' = mounted /\ transport' = transport /\ autoRefresh' = autoRefresh
        /\ receivedLines' = receivedLines
    BY DEF Poll, RetryPoll, PollAnswers, PollFails, ChangeFilter, subscription, tab
  <1>2. NoGapsNoDuplicates'
    BY <1>1 DEF TabInv, NoGapsNoDuplicates
  <1>3. /\ logged \in 0 .. MaxLogged /\ query \in [Filters -> Query] /\ filter \in Filters
        /\ pollingFailure \in BOOLEAN
    BY DEF TabInv, TabTypeOK, Query
  <1>4. ASSUME query' \in [Filters -> Query], pollingFailure' \in BOOLEAN, filter' \in Filters
        PROVE  TabTypeOK'
    BY <1>1, <1>4 DEF TabInv, TabTypeOK, Query
  <1>5. \A f \in Filters : Fetch(f) = [query EXCEPT ![f] = [query[f] EXCEPT !.fetching = TRUE,
                                                                         !.since = logged]]
    BY <1>3 DEF Fetch, Query
  <1>6. CASE Poll
    <2> DEFINE q == [query[filter] EXCEPT !.fetching = TRUE, !.since = logged]
    <2>1. /\ query' = [query EXCEPT ![filter] = q] /\ pollingFailure' = pollingFailure
          /\ filter' = filter
      BY <1>3, <1>5, <1>6 DEF Poll
    <2>2. q \in Query /\ q.fetching = TRUE
      BY <1>3 DEF Query
    <2> HIDE DEF q
    <2>3. query' \in [Filters -> Query] /\ query'[filter] = q
      BY <1>3, <2>1, <2>2, QueryStep DEF TabInv
    <2>4. NeverSilentlyStopped'
      BY <2>1, <2>2, <2>3 DEF NeverSilentlyStopped
    <2>5. TabTypeOK'
      BY <1>3, <1>4, <2>1, <2>3
    <2> QED BY <1>2, <2>4, <2>5 DEF TabInv
  <1>7. CASE RetryPoll
    <2> DEFINE q == [query[filter] EXCEPT !.fetching = TRUE, !.since = logged,
                        !.status = IF query[filter].data = NoData THEN "pending" ELSE @]
    <2>1. /\ query' = [query EXCEPT ![filter] = q] /\ pollingFailure' = FALSE
          /\ filter' = filter
      <3> DEFINE r == [query[filter] EXCEPT !.fetching = TRUE, !.since = logged]
                 F == [query EXCEPT ![filter] = r]
                 status == IF query[filter].data = NoData THEN "pending" ELSE query[filter].status
      <3>1. r \in Query /\ r.status = query[filter].status /\ q = [r EXCEPT !.status = status]
        BY <1>3 DEF Query
      <3>2. F[filter] = r /\ F \in [Filters -> Query]
        BY <1>3, <3>1
      <3>3. query' = [F EXCEPT ![filter] = [F[filter] EXCEPT !.status =
                         IF query[filter].data = NoData THEN "pending" ELSE F[filter].status]]
        BY <1>3, <1>5, <1>7 DEF RetryPoll
      <3> HIDE DEF r, q
      <3>4. query' = [query EXCEPT ![filter] = q]
        BY <1>3, <3>1, <3>2, <3>3
      <3> QED BY <1>7, <3>4 DEF RetryPoll
    <2>2. q \in Query /\ q.fetching = TRUE
      BY <1>3 DEF Query
    <2> HIDE DEF q
    <2>3. query' \in [Filters -> Query] /\ query'[filter] = q
      BY <1>3, <2>1, <2>2, QueryStep DEF TabInv
    <2>4. NeverSilentlyStopped'
      BY <2>1, <2>2, <2>3 DEF NeverSilentlyStopped
    <2>5. TabTypeOK'
      BY <1>3, <1>4, <2>1, <2>3
    <2> QED BY <1>2, <2>4, <2>5 DEF TabInv
  <1>8. ASSUME NEW f \in Filters, PollAnswers(f)
        PROVE  TabInv'
    <2>1. PICK n \in query[f].since .. logged :
             query' = [query EXCEPT ![f] = [Blank EXCEPT !.status = "success", !.data = n]]
      BY <1>8 DEF PollAnswers
    <2> DEFINE q == [Blank EXCEPT !.status = "success", !.data = n]
    <2>2. n \in 0 .. MaxLogged
      <3>1. query[f].since \in 0 .. MaxLogged
        BY <1>3 DEF Query
      <3> QED BY <1>3, <2>1, <3>1, TabAssumption
    <2>3. n \in NoData .. MaxLogged /\ 0 \in 0 .. MaxLogged
      BY <2>2, TabAssumption DEF NoData
    <2>4. q \in Query /\ q.status = "success"
      BY <2>3 DEF Blank, Query
    <2> HIDE DEF q
    <2>5. /\ query' \in [Filters -> Query] /\ query'[f] = q
          /\ \A h \in Filters : h # f => query'[h] = query[h]
      BY <2>1, <2>4, QueryStep DEF TabInv, q
    <2>6. pollingFailure' = pollingFailure /\ filter' = filter
      BY <1>8 DEF PollAnswers
    <2>7. NeverSilentlyStopped'
      BY <1>1, <1>3, <2>4, <2>5, <2>6 DEF TabInv, NeverSilentlyStopped
    <2>8. TabTypeOK'
      BY <1>3, <1>4, <2>5, <2>6
    <2> QED BY <1>2, <2>7, <2>8 DEF TabInv
  <1>9. ASSUME NEW f \in Filters, PollFails(f)
        PROVE  TabInv'
    <2> DEFINE q == [Blank EXCEPT !.status = "error", !.data = query[f].data]
    <2>1. query' = [query EXCEPT ![f] = q]
      BY <1>9 DEF PollFails
    <2>2. query[f].data \in NoData .. MaxLogged /\ 0 \in 0 .. MaxLogged
      BY <1>3, TabAssumption DEF Query
    <2>3. q \in Query
      BY <2>2 DEF Blank, Query
    <2> HIDE DEF q
    <2>4. /\ query' \in [Filters -> Query]
          /\ \A h \in Filters : h # f => query'[h] = query[h]
      BY <2>1, <2>3, QueryStep DEF TabInv
    <2>5. /\ pollingFailure' = (pollingFailure \/ (mounted /\ transport = "poll" /\ f = filter))
          /\ filter' = filter
      BY <1>9 DEF PollFails
    <2>6. pollingFailure' \in BOOLEAN
      BY <2>5
    <2>7. NeverSilentlyStopped'
      BY <1>1, <1>3, <2>4, <2>5 DEF TabInv, NeverSilentlyStopped
    <2>8. TabTypeOK'
      BY <1>3, <1>4, <2>4, <2>5, <2>6
    <2> QED BY <1>2, <2>7, <2>8 DEF TabInv
  <1>10. ASSUME NEW f \in Filters, ChangeFilter(f)
         PROVE  TabInv'
    <2>1. /\ filter' = f /\ query' = query
          /\ pollingFailure' = (pollingFailure \/ (transport = "poll" /\ query[f].status = "error"))
      BY <1>10 DEF ChangeFilter
    <2>2. pollingFailure' \in BOOLEAN
      BY <2>1
    <2>3. NeverSilentlyStopped'
      BY <1>1, <2>1 DEF NeverSilentlyStopped
    <2>4. TabTypeOK'
      BY <1>3, <1>4, <2>1, <2>2
    <2> QED BY <1>2, <2>3, <2>4 DEF TabInv
  <1> QED BY <1>6, <1>7, <1>8, <1>9, <1>10

LEMMA TabTransportInv ==
    ASSUME TabInv, OnDisconnect \/ SwitchAutoRefresh \/ RetryStream \/ Unmount
    PROVE  TabInv'
  <1>1. /\ logged' = logged /\ filter' = filter /\ query' = query
    BY DEF OnDisconnect, SwitchAutoRefresh, RetryStream, Unmount, polling
  <1>2. \/ Subscribe
        \/ eventSource' \in {eventSource, "closed"} /\ UNCHANGED <<upcoming, opened, receivedLines>>
    BY DEF OnDisconnect, SwitchAutoRefresh, RetryStream, Unmount, Unsubscribe
  <1>3. /\ upcoming' \in 1 .. MaxLogged + 1 /\ eventSource' \in {"open", "closed"}
        /\ opened' \in 1 .. MaxSubs
        /\ receivedLines' \in Seq(1 .. MaxLogged) /\ Len(receivedLines') <= MaxLogLines
        /\ NoGapsNoDuplicates'
    BY <1>2, StreamStep
  <1>4. /\ mounted \in BOOLEAN /\ autoRefresh \in BOOLEAN /\ pollingFailure \in BOOLEAN
        /\ transport \in {"stream", "poll"}
    BY DEF TabInv, TabTypeOK
  <1>5. mounted' \in BOOLEAN /\ autoRefresh' \in BOOLEAN /\ pollingFailure' \in BOOLEAN
        /\ transport' \in {"stream", "poll"}
    BY <1>4 DEF OnDisconnect, SwitchAutoRefresh, RetryStream, Unmount, polling
  <1>6. TabTypeOK'
    BY <1>1, <1>3, <1>5 DEF TabInv, TabTypeOK
  <1>7. NeverSilentlyStopped'
    <2>1. CASE OnDisconnect
      BY <1>1, <2>1 DEF OnDisconnect, NeverSilentlyStopped
    <2>2. CASE SwitchAutoRefresh
      BY <1>1, <2>2 DEF SwitchAutoRefresh, polling, TabInv, NeverSilentlyStopped
    <2>3. CASE RetryStream
      BY <2>3 DEF RetryStream, NeverSilentlyStopped
    <2>4. CASE Unmount
      BY <2>4 DEF Unmount, NeverSilentlyStopped
    <2> QED BY <2>1, <2>2, <2>3, <2>4
  <1> QED BY <1>3, <1>6, <1>7 DEF TabInv

LEMMA TabLogInv == ASSUME TabInv, LogLine \/ UNCHANGED tabVars PROVE TabInv'
  <1>1. /\ upcoming' = upcoming /\ eventSource' = eventSource /\ opened' = opened /\ mounted' = mounted
        /\ transport' = transport /\ autoRefresh' = autoRefresh
        /\ receivedLines' = receivedLines /\ pollingFailure' = pollingFailure
        /\ filter' = filter /\ query' = query
    BY DEF LogLine, tabVars, subscription, tab, polling
  <1>2. logged' \in 0 .. MaxLogged
    <2>1. logged' = logged \/ (logged < MaxLogged /\ logged' = logged + 1)
      BY DEF LogLine, tabVars
    <2>2. logged \in 0 .. MaxLogged
      BY DEF TabInv, TabTypeOK
    <2> QED BY <2>1, <2>2, TabAssumption
  <1> QED BY <1>1, <1>2 DEF TabInv, TabTypeOK, NoGapsNoDuplicates, NeverSilentlyStopped

LEMMA TabInductive == TabSpec => []TabInv
  <1>1. TabInit => TabInv
    BY InitTabInv
  <1>2. TabInv /\ [TabNext]_tabVars => TabInv'
    <2> SUFFICES ASSUME TabInv, [TabNext]_tabVars PROVE TabInv'
      OBVIOUS
    <2>1. CASE OnLog
      BY <2>1, TabOnLogInv
    <2>2. CASE OnDisconnect
      BY <2>2, TabTransportInv
    <2>3. CASE User
      BY <2>3, TabPollingInv, TabTransportInv DEF User
    <2>4. CASE Poll \/ \E f \in Filters : PollAnswers(f) \/ PollFails(f)
      BY <2>4, TabPollingInv
    <2>5. CASE LogLine \/ UNCHANGED tabVars
      BY <2>5, TabLogInv
    <2> QED BY <2>1, <2>2, <2>3, <2>4, <2>5 DEF TabNext
  <1> QED BY <1>1, <1>2, PTL DEF TabSpec

\* Every variable keeps its type; the tab never keeps more than MAX_LOG_LINES.
THEOREM TabTypeIsInvariant == TabSpec => []TabTypeOK
  <1>1. TabInv => TabTypeOK
    BY DEF TabInv
  <1> QED BY <1>1, TabInductive, PTL

\* What the tab has received is a piece of the log, without a gap or a line
\* twice, whatever the switch, the retries and the limit of MAX_LOG_LINES have
\* done: a subscription starts from nothing (the effect of SandboxLogsTab).
THEOREM ReceivedIsAPiece == TabSpec => []NoGapsNoDuplicates
  <1>1. TabInv => NoGapsNoDuplicates
    BY DEF TabInv
  <1> QED BY <1>1, TabInductive, PTL

\* A failed query on the screen either has its failure shown or is being read
\* again, even when it failed while another filter or the stream was shown:
\* this is the effect that copies the query's error into pollingFailure.
THEOREM NeverStopsSilently == TabSpec => []NeverSilentlyStopped
  <1>1. TabInv => NeverSilentlyStopped
    BY DEF TabInv
  <1> QED BY <1>1, TabInductive, PTL

=============================================================================
