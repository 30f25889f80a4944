------------------------- MODULE DraftSummaryProofs -------------------------
(***************************************************************************)
(* Proofs about DraftSummary, for every length of listing, size of pool,   *)
(* set of listings and content of the inboxes.                             *)
(***************************************************************************)
EXTENDS DraftSummary, TLAPS

\* What pendingDrafts makes of an answer is an entry, and a true one.
LEMMA EntryOfType ==
    ASSUME NEW c \in Contents
    PROVE  /\ EntryOf(c) \in Entry
           /\ EntryOf(c).kind = "pending" => EntryOf(c).count > 0 /\ EntryOf(c).count = c
           /\ EntryOf(c).kind = "none" => c \in {0, Gone}
  BY PendingAssumption DEF EntryOf, Entry, None, Pending, Contents

LEMMA ConstantEntries ==
    /\ None \in Entry /\ None.kind = "none"
    /\ Unavailable \in Entry /\ Unavailable.kind = "unavailable"
  BY PendingAssumption DEF None, Unavailable, Entry

LEMMA InitIInv == Init => IInv
  <1> SUFFICES ASSUME Init PROVE IInv
    OBVIOUS
  <1>1. TypeOK
    BY ConstantEntries, ListingAssumption DEF Init, TypeOK
  <1>2. BeforeMark /\ Untouched /\ LateReads
    BY DEF Init, BeforeMark, Untouched, LateReads, BeingOffered
  <1>3. Readers
    BY DEF Init, Readers, Index, Idle
  <1>4. EntryTruth
    BY ConstantEntries DEF Init, EntryTruth
  <1> QED BY <1>1, <1>2, <1>3, <1>4 DEF IInv

LEMMA StepIInv == IInv /\ [Next]_vars => IInv'
  <1> SUFFICES ASSUME IInv, [Next]_vars PROVE IInv'
    OBVIOUS
  <1> USE ListingAssumption DEF listing, gateway, Index
  <1>1. CASE MarkUnscoped
    <2>1. TypeOK'
      BY <1>1, ConstantEntries DEF MarkUnscoped, IInv, TypeOK, Unscoped
    <2>2. BeforeMark'
      BY <1>1 DEF MarkUnscoped, BeforeMark
    <2>3. Untouched'
      BY <1>1
      DEF MarkUnscoped, Untouched, Unscoped, SandboxWorkspaceOr, BeingOffered
    <2>4. Readers'
      BY <1>1 DEF MarkUnscoped, IInv, BeforeMark, Readers
    <2>5. EntryTruth'
      BY <1>1, ConstantEntries
      DEF MarkUnscoped, IInv, EntryTruth, Unscoped, SandboxWorkspaceOr
    <2>6. LateReads'
      BY <1>1 DEF MarkUnscoped, IInv, LateReads
    <2> QED BY <2>1, <2>2, <2>3, <2>4, <2>5, <2>6 DEF IInv
  <1>2. CASE SkipRead
    <2>1. TypeOK'
      BY <1>2 DEF SkipRead, IInv, TypeOK
    <2>2. BeforeMark'
      BY <1>2 DEF SkipRead, BeforeMark
    <2>3. Untouched'
      BY <1>2
      DEF SkipRead, IInv, TypeOK, Untouched, Unscoped, SandboxWorkspaceOr,
         BeingOffered
    <2>4. Readers'
      BY <1>2
      DEF SkipRead, IInv, Readers, Unscoped, SandboxWorkspaceOr, BeingOffered
    <2>5. EntryTruth'
      BY <1>2
      DEF SkipRead, IInv, EntryTruth, Unscoped, SandboxWorkspaceOr,
         BeingRead, BeingOffered
    <2>6. LateReads'
      BY <1>2 DEF SkipRead, IInv, LateReads
    <2> QED BY <2>1, <2>2, <2>3, <2>4, <2>5, <2>6 DEF IInv
  <1>3. CASE Offer
    <2>1. TypeOK'
      BY <1>3 DEF Offer, IInv, TypeOK
    <2>2. BeforeMark'
      BY <1>3 DEF Offer, BeforeMark
    <2>3. Untouched'
      BY <1>3
      DEF Offer, IInv, TypeOK, Untouched, EntryTruth, Unscoped,
         SandboxWorkspaceOr, BeingOffered
    <2>4. Readers'
      BY <1>3
      DEF Offer, IInv, Readers, Unscoped, SandboxWorkspaceOr, BeingOffered
    <2>5. EntryTruth'
      BY <1>3
      DEF Offer, IInv, EntryTruth, Unscoped, SandboxWorkspaceOr, BeingRead,
         BeingOffered
    <2>6. LateReads'
      BY <1>3 DEF Offer, IInv, LateReads
    <2> QED BY <2>1, <2>2, <2>3, <2>4, <2>5, <2>6 DEF IInv
  <1>4. CASE CloseIndexes
    <2>1. TypeOK'
      BY <1>4 DEF CloseIndexes, IInv, TypeOK
    <2>2. BeforeMark'
      BY <1>4 DEF CloseIndexes, BeforeMark
    <2>3. Untouched'
      BY <1>4 DEF CloseIndexes, IInv, Untouched, BeingOffered
    <2>4. Readers'
      BY <1>4
      DEF CloseIndexes, IInv, Readers, Unscoped, SandboxWorkspaceOr,
         BeingOffered
    <2>5. EntryTruth'
      BY <1>4
      DEF CloseIndexes, IInv, EntryTruth, Unscoped, SandboxWorkspaceOr,
         BeingRead, BeingOffered
    <2>6. LateReads'
      BY <1>4 DEF CloseIndexes, IInv, LateReads
    <2> QED BY <2>1, <2>2, <2>3, <2>4, <2>5, <2>6 DEF IInv
  <1>5. CASE Sweep
    <2>1. TypeOK'
      BY <1>5, ConstantEntries DEF Sweep, IInv, TypeOK
    <2>2. BeforeMark'
      BY <1>5 DEF Sweep, BeforeMark
    <2>3. Untouched'
      BY <1>5 DEF Sweep, Untouched, BeingOffered
    <2>4. Readers'
      BY <1>5 DEF Sweep, Readers, Exited
    <2>5. EntryTruth'
      BY <1>5, ConstantEntries
      DEF Sweep, IInv, EntryTruth, Unscoped, SandboxWorkspaceOr, BeingRead,
         BeingOffered
    <2>6. LateReads'
      BY <1>5 DEF Sweep, IInv, LateReads
    <2> QED BY <2>1, <2>2, <2>3, <2>4, <2>5, <2>6 DEF IInv
  <1>6. ASSUME NEW w \in Workers, Hand(w) PROVE IInv'
    <2>1. TypeOK'
      BY <1>6, ConstantEntries DEF Hand, IInv, TypeOK, Untouched
    <2>2. BeforeMark'
      BY <1>6 DEF Hand, BeforeMark
    <2>3. Untouched'
      BY <1>6
      DEF Hand, IInv, Untouched, Unscoped, SandboxWorkspaceOr, BeingOffered
    <2>4. Readers'
      <3>1. CASE sandboxes[next].isNil
        BY <1>6, <3>1
        DEF Hand, IInv, Readers, Unscoped, SandboxWorkspaceOr, BeingOffered
      <3>2. CASE ~sandboxes[next].isNil
        <4>1. /\ read[next] /\ ~Unscoped(next) /\ next \in Index
              /\ worker' = [worker EXCEPT ![w] = next]
              /\ \A v \in Workers : worker[v] # next
          BY <1>6, <3>2 DEF Hand, IInv, Untouched, Readers, BeingOffered
        <4>2. \A v \in Workers : worker'[v] = IF v = w THEN next ELSE worker[v]
          BY <4>1 DEF IInv, TypeOK
        <4> QED
          BY <1>6, <4>1
          DEF Hand, IInv, Readers, Unscoped, SandboxWorkspaceOr, BeingOffered
      <3> QED BY <3>1, <3>2
    <2>5. EntryTruth'
      <3> SUFFICES ASSUME NEW i \in Index PROVE EntryTruth!(i)'
        BY DEF EntryTruth
      <3>1. sandboxes' = sandboxes /\ read' = read /\ entries' = entries /\ seen' = seen
            /\ inbox' = inbox /\ pc = "send" /\ pc' = "dispatch" /\ (Unscoped(i)' <=> Unscoped(i))
        BY <1>6 DEF Hand, Unscoped, SandboxWorkspaceOr
      <3>2. BeingRead(i) => BeingRead(i)'
        BY <1>6 DEF Hand, BeingRead, IInv, TypeOK, Idle
      <3>3. BeingOffered(i) => sandboxes[i].isNil \/ BeingRead(i)'
        BY <1>6 DEF Hand, BeingRead, BeingOffered, IInv, TypeOK
      <3> QED BY <3>1, <3>2, <3>3 DEF IInv, EntryTruth
    <2>6. LateReads'
      BY <1>6 DEF Hand, IInv, LateReads
    <2> QED BY <2>1, <2>2, <2>3, <2>4, <2>5, <2>6 DEF IInv
  <1>7. ASSUME NEW w \in Workers, PendingDrafts(w) PROVE IInv'
    <2>1. TypeOK'
      BY <1>7, EntryOfType DEF PendingDrafts, IInv, TypeOK
    <2>2. BeforeMark'
      BY <1>7 DEF PendingDrafts, IInv, BeforeMark, Readers
    <2>3. Untouched'
      BY <1>7
      DEF PendingDrafts, IInv, Untouched, Readers, Unscoped,
         SandboxWorkspaceOr, BeingOffered
    <2>4. Readers'
      BY <1>7
      DEF PendingDrafts, IInv, Readers, Unscoped, SandboxWorkspaceOr,
         BeingOffered, Idle, Exited
    <2>5. EntryTruth'
      BY <1>7, EntryOfType
      DEF PendingDrafts, IInv, TypeOK, Readers, EntryTruth, Unscoped,
         SandboxWorkspaceOr, BeingRead, BeingOffered
    <2>6. LateReads'
      BY <1>7 DEF PendingDrafts, IInv, LateReads
    <2> QED BY <2>1, <2>2, <2>3, <2>4, <2>5, <2>6 DEF IInv
  <1>8. ASSUME NEW w \in Workers, PendingDraftsFail(w) PROVE IInv'
    <2>1. TypeOK'
      BY <1>8, ConstantEntries DEF PendingDraftsFail, IInv, TypeOK
    <2>2. BeforeMark'
      BY <1>8 DEF PendingDraftsFail, IInv, BeforeMark, Readers
    <2>3. Untouched'
      BY <1>8
      DEF PendingDraftsFail, IInv, Untouched, Readers, Unscoped,
         SandboxWorkspaceOr, BeingOffered
    <2>4. Readers'
      BY <1>8
      DEF PendingDraftsFail, IInv, Readers, Unscoped, SandboxWorkspaceOr,
         BeingOffered, Idle, Exited
    <2>5. EntryTruth'
      BY <1>8, ConstantEntries
      DEF PendingDraftsFail, IInv, TypeOK, EntryTruth, Unscoped,
         SandboxWorkspaceOr, BeingRead, BeingOffered
    <2>6. LateReads'
      BY <1>8 DEF PendingDraftsFail, IInv, LateReads
    <2> QED BY <2>1, <2>2, <2>3, <2>4, <2>5, <2>6 DEF IInv
  <1>9. ASSUME NEW w \in Workers, WorkerExit(w) PROVE IInv'
    <2>1. TypeOK'
      BY <1>9 DEF WorkerExit, IInv, TypeOK
    <2>2. BeforeMark'
      BY <1>9 DEF WorkerExit, BeforeMark
    <2>3. Untouched'
      BY <1>9 DEF WorkerExit, IInv, Untouched, BeingOffered
    <2>4. Readers'
      BY <1>9
      DEF WorkerExit, IInv, Readers, Unscoped, SandboxWorkspaceOr,
         BeingOffered, Exited
    <2>5. EntryTruth'
      BY <1>9
      DEF WorkerExit, IInv, EntryTruth, Unscoped, SandboxWorkspaceOr,
         BeingRead, BeingOffered, Idle
    <2>6. LateReads'
      BY <1>9 DEF WorkerExit, IInv, LateReads
    <2> QED BY <2>1, <2>2, <2>3, <2>4, <2>5, <2>6 DEF IInv
  <1>10. CASE CtxEnds
    <2>1. TypeOK'
      BY <1>10 DEF CtxEnds, IInv, TypeOK
    <2>2. BeforeMark'
      BY <1>10 DEF CtxEnds, IInv, BeforeMark
    <2>3. Untouched'
      BY <1>10
      DEF CtxEnds, IInv, Untouched, Unscoped, SandboxWorkspaceOr, BeingOffered
    <2>4. Readers'
      BY <1>10
      DEF CtxEnds, IInv, Readers, Unscoped, SandboxWorkspaceOr, BeingOffered
    <2>5. EntryTruth'
      BY <1>10
      DEF CtxEnds, IInv, EntryTruth, Unscoped, SandboxWorkspaceOr, BeingRead,
         BeingOffered
    <2>6. LateReads'
      BY <1>10 DEF CtxEnds, IInv, LateReads
    <2> QED BY <2>1, <2>2, <2>3, <2>4, <2>5, <2>6 DEF IInv
  <1>11. ASSUME NEW i \in Index, InboxChanges(i) PROVE IInv'
    <2>1. TypeOK'
      BY <1>11 DEF InboxChanges, IInv, TypeOK
    <2>2. BeforeMark'
      BY <1>11 DEF InboxChanges, IInv, BeforeMark
    <2>3. Untouched'
      BY <1>11
      DEF InboxChanges, IInv, Untouched, Unscoped, SandboxWorkspaceOr,
         BeingOffered
    <2>4. Readers'
      BY <1>11
      DEF InboxChanges, IInv, Readers, Unscoped, SandboxWorkspaceOr,
         BeingOffered
    <2>5. EntryTruth'
      <3> SUFFICES ASSUME NEW k \in Index PROVE EntryTruth!(k)'
        BY DEF EntryTruth
      <3>1. sandboxes' = sandboxes /\ read' = read /\ entries' = entries /\ pc' = pc
            /\ (BeingRead(k)' <=> BeingRead(k)) /\ (BeingOffered(k)' <=> BeingOffered(k))
            /\ (Unscoped(k)' <=> Unscoped(k))
        BY <1>11
        DEF InboxChanges, Unscoped, SandboxWorkspaceOr, BeingRead,
           BeingOffered
      <3>2. seen[k] \subseteq seen'[k] /\ inbox'[k] \in seen'[k]
        BY <1>11 DEF InboxChanges, IInv, TypeOK, EntryTruth
      <3> QED BY <3>1, <3>2 DEF IInv, EntryTruth
    <2>6. LateReads'
      BY <1>11 DEF InboxChanges, IInv, LateReads
    <2> QED BY <2>1, <2>2, <2>3, <2>4, <2>5, <2>6 DEF IInv
  <1>12. CASE UNCHANGED vars
    BY <1>12
    DEF vars, IInv, TypeOK, BeforeMark, Untouched, Readers, EntryTruth,
       LateReads, Unscoped, SandboxWorkspaceOr, BeingRead, BeingOffered
  <1> QED
    BY <1>1, <1>2, <1>3, <1>4, <1>5, <1>6, <1>7, <1>8, <1>9, <1>10, <1>11,
       <1>12
    DEF Next, Dispatcher, Worker
\* The invariant that carries the properties below.
LEMMA Inductive == Spec => []IInv
  BY InitIInv, StepIInv, PTL DEF Spec

\* Every variable keeps its type, for every listing and every pool.
THEOREM TypeCorrect == Spec => []TypeOK
  <1>1. IInv => TypeOK
    BY DEF IInv
  <1> QED BY <1>1, Inductive, PTL

\* The answer of summarizeDrafts never says of a sandbox what was not so at
\* some moment since the request: none is left out that was not read.
THEOREM AnswersAreTrue == Spec => []AnswerIsTrue
  <1>1. IInv => AnswerIsTrue
    <2> SUFFICES ASSUME IInv, pc = "answered",
                        NEW i \in Index, ~sandboxes[i].isNil
                 PROVE  /\ entries[i].kind = "none" => seen[i] \cap {0, Gone} # {}
                        /\ entries[i].kind = "pending" =>
                             entries[i].count > 0 /\ entries[i].count \in seen[i]
                        /\ Unscoped(i) => entries[i] = Unavailable
      BY DEF AnswerIsTrue
    <2>1. ~BeingRead(i)
      BY DEF IInv, Readers, BeingRead, Exited, Index
    <2>2. ~BeingOffered(i)
      BY DEF BeingOffered
    <2> QED BY <2>1, <2>2 DEF IInv, EntryTruth
  <1> QED BY <1>1, Inductive, PTL

\* The slices the goroutines share are never written at one position by two.
THEOREM SlotsAreExclusive == Spec => []NoSharedSlot
  <1>1. IInv => NoSharedSlot
    BY DEF IInv, Readers, NoSharedSlot
  <1> QED BY <1>1, Inductive, PTL

\* At most one read is started after the context has ended.
THEOREM LateReadsAreFew == Spec => []FewLateReads
  <1>1. IInv => FewLateReads
    BY DEF IInv, LateReads, FewLateReads
  <1> QED BY <1>1, Inductive, PTL
=============================================================================
