------------------------- MODULE WorkspacePageProofs -------------------------
(* Proofs about the page of a workspace, for all sets of workspaces, sandboxes, scopes and profiles, and any number of *)
(* steps: what is deleted was asked about where it is deleted, and a deletion announced as a success has happened.     *)
EXTENDS WorkspacePage, TLAPS

Nothing == SandboxTab!Nothing

RunFields == {"workspace", "asked", "pending", "rejected", "refetching", "outcomes", "gone", "untold"}

(* A question that is open was asked in the workspace that is shown. *)
QuestionIsHere == question # Nothing => question.workspace = scope.workspace

(* The deletion under way is in the workspace that it was asked in, of what was asked, and whatever of it was answered *)
(* is gone, or was answered without an outcome, or its answer keeps the whole from being a success.                    *)
RunIsAsAsked ==
    run # Nothing =>
        /\ DOMAIN run = RunFields
        /\ run.workspace \in Workspaces
        /\ run.asked.workspace = run.workspace
        /\ run.pending \subseteq run.asked.names
        /\ \A n \in run.asked.names \ run.pending :
              n \in run.gone \union run.untold \/ run.rejected \/ "unspecified" \in run.outcomes \/ "accepted" \in run.outcomes
        /\ run.refetching => run.pending = {}

ScopeOK == DOMAIN scope = {"workspace", "selector"} /\ scope.workspace \in Workspaces

SandboxesInv ==
    /\ ScopeOK
    /\ DOMAIN sandboxes = Workspaces
    /\ QuestionIsHere
    /\ RunIsAsAsked

LEMMA NothingIsNoRun == DOMAIN Nothing # RunFields
  <1>1. DOMAIN Nothing = {"nothing"}
    BY DEF Nothing, SandboxTab!Nothing
  <1>2. "pending" \in RunFields /\ "pending" \notin {"nothing"}
    BY DEF RunFields
  <1> QED BY <1>1, <1>2

-----------------------------------------------------------------------------
LEMMA SandboxesInit == SandboxTab!Init => SandboxesInv
  <1> SUFFICES ASSUME SandboxTab!Init PROVE SandboxesInv
    OBVIOUS
  <1>1. (CHOOSE w \in Workspaces : TRUE) \in Workspaces
    BY PageAssumption
  <1>2. ScopeOK
    BY <1>1 DEF SandboxTab!Init, ScopeOK
  <1>3. DOMAIN sandboxes = Workspaces
    BY DEF SandboxTab!Init
  <1>4. question = Nothing /\ run = Nothing
    BY DEF SandboxTab!Init, Nothing
  <1> QED BY <1>2, <1>3, <1>4 DEF SandboxesInv, QuestionIsHere, RunIsAsAsked

(* The list is read, turned, filtered and selected from, and others create and delete. *)
LEMMA ListStep ==
    ASSUME SandboxesInv,
           \/ SandboxTab!Poll \/ SandboxTab!Fetched \/ SandboxTab!FetchFails \/ SandboxTab!OthersCreateOrDelete
           \/ SandboxTab!NextPage \/ SandboxTab!Previous \/ SandboxTab!PerPageSelect \/ SandboxTab!StartAtFirstPage
           \/ SandboxTab!ApplyFilters
           \/ SandboxTab!FilterByName \/ SandboxTab!ToggleOne \/ SandboxTab!ToggleAll
    PROVE  SandboxesInv' /\ run' = run
  <1>1. question' = question /\ run' = run
    BY DEF SandboxTab!Poll, SandboxTab!Fetched, SandboxTab!FetchFails, SandboxTab!OthersCreateOrDelete,
           SandboxTab!NextPage, SandboxTab!Previous, SandboxTab!PerPageSelect, SandboxTab!StartAtFirstPage,
           SandboxTab!Turns, SandboxTab!ApplyFilters, SandboxTab!FilterByName, SandboxTab!ToggleOne,
           SandboxTab!ToggleAll
  <1>2. scope' = scope \/ \E s \in Selectors : scope' = [scope EXCEPT !.selector = s]
    BY DEF SandboxTab!Poll, SandboxTab!Fetched, SandboxTab!FetchFails, SandboxTab!OthersCreateOrDelete,
           SandboxTab!NextPage, SandboxTab!Previous, SandboxTab!PerPageSelect, SandboxTab!StartAtFirstPage,
           SandboxTab!Turns, SandboxTab!ApplyFilters, SandboxTab!FilterByName, SandboxTab!ToggleOne,
           SandboxTab!ToggleAll
  <1>3. DOMAIN sandboxes' = DOMAIN sandboxes
    BY DEF SandboxTab!Poll, SandboxTab!Fetched, SandboxTab!FetchFails, SandboxTab!OthersCreateOrDelete,
           SandboxTab!NextPage, SandboxTab!Previous, SandboxTab!PerPageSelect, SandboxTab!StartAtFirstPage,
           SandboxTab!Turns, SandboxTab!ApplyFilters, SandboxTab!FilterByName, SandboxTab!ToggleOne,
           SandboxTab!ToggleAll
  <1>4. ScopeOK' /\ scope'.workspace = scope.workspace
    BY <1>2 DEF SandboxesInv, ScopeOK
  <1> QED BY <1>1, <1>3, <1>4 DEF SandboxesInv, QuestionIsHere, RunIsAsAsked

(* A question is asked in the workspace that is shown, and goes when another one is. *)
LEMMA QuestionStep ==
    ASSUME SandboxesInv,
           \/ SandboxTab!DeleteSelected \/ SandboxTab!DeleteRow \/ SandboxTab!CancelDelete
           \/ SandboxTab!GoToWorkspace
    PROVE  SandboxesInv' /\ run' = run
  <1>1. run' = run /\ sandboxes' = sandboxes
    BY DEF SandboxTab!DeleteSelected, SandboxTab!DeleteRow, SandboxTab!Ask, SandboxTab!CancelDelete,
           SandboxTab!GoToWorkspace
  <1>2. CASE SandboxTab!GoToWorkspace
    <2>1. question' = Nothing /\ \E w \in Workspaces : scope' = [scope EXCEPT !.workspace = w]
      BY <1>2 DEF SandboxTab!GoToWorkspace, SandboxTab!QuestionInWorkspace, Nothing
    <2>2. ScopeOK'
      BY <2>1 DEF SandboxesInv, ScopeOK
    <2> QED BY <1>1, <2>1, <2>2 DEF SandboxesInv, QuestionIsHere, RunIsAsAsked
  <1>3. CASE SandboxTab!CancelDelete
    <2>1. question' = Nothing /\ scope' = scope
      BY <1>3 DEF SandboxTab!CancelDelete, Nothing
    <2> QED BY <1>1, <2>1 DEF SandboxesInv, ScopeOK, QuestionIsHere, RunIsAsAsked
  <1>4. CASE SandboxTab!DeleteSelected \/ SandboxTab!DeleteRow
    <2>1. \E names : SandboxTab!Ask(names)
      BY <1>4 DEF SandboxTab!DeleteSelected, SandboxTab!DeleteRow
    <2>2. question'.workspace = scope.workspace /\ scope' = scope
      BY <2>1 DEF SandboxTab!Ask
    <2> QED BY <1>1, <2>2 DEF SandboxesInv, ScopeOK, QuestionIsHere, RunIsAsAsked
  <1> QED BY <1>2, <1>3, <1>4

LEMMA ConfirmStep ==
    ASSUME SandboxesInv, SandboxTab!ConfirmDelete
    PROVE  SandboxesInv' /\ sandboxes' = sandboxes /\ run = Nothing
  <1>1. /\ question # Nothing /\ run = Nothing /\ sandboxes' = sandboxes /\ scope' = scope /\ question' = question
        /\ run' = [workspace |-> scope.workspace, asked |-> question, pending |-> question.names, rejected |-> FALSE,
                   refetching |-> FALSE, outcomes |-> {}, gone |-> {}, untold |-> {}]
    BY DEF SandboxTab!ConfirmDelete, Nothing
  <1>2. question.workspace = scope.workspace /\ scope.workspace \in Workspaces
    BY <1>1 DEF SandboxesInv, QuestionIsHere, ScopeOK
  <1>3. /\ DOMAIN run' = RunFields
        /\ run'.workspace = scope.workspace /\ run'.asked = question /\ run'.pending = question.names
        /\ run'.refetching = FALSE
    BY <1>1 DEF RunFields
  <1>4. RunIsAsAsked'
    BY <1>2, <1>3 DEF RunIsAsAsked
  <1> QED BY <1>1, <1>4 DEF SandboxesInv, ScopeOK, QuestionIsHere

(* One answer: the sandbox is gone, or the answer is one that keeps the whole from being a success. *)
LEMMA DeleteStep ==
    ASSUME SandboxesInv, SandboxTab!DeleteSandbox
    PROVE  /\ SandboxesInv' /\ run # Nothing /\ run' # Nothing
           /\ run'.asked = run.asked
           /\ \A w \in Workspaces : \A n \in sandboxes[w] \ sandboxes'[w] :
                 w = run.asked.workspace /\ n \in run.asked.names
  <1>1. PICK n \in run.pending, answer \in SandboxTab!Outcomes \union {"another number", "no outcome", "error"} :
          /\ SandboxTab!GatewayDeletes(run.workspace, n, answer)
          /\ run' = [run EXCEPT !.pending = @ \ {n}, !.rejected = @ \/ answer = "error",
                                !.outcomes = IF answer = "error" THEN @
                                             ELSE @ \union {SandboxTab!DeletionOutcome(SandboxTab!FromSDKDeletion(answer))},
                                !.gone = IF n \in sandboxes'[run.workspace] THEN @ ELSE @ \union {n},
                                !.untold = IF answer = "no outcome" THEN @ \union {n} ELSE @]
    BY DEF SandboxTab!DeleteSandbox
  <1>2. run # Nothing /\ scope' = scope /\ question' = question
    BY DEF SandboxTab!DeleteSandbox, Nothing
  <1>3. /\ DOMAIN run = RunFields /\ run.workspace \in Workspaces /\ run.asked.workspace = run.workspace
        /\ run.pending \subseteq run.asked.names
        /\ \A k \in run.asked.names \ run.pending :
              k \in run.gone \union run.untold \/ run.rejected \/ "unspecified" \in run.outcomes \/ "accepted" \in run.outcomes
        /\ run.refetching => run.pending = {}
    BY <1>2 DEF SandboxesInv, RunIsAsAsked
  <1>4. /\ DOMAIN run' = RunFields /\ run'.workspace = run.workspace /\ run'.asked = run.asked
        /\ run'.refetching = run.refetching /\ run'.pending = run.pending \ {n}
        /\ run'.rejected = (run.rejected \/ answer = "error")
        /\ run'.outcomes = IF answer = "error" THEN run.outcomes
                           ELSE run.outcomes \union {SandboxTab!DeletionOutcome(SandboxTab!FromSDKDeletion(answer))}
        /\ run'.gone = IF n \in sandboxes'[run.workspace] THEN run.gone ELSE run.gone \union {n}
        /\ run'.untold = IF answer = "no outcome" THEN run.untold \union {n} ELSE run.untold
    BY <1>1, <1>3 DEF RunFields
  <1>5. PICK left \in {sandboxes[run.workspace] \ {n}, sandboxes[run.workspace]} :
          /\ answer = "completed" => n \notin left
          /\ sandboxes' = [sandboxes EXCEPT ![run.workspace] = left]
    BY <1>1 DEF SandboxTab!GatewayDeletes
  <1>6. /\ DOMAIN sandboxes' = Workspaces /\ sandboxes'[run.workspace] = left
        /\ \A w \in Workspaces : w # run.workspace => sandboxes'[w] = sandboxes[w]
    BY <1>3, <1>5 DEF SandboxesInv
  <1>7. \/ n \in run'.gone \union run'.untold \/ run'.rejected \/ "unspecified" \in run'.outcomes \/ "accepted" \in run'.outcomes
    <2>1. CASE n \notin left
      BY <1>4, <1>6, <2>1
    <2>2. CASE answer = "error"
      BY <1>4, <2>2
    <2>4. CASE answer = "no outcome"
      BY <1>4, <2>4
    <2>3. CASE answer \notin {"error", "no outcome"} /\ n \in left
      <3>1. answer # "completed"
        BY <1>5, <2>3
      <3>2. answer # "already_absent"
        BY <1>1, <1>5, <2>3 DEF SandboxTab!GatewayDeletes
      <3>3. answer \in {"accepted", "another number"}
        BY <2>3, <3>1, <3>2 DEF SandboxTab!Outcomes
      <3>4. SandboxTab!DeletionOutcome(SandboxTab!FromSDKDeletion(answer)) \in {"accepted", "unspecified"}
        BY <3>3 DEF SandboxTab!DeletionOutcome, SandboxTab!FromSDKDeletion, SandboxTab!Outcomes
      <3> QED BY <1>4, <2>3, <3>4
    <2> QED BY <2>1, <2>2, <2>3, <2>4
  <1>8. \A k \in run.asked.names \ run'.pending :
           k \in run'.gone \union run'.untold \/ run'.rejected \/ "unspecified" \in run'.outcomes \/ "accepted" \in run'.outcomes
    <2>1. ASSUME NEW k \in run.asked.names \ run.pending
          PROVE  k \in run'.gone \union run'.untold \/ run'.rejected \/ "unspecified" \in run'.outcomes \/ "accepted" \in run'.outcomes
      BY <1>3, <1>4, <2>1
    <2> QED BY <1>4, <1>7, <2>1
  <1>9. RunIsAsAsked'
    BY <1>3, <1>4, <1>8 DEF RunIsAsAsked
  <1>10. run' # Nothing
    BY NothingIsNoRun, <1>4
  <1>11. \A w \in Workspaces : \A k \in sandboxes[w] \ sandboxes'[w] :
            w = run.asked.workspace /\ k \in run.asked.names
    BY <1>3, <1>5, <1>6
  <1> QED BY <1>2, <1>4, <1>6, <1>9, <1>10, <1>11 DEF SandboxesInv, ScopeOK, QuestionIsHere

LEMMA RefetchStep ==
    ASSUME SandboxesInv, SandboxTab!InvalidateQueries
    PROVE  SandboxesInv' /\ sandboxes' = sandboxes /\ run' # Nothing
  <1>1. /\ run # Nothing /\ run.pending = {} /\ run' = [run EXCEPT !.refetching = TRUE]
        /\ sandboxes' = sandboxes /\ scope' = scope /\ question' = question
    BY DEF SandboxTab!InvalidateQueries, Nothing
  <1>2. /\ DOMAIN run' = RunFields /\ run'.workspace = run.workspace /\ run'.asked = run.asked
        /\ run'.pending = run.pending /\ run'.rejected = run.rejected /\ run'.outcomes = run.outcomes
        /\ run'.gone = run.gone /\ run'.untold = run.untold
    BY <1>1 DEF SandboxesInv, RunIsAsAsked, RunFields
  <1>3. RunIsAsAsked'
    BY <1>1, <1>2 DEF SandboxesInv, RunIsAsAsked
  <1>4. run' # Nothing
    BY NothingIsNoRun, <1>2
  <1> QED BY <1>1, <1>3, <1>4 DEF SandboxesInv, ScopeOK, QuestionIsHere

LEMMA RunEndsStep ==
    ASSUME SandboxesInv, SandboxTab!RunEnds
    PROVE  /\ SandboxesInv' /\ sandboxes' = sandboxes
           /\ ~run.rejected /\ SandboxTab!DescribeDeletions(run.outcomes) = "success"
              => run.asked.names \subseteq run.gone \union run.untold
  <1>1. /\ run # Nothing /\ run.refetching /\ run' = Nothing
        /\ question' = question \/ question' = Nothing
        /\ sandboxes' = sandboxes /\ scope' = scope
    BY DEF SandboxTab!RunEnds, Nothing
  <1>2. SandboxesInv'
    BY <1>1 DEF SandboxesInv, ScopeOK, QuestionIsHere, RunIsAsAsked
  <1>3. /\ run.pending = {}
        /\ \A n \in run.asked.names \ run.pending :
              n \in run.gone \union run.untold \/ run.rejected \/ "unspecified" \in run.outcomes \/ "accepted" \in run.outcomes
    BY <1>1 DEF SandboxesInv, RunIsAsAsked
  <1>4. SandboxTab!DescribeDeletions(run.outcomes) = "success" =>
           "unspecified" \notin run.outcomes /\ "accepted" \notin run.outcomes
    BY DEF SandboxTab!DescribeDeletions
  <1> QED BY <1>1, <1>2, <1>3, <1>4

-----------------------------------------------------------------------------
allPageVars == <<activeTab, vars, sandboxVars>>

LEMMA SandboxesStutter == ASSUME SandboxesInv, UNCHANGED sandboxVars
                          PROVE  SandboxesInv' /\ sandboxes' = sandboxes /\ run' = run
  <1>1. scope' = scope /\ sandboxes' = sandboxes /\ question' = question /\ run' = run
    BY DEF sandboxVars
  <1> QED BY <1>1 DEF SandboxesInv, ScopeOK, QuestionIsHere, RunIsAsAsked

(* What a step of the page does with the sandboxes: nothing, or a step of their tab. *)
LEMMA SandboxesNext == ASSUME [PageNext]_allPageVars PROVE UNCHANGED sandboxVars \/ SandboxTab!Next
  BY DEF PageNext, allPageVars

LEMMA SandboxesInductive == SandboxesInv /\ [PageNext]_allPageVars => SandboxesInv'
  <1> SUFFICES ASSUME SandboxesInv, [PageNext]_allPageVars PROVE SandboxesInv'
    OBVIOUS
  <1>1. CASE UNCHANGED sandboxVars
    BY <1>1, SandboxesStutter
  <1>2. CASE SandboxTab!Next
    BY <1>2, ListStep, QuestionStep, ConfirmStep, DeleteStep, RefetchStep, RunEndsStep DEF SandboxTab!Next
  <1> QED BY <1>1, <1>2, SandboxesNext

LEMMA SandboxesAlways == PageSpec => []SandboxesInv
  <1>1. PageInit => SandboxesInv
    BY SandboxesInit DEF PageInit
  <1>2. SandboxesInv /\ [PageNext]_allPageVars => SandboxesInv'
    BY SandboxesInductive
  <1> QED BY <1>1, <1>2, PTL DEF PageSpec, allPageVars

-----------------------------------------------------------------------------
(* A sandbox that a deletion of the page takes away was named in the question that this deletion confirmed, and the    *)
(* question was asked in the workspace it is taken from.                                                               *)
DeletesTheAsked ==
    \A w \in Workspaces, n \in Names :
        n \in sandboxes[w] \ sandboxes'[w] /\ run' # run => run.asked.workspace = w /\ n \in run.asked.names

(* A deletion that ends and is announced as a success has left nothing of what was asked but what nothing was said of. *)
EndsWithAllGone ==
    run # Nothing /\ run' = Nothing /\ ~run.rejected /\ SandboxTab!DescribeDeletions(run.outcomes) = "success"
        => run.asked.names \subseteq run.gone \union run.untold

LEMMA StepDeletes == SandboxesInv /\ [PageNext]_allPageVars => DeletesTheAsked /\ EndsWithAllGone
  <1> SUFFICES ASSUME SandboxesInv, [PageNext]_allPageVars PROVE DeletesTheAsked /\ EndsWithAllGone
    OBVIOUS
  <1>1. CASE run' = run
    BY <1>1 DEF DeletesTheAsked, EndsWithAllGone
  <1>2. CASE UNCHANGED sandboxVars
    BY <1>1, <1>2, SandboxesStutter
  <1>3. CASE SandboxTab!ConfirmDelete
    BY <1>3, ConfirmStep DEF DeletesTheAsked, EndsWithAllGone
  <1>4. CASE SandboxTab!DeleteSandbox
    BY <1>4, DeleteStep DEF DeletesTheAsked, EndsWithAllGone
  <1>5. CASE SandboxTab!InvalidateQueries
    BY <1>5, RefetchStep DEF DeletesTheAsked, EndsWithAllGone
  <1>6. CASE SandboxTab!RunEnds
    BY <1>6, RunEndsStep DEF DeletesTheAsked, EndsWithAllGone
  <1>7. CASE SandboxTab!Next
    BY <1>1, <1>3, <1>4, <1>5, <1>6, <1>7, ListStep, QuestionStep DEF SandboxTab!Next
  <1> QED BY <1>2, <1>7, SandboxesNext

(* The page deletes nothing but what was asked about, where it was asked about: the question that is open goes when    *)
(* another workspace is shown, and a deletion goes on in the workspace that it was confirmed in, whatever is shown     *)
(* meanwhile (SandboxListPage.tsx, deleteTargets and bulkDelete).                                                      *)
THEOREM OnlyTheAskedGoes == PageSpec => OnlyTheAskedIsDeleted
  <1>1. SandboxesInv /\ [PageNext]_allPageVars => [DeletesTheAsked]_SandboxTab!vars
    BY StepDeletes
  <1>2. OnlyTheAskedIsDeleted <=> [][DeletesTheAsked]_SandboxTab!vars
    BY DEF OnlyTheAskedIsDeleted, SandboxTab!OnlyTheAskedIsDeleted, DeletesTheAsked
  <1> QED BY <1>1, <1>2, SandboxesAlways, PTL DEF PageSpec, allPageVars

(* What is announced as deleted is gone, but for a sandbox whose deletion was answered without an outcome, which the   *)
(* code takes for done: an answer that the backend does not know, one that was only accepted and one that failed each  *)
(* keep the announcement from being a success, in every mix of answers (models/sdk_converters.go, FromSDKDeletion, and *)
(* utils/deletion.ts).                                                                                                 *)
THEOREM AnnouncedAsDeletedIsGone == PageSpec => SuccessMeansGone
  <1>1. SandboxesInv /\ [PageNext]_allPageVars => [EndsWithAllGone]_SandboxTab!vars
    BY StepDeletes
  <1>2. SuccessMeansGone <=> [][EndsWithAllGone]_SandboxTab!vars
    BY DEF SuccessMeansGone, SandboxTab!SuccessMeansGone, EndsWithAllGone, Nothing
  <1> QED BY <1>1, <1>2, SandboxesAlways, PTL DEF PageSpec, allPageVars

-----------------------------------------------------------------------------
(* The profiles. *)

WriteFields == {"n", "at", "kind", "scope", "profiles", "id", "expected", "opening", "of", "meant"}
WriteKinds == {"import", "create", "update", "delete"}

IsWrite(w) == DOMAIN w = WriteFields /\ w.kind \in WriteKinds /\ w.n \in 1 .. counts.writes

(* The dialog that waits for a write, if any does, is open, and is the one that sent it. *)
IsAwaitedByItsOwn(w) ==
    WriteOf(w.kind).n = w.n => open # None /\ open.kind = w.kind /\ open.nr = w.opening

Waits(write) == DOMAIN write = {"n", "at"}

PanelInv ==
    /\ DOMAIN counts = {"others", "exports", "drops", "opened", "writes"} /\ counts.writes \in Nat
    /\ DOMAIN importer = {"files", "check", "write"} /\ DOMAIN updater = {"files", "write"}
    /\ Waits(importer.write) /\ Waits(updater.write) /\ Waits(other)
    /\ \A w \in writes : IsWrite(w) /\ IsAwaitedByItsOwn(w)

LEMMA IdleWaits == Waits(Idle) /\ Idle.n = 0
  BY DEF Waits, Idle

LEMMA PanelInit == Init => PanelInv
  BY IdleWaits DEF Init, PanelInv

(* A dialog that lets go waits for nothing that was sent. *)
LEMMA ShutKeeps ==
    ASSUME PanelInv, Shut, open # None, counts' = counts, writes' \subseteq writes
    PROVE  PanelInv'
  <1>1. /\ DOMAIN importer' = {"files", "check", "write"} /\ DOMAIN updater' = {"files", "write"}
        /\ Waits(importer'.write) /\ Waits(updater'.write) /\ Waits(other')
    BY IdleWaits DEF Shut, PanelInv
  <1>2. /\ importer'.write = IF open.kind = "import" THEN Idle ELSE importer.write
        /\ updater'.write = IF open.kind = "update" THEN Idle ELSE updater.write
        /\ other' = IF open.kind \in {"create", "delete"} THEN Idle ELSE other
    BY DEF Shut
  <1>3. ASSUME NEW w \in writes' PROVE IsWrite(w)' /\ WriteOf(w.kind)'.n # w.n
    <2>1. IsWrite(w) /\ IsAwaitedByItsOwn(w) /\ counts.writes \in Nat
      BY <1>3 DEF PanelInv
    <2>2. w.n # 0
      BY <2>1 DEF IsWrite
    <2>3. WriteOf(w.kind)'.n # w.n
      BY <1>2, <2>1, <2>2, IdleWaits DEF WriteOf, IsAwaitedByItsOwn, IsWrite, WriteKinds
    <2> QED BY <2>1, <2>3 DEF IsWrite
  <1> QED BY <1>1, <1>3 DEF PanelInv, IsAwaitedByItsOwn

(* What keeps the writes and who waits for them as they are. *)
LEMMA SameWritesKeep ==
    ASSUME PanelInv, writes' = writes, other' = other,
           DOMAIN importer' = DOMAIN importer, DOMAIN updater' = DOMAIN updater,
           importer'.write \in {importer.write, Idle}, updater'.write \in {updater.write, Idle},
           DOMAIN counts' = DOMAIN counts, counts'.writes = counts.writes,
           open' = open \/ open = None
    PROVE  PanelInv'
  <1>1. Waits(importer'.write) /\ Waits(updater'.write)
    BY IdleWaits DEF PanelInv
  <1>2. ASSUME NEW w \in writes' PROVE IsWrite(w)' /\ IsAwaitedByItsOwn(w)'
    <2>1. IsWrite(w) /\ IsAwaitedByItsOwn(w) /\ counts.writes \in Nat
      BY <1>2 DEF PanelInv
    <2>2. w.n # 0 /\ w.kind \in WriteKinds
      BY <2>1 DEF IsWrite
    <2>3. WriteOf(w.kind)'.n = w.n => WriteOf(w.kind).n = w.n
      BY <2>2, IdleWaits DEF WriteOf
    <2> QED BY <2>1, <2>3 DEF IsWrite, IsAwaitedByItsOwn
  <1> QED BY <1>1, <1>2 DEF PanelInv

LEMMA CountKeeps ==
    ASSUME PanelInv, NEW what \in {"others", "exports", "drops", "opened"}, NEW max, Count(what, max)
    PROVE  DOMAIN counts' = DOMAIN counts /\ counts'.writes = counts.writes
  BY DEF Count, PanelInv

(* Neither the gateway nor others, nor what is listed, exported, dropped or removed, nor what opens. *)
LEMMA QuietSteps ==
    ASSUME PanelInv,
           \/ OthersWrite \/ Poll \/ ExportProfile \/ Drop \/ Add \/ RemoveFile \/ Checked
           \/ ImportFromFiles \/ UpdateFromFile \/ CreateProfile \/ AskToDelete
    PROVE  PanelInv' /\ writes' = writes
  <1>1. writes' = writes /\ other' = other
    BY DEF OthersWrite, Poll, ExportProfile, Drop, Add, RemoveFile, Checked, ImportFromFiles, UpdateFromFile,
           CreateProfile, AskToDelete
  <1>2. counts' = counts \/ \E what \in {"others", "exports", "drops", "opened"} : \E max : Count(what, max)
    BY DEF OthersWrite, Poll, ExportProfile, Drop, Add, RemoveFile, Checked, ImportFromFiles, UpdateFromFile,
           CreateProfile, AskToDelete, OpenDialog
  <1>3. open' = open \/ open = None
    BY DEF OthersWrite, Poll, ExportProfile, Drop, Add, RemoveFile, Checked, ImportFromFiles, UpdateFromFile,
           CreateProfile, AskToDelete, OpenDialog
  <1>4. \/ importer' = importer
        \/ \E files : importer' = Choose(files)
        \/ \E answer : importer' = [importer EXCEPT !.check.at = answer]
    BY DEF OthersWrite, Poll, ExportProfile, Drop, Add, RemoveFile, Checked, ImportFromFiles, UpdateFromFile,
           CreateProfile, AskToDelete
  <1>5. updater' = updater \/ \E files : updater' = [files |-> files, write |-> Idle]
    BY DEF OthersWrite, Poll, ExportProfile, Drop, Add, RemoveFile, Checked, ImportFromFiles, UpdateFromFile,
           CreateProfile, AskToDelete
  <1>6. DOMAIN importer' = DOMAIN importer /\ importer'.write \in {importer.write, Idle}
    BY <1>4 DEF Choose, PanelInv
  <1>7. DOMAIN updater' = DOMAIN updater /\ updater'.write \in {updater.write, Idle}
    BY <1>5 DEF PanelInv
  <1>8. DOMAIN counts' = DOMAIN counts /\ counts'.writes = counts.writes
    BY <1>2, CountKeeps
  <1> QED BY <1>1, <1>3, <1>6, <1>7, <1>8, SameWritesKeep

(* A request that is answered or lost is the same request. *)
LEMMA RequestSteps ==
    ASSUME PanelInv, Handle \/ RequestFails
    PROVE  PanelInv' /\ open' = open
  <1>1. PICK w \in writes : \E at : writes' = (writes \ {w}) \union {[w EXCEPT !.at = at]}
    BY DEF Handle, RequestFails
  <1>2. PICK at : writes' = (writes \ {w}) \union {[w EXCEPT !.at = at]}
    BY <1>1
  <1>3. open' = open /\ importer' = importer /\ updater' = updater /\ other' = other /\ counts' = counts
    BY DEF Handle, RequestFails
  <1> DEFINE v == [w EXCEPT !.at = at]
  <1>4. IsWrite(w) /\ IsAwaitedByItsOwn(w)
    BY DEF PanelInv
  <1>5. DOMAIN v = WriteFields /\ v.kind = w.kind /\ v.n = w.n /\ v.opening = w.opening
    BY <1>4 DEF IsWrite, WriteFields
  <1> HIDE DEF v
  <1>6. IsWrite(v) /\ IsAwaitedByItsOwn(v)
    BY <1>4, <1>5 DEF IsWrite, IsAwaitedByItsOwn
  <1>7. \A u \in writes' : IsWrite(u) /\ IsAwaitedByItsOwn(u)
    BY <1>2, <1>6 DEF PanelInv, v
  <1> QED BY <1>3, <1>7 DEF PanelInv, IsWrite, IsAwaitedByItsOwn, WriteOf

(* Another panel waits for nothing. *)
LEMMA VisitStep == ASSUME PanelInv, Visit PROVE PanelInv' /\ writes' = writes
  <1>1. /\ writes' = writes /\ other' = Idle
        /\ importer' = [files |-> <<>>, check |-> Idle, write |-> Idle] /\ updater' = [files |-> <<>>, write |-> Idle]
        /\ Count("opened", MaxOpened)
    BY DEF Visit
  <1>2. DOMAIN counts' = DOMAIN counts /\ counts'.writes = counts.writes
    BY <1>1, CountKeeps
  <1>3. /\ DOMAIN importer' = {"files", "check", "write"} /\ DOMAIN updater' = {"files", "write"}
        /\ importer'.write = Idle /\ updater'.write = Idle
    BY <1>1
  <1>4. ASSUME NEW w \in writes' PROVE IsWrite(w)' /\ IsAwaitedByItsOwn(w)'
    <2>1. IsWrite(w) /\ counts.writes \in Nat
      BY <1>1, <1>4 DEF PanelInv
    <2>2. w.n # 0
      BY <2>1 DEF IsWrite
    <2> QED BY <1>1, <1>2, <1>3, <2>1, <2>2, IdleWaits DEF IsWrite, IsAwaitedByItsOwn, WriteOf
  <1> QED BY <1>1, <1>2, <1>3, <1>4, IdleWaits DEF PanelInv

(* What a dialog sends: a new write, that it waits for. Only an update is of a file that was exported. *)
IsSentNow(w) ==
    /\ Send(w) /\ open # None /\ open' = open /\ w.kind \in WriteKinds
    /\ DOMAIN w = WriteFields /\ w.n = counts.writes + 1 /\ w.kind = open.kind /\ w.opening = open.nr
    /\ w.at = "sent" /\ w.scope = panel
    /\ importer' = IF w.kind = "import" THEN [importer EXCEPT !.write = Pending] ELSE importer
    /\ updater' = IF w.kind = "update" THEN [updater EXCEPT !.write = Pending] ELSE updater
    /\ other' = IF w.kind \in {"create", "delete"} THEN Pending ELSE other
    /\ w.of # None => /\ w.kind = "update" /\ CanUpdate /\ w.id = open.target.id
                      /\ w.of = updater.files[1].file.of
                      /\ w.expected = updater.files[1].profile.resourceVersion

LEMMA WhatIsSent ==
    ASSUME SubmitImport \/ SubmitUpdate \/ SubmitForm \/ ConfirmDelete
    PROVE  (\E w : IsSentNow(w)) /\ UNCHANGED <<gw, disk, panel, listed, reading>>
  <1>1. CASE SubmitImport
    <2> DEFINE w == [Request("import", ProfilesOf(importer.files), "", 0) EXCEPT
                        !.meant = SeqMap(LAMBDA f : f.file.meant, Readable(importer.files))]
    <2>1. /\ Send(w) /\ open # None /\ open' = open /\ open.kind = "import"
          /\ importer' = [importer EXCEPT !.write = Pending] /\ updater' = updater /\ other' = other
          /\ UNCHANGED <<gw, disk, panel, listed, reading>>
      BY <1>1 DEF SubmitImport
    <2>2. /\ DOMAIN w = WriteFields /\ w.n = counts.writes + 1 /\ w.kind = "import" /\ w.opening = open.nr
          /\ w.at = "sent" /\ w.scope = panel /\ w.of = None
      BY DEF Request, WriteFields
    <2> HIDE DEF w
    <2>3. IsSentNow(w)
      BY <2>1, <2>2 DEF WriteKinds, IsSentNow
    <2> QED BY <2>1, <2>3
  <1>2. CASE SubmitUpdate
    <2> DEFINE f == updater.files[1]
               w == [Request("update", <<f.profile>>, open.target.id, f.profile.resourceVersion) EXCEPT
                        !.of = f.file.of, !.meant = <<f.file.meant>>]
    <2>1. /\ Send(w) /\ open # None /\ open' = open /\ open.kind = "update" /\ CanUpdate
          /\ updater' = [updater EXCEPT !.write = Pending] /\ importer' = importer /\ other' = other
          /\ UNCHANGED <<gw, disk, panel, listed, reading>>
      BY <1>2 DEF SubmitUpdate
    <2>2. /\ DOMAIN w = WriteFields /\ w.n = counts.writes + 1 /\ w.kind = "update" /\ w.opening = open.nr
          /\ w.at = "sent" /\ w.scope = panel /\ w.of = f.file.of /\ w.id = open.target.id
          /\ w.expected = f.profile.resourceVersion
      BY DEF Request, WriteFields
    <2> HIDE DEF w
    <2>3. IsSentNow(w)
      BY <2>1, <2>2 DEF WriteKinds, IsSentNow
    <2> QED BY <2>1, <2>3
  <1>3. CASE SubmitForm
    <2> DEFINE w == [Request("create", <<ProfileOfForm(open.form)>>, open.form.id, 0) EXCEPT
                        !.meant = <<MeaningOfForm(open.form)>>]
    <2>1. /\ Send(w) /\ open # None /\ open' = open /\ open.kind = "create"
          /\ importer' = importer /\ updater' = updater /\ other' = Pending
          /\ UNCHANGED <<gw, disk, panel, listed, reading>>
      BY <1>3 DEF SubmitForm
    <2>2. /\ DOMAIN w = WriteFields /\ w.n = counts.writes + 1 /\ w.kind = "create" /\ w.opening = open.nr
          /\ w.at = "sent" /\ w.scope = panel /\ w.of = None
      BY DEF Request, WriteFields
    <2> HIDE DEF w
    <2>3. IsSentNow(w)
      BY <2>1, <2>2 DEF WriteKinds, IsSentNow
    <2> QED BY <2>1, <2>3
  <1>4. CASE ConfirmDelete
    <2> DEFINE w == Request("delete", <<>>, open.target.id, 0)
    <2>1. /\ Send(w) /\ open # None /\ open' = open /\ open.kind = "delete"
          /\ importer' = importer /\ updater' = updater /\ other' = Pending
          /\ UNCHANGED <<gw, disk, panel, listed, reading>>
      BY <1>4 DEF ConfirmDelete
    <2>2. /\ DOMAIN w = WriteFields /\ w.n = counts.writes + 1 /\ w.kind = "delete" /\ w.opening = open.nr
          /\ w.at = "sent" /\ w.scope = panel /\ w.of = None
      BY DEF Request, WriteFields
    <2> HIDE DEF w
    <2>3. IsSentNow(w)
      BY <2>1, <2>2 DEF WriteKinds, IsSentNow
    <2> QED BY <2>1, <2>3
  <1> QED BY <1>1, <1>2, <1>3, <1>4

(* A write that is sent is a new one, and the dialog that sends it waits for it. *)
LEMMA SendSteps ==
    ASSUME PanelInv, SubmitImport \/ SubmitUpdate \/ SubmitForm \/ ConfirmDelete
    PROVE  PanelInv' /\ open' = open
  <1>1. PICK w : IsSentNow(w)
    BY WhatIsSent
  <1>2. /\ Send(w) /\ open # None /\ open' = open
        /\ DOMAIN w = WriteFields /\ w.n = counts.writes + 1 /\ w.kind = open.kind /\ w.opening = open.nr
        /\ importer' = IF w.kind = "import" THEN [importer EXCEPT !.write = Pending] ELSE importer
        /\ updater' = IF w.kind = "update" THEN [updater EXCEPT !.write = Pending] ELSE updater
        /\ other' = IF w.kind \in {"create", "delete"} THEN Pending ELSE other
        /\ w.kind \in WriteKinds
    BY <1>1 DEF IsSentNow
  <1>3. writes' = writes \union {w} /\ DOMAIN counts' = DOMAIN counts /\ counts'.writes = counts.writes + 1
    BY <1>2 DEF Send, Count, PanelInv
  <1>4. Waits(Pending) /\ Pending.n = counts.writes + 1
    BY DEF Waits, Pending
  <1>5. /\ DOMAIN importer' = DOMAIN importer /\ DOMAIN updater' = DOMAIN updater
        /\ importer'.write = IF w.kind = "import" THEN Pending ELSE importer.write
        /\ updater'.write = IF w.kind = "update" THEN Pending ELSE updater.write
    BY <1>2 DEF PanelInv
  <1>6. IsWrite(w)' /\ IsAwaitedByItsOwn(w)'
    BY <1>2, <1>3 DEF IsWrite, IsAwaitedByItsOwn, PanelInv
  <1>7. ASSUME NEW v \in writes PROVE IsWrite(v)' /\ IsAwaitedByItsOwn(v)'
    <2>1. IsWrite(v) /\ IsAwaitedByItsOwn(v) /\ counts.writes \in Nat
      BY DEF PanelInv
    <2>2. v.n \in 1 .. counts.writes /\ v.kind \in WriteKinds
      BY <2>1 DEF IsWrite
    <2>3. WriteOf(v.kind)'.n = v.n => WriteOf(v.kind).n = v.n
      BY <1>2, <1>4, <1>5, <2>1, <2>2 DEF WriteOf, WriteKinds
    <2> QED BY <1>2, <1>3, <2>1, <2>3 DEF IsWrite, IsAwaitedByItsOwn
  <1> QED BY <1>2, <1>3, <1>4, <1>5, <1>6, <1>7 DEF PanelInv

(* An answer reaches the opening of the dialog that waits for it, or nothing. *)
LEMMA AnsweredStep ==
    ASSUME PanelInv, Answered
    PROVE  PanelInv' /\ \A w \in writes : w \notin writes' /\ open # None /\ open' = None => w.opening = open.nr
  <1>1. PICK w \in writes :
          /\ writes' = writes \ {w}
          /\ IF WriteOf(w.kind).n # w.n THEN UNCHANGED <<open, importer, updater, other>>
             ELSE IF w.at = "done" THEN Shut
             ELSE /\ importer' = IF w.kind = "import" THEN [importer EXCEPT !.write.at = w.at] ELSE importer
                  /\ updater' = IF w.kind = "update" THEN [updater EXCEPT !.write.at = w.at] ELSE updater
                  /\ other' = IF w.kind \in {"create", "delete"} THEN [other EXCEPT !.at = w.at] ELSE other
                  /\ UNCHANGED open
    BY DEF Answered
  <1>2. IsWrite(w) /\ IsAwaitedByItsOwn(w)
    BY DEF PanelInv
  <1>3. counts' = counts
    BY DEF Answered
  <1>4. \A v \in writes : v \notin writes' => v = w
    BY <1>1
  <1>5. CASE WriteOf(w.kind).n # w.n
    <2>1. UNCHANGED <<open, importer, updater, other>>
      BY <1>1, <1>5
    <2> QED BY <1>1, <1>3, <2>1 DEF PanelInv, IsWrite, IsAwaitedByItsOwn, WriteOf
  <1>6. CASE WriteOf(w.kind).n = w.n /\ w.at = "done"
    <2>1. Shut /\ open # None /\ open.nr = w.opening
      BY <1>1, <1>2, <1>6 DEF IsAwaitedByItsOwn
    <2> QED BY <1>1, <1>3, <1>4, <2>1, ShutKeeps
  <1>7. CASE WriteOf(w.kind).n = w.n /\ w.at # "done"
    <2>1. /\ importer' = IF w.kind = "import" THEN [importer EXCEPT !.write.at = w.at] ELSE importer
          /\ updater' = IF w.kind = "update" THEN [updater EXCEPT !.write.at = w.at] ELSE updater
          /\ other' = IF w.kind \in {"create", "delete"} THEN [other EXCEPT !.at = w.at] ELSE other
          /\ open' = open
      BY <1>1, <1>7
    <2>2. /\ DOMAIN importer' = DOMAIN importer /\ DOMAIN updater' = DOMAIN updater
          /\ Waits(importer'.write) /\ Waits(updater'.write) /\ Waits(other')
          /\ importer'.write.n = importer.write.n /\ updater'.write.n = updater.write.n /\ other'.n = other.n
      BY <2>1 DEF PanelInv, Waits
    <2>3. \A v \in writes' : IsWrite(v)' /\ IsAwaitedByItsOwn(v)'
      BY <1>1, <1>3, <2>1, <2>2 DEF PanelInv, IsWrite, IsAwaitedByItsOwn, WriteOf
    <2> QED BY <1>3, <2>1, <2>2, <2>3 DEF PanelInv
  <1> QED BY <1>5, <1>6, <1>7

(* What the answer to a write may close. *)
ClosesItsOwn == \A w \in writes : w \notin writes' /\ open # None /\ open' = None => w.opening = open.nr

LEMMA PanelNext == PanelInv /\ [PageNext]_allPageVars => PanelInv' /\ ClosesItsOwn
  <1> SUFFICES ASSUME PanelInv, [PageNext]_allPageVars PROVE PanelInv' /\ ClosesItsOwn
    OBVIOUS
  <1>1. CASE UNCHANGED vars
    BY <1>1 DEF vars, PanelInv, IsWrite, IsAwaitedByItsOwn, WriteOf, ClosesItsOwn
  <1>2. CASE Handle \/ RequestFails
    BY <1>2, RequestSteps DEF ClosesItsOwn
  <1>3. CASE \/ OthersWrite \/ Poll \/ ExportProfile \/ Drop \/ Add \/ RemoveFile \/ Checked
             \/ ImportFromFiles \/ UpdateFromFile \/ CreateProfile \/ AskToDelete
    BY <1>3, QuietSteps DEF ClosesItsOwn
  <1>4. CASE Visit
    BY <1>4, VisitStep DEF ClosesItsOwn
  <1>5. CASE Close
    <2>1. Shut /\ open # None /\ counts' = counts /\ writes' = writes
      BY <1>5 DEF Close
    <2> QED BY <2>1, ShutKeeps DEF ClosesItsOwn
  <1>6. CASE SubmitImport \/ SubmitUpdate \/ SubmitForm \/ ConfirmDelete
    BY <1>6, SendSteps DEF ClosesItsOwn
  <1>7. CASE Answered
    BY <1>7, AnsweredStep DEF ClosesItsOwn
  <1>8. CASE Next
    BY <1>2, <1>3, <1>4, <1>5, <1>6, <1>7, <1>8 DEF Next
  <1>9. UNCHANGED vars \/ Next
    BY DEF PageNext, allPageVars
  <1> QED BY <1>1, <1>8, <1>9

(* The answer to a write, whenever it comes, closes the opening of the dialog that sent it and no other: closing a     *)
(* dialog, changing its files and leaving the panel each let go of what was sent (ProfilesPanel.tsx, ProfileFileModal  *)
(* and CreateProfileModal, the reset of their mutations).                                                              *)
THEOREM AnswersCloseTheirOwn == PageSpec => OwnAnswerCloses
  <1>1. PageInit => PanelInv
    BY PanelInit DEF PageInit
  <1>2. PanelInv /\ [PageNext]_allPageVars => PanelInv'
    BY PanelNext
  <1>3. PanelInv /\ [PageNext]_allPageVars => [ClosesItsOwn]_vars
    BY PanelNext
  <1>4. OwnAnswerCloses <=> [][ClosesItsOwn]_vars
    BY DEF OwnAnswerCloses, ClosesItsOwn
  <1> QED BY <1>1, <1>2, <1>3, <1>4, PTL DEF PageSpec, allPageVars

-----------------------------------------------------------------------------
(* Where a file comes from, and where what is in it goes. *)

(* A file that was exported says in its text which profile it was exported from, and at which version. *)
FileSaysItsOwn(f) ==
    f.of # None =>
        /\ f.of = [scope |-> f.text.doc.scope, id |-> f.text.doc.id, version |-> f.text.doc.resource_version]
        /\ f.text.doc.scope # "" /\ f.text.doc.resource_version # 0

(* What was read of a file is what its text says. *)
ReadSaysItsOwn(r) ==
    /\ FileSaysItsOwn(r.file)
    /\ r.profile # None => /\ r.profile.scope = r.file.text.doc.scope /\ r.profile.id = r.file.text.doc.id
                           /\ r.profile.resourceVersion = r.file.text.doc.resource_version

(* A write of a file that was exported is one of the profile that it was exported from, at that version. *)
WriteSaysItsOwn(w) ==
    w.of # None => /\ w.kind = "update" /\ w.expected # 0
                   /\ w.of = [scope |-> w.scope, id |-> w.id, version |-> w.expected]

IsGateway(g) ==
    /\ DOMAIN g = {"supports", "store", "held"} /\ DOMAIN g.held = Scopes \X Ids
    /\ \A k \in Scopes \X Ids : IsHeldAt(k, g.held[k])

IsListed(l) ==
    /\ l.dto.scope = l.message.scope /\ l.dto.id = l.message.id
    /\ l.dto.resourceVersion = l.message.resourceVersion
    /\ l.message.scope # "" /\ l.message.resourceVersion # 0

TargetIsHere == open # None /\ open.kind = "update" => open.target.scope = panel

UpdaterInv == updater.files = <<>> \/ \E r : updater.files = <<r>> /\ ReadSaysItsOwn(r)

WritesInv ==
    /\ \A w \in writes : w.scope \in Scopes /\ WriteSaysItsOwn(w)
    /\ \A v, w \in writes : v.n = w.n => v = w

FilesInv ==
    /\ IsGateway(gw) /\ panel \in Scopes
    /\ \A l \in listed : IsListed(l)
    /\ \A f \in disk : FileSaysItsOwn(f)
    /\ reading # None => FileSaysItsOwn(reading.dropped)
    /\ UpdaterInv
    /\ TargetIsHere
    /\ WritesInv

-----------------------------------------------------------------------------
(* What the gateway keeps of a message is held in its scope, at the version that follows. *)
LEMMA KeepsItsOwn ==
    ASSUME NEW m, IsMessage(m), NEW at, NEW version
    PROVE  /\ IsMessage(Keeps(m, at, version))
           /\ Keeps(m, at, version).scope = at /\ Keeps(m, at, version).resourceVersion = version
  BY DEF IsMessage, Keeps

LEMMA MessageIsSome == ~IsMessage(None)
  BY DEF IsMessage, None

LEMMA HeldInItsScope ==
    ASSUME NEW k \in Scopes \X Ids PROVE k[1] \in Scopes /\ k[1] # ""
  BY ScopesAssumption

LEMMA StoredIsGateway ==
    ASSUME IsGateway(gw), NEW at \in Scopes, NEW items, \A i \in DOMAIN items : IsMessage(items[i])
    PROVE  IsGateway(StoredAs(at, items))
  <1> DEFINE held == [k \in DOMAIN gw.held |->
                        IF k[1] = at /\ \E i \in DOMAIN items : items[i].id = k[2]
                        THEN LET i == CHOOSE j \in DOMAIN items : items[j].id = k[2] IN
                             [version |-> gw.held[k].version + 1,
                              profile |-> Keeps(items[i], at, gw.held[k].version + 1)]
                        ELSE gw.held[k]]
  <1>1. StoredAs(at, items) = [gw EXCEPT !.held = held]
    BY DEF StoredAs, IsGateway
  <1>2. DOMAIN held = Scopes \X Ids
    BY DEF IsGateway
  <1>3. ASSUME NEW k \in Scopes \X Ids PROVE IsHeldAt(k, held[k])
    <2>1. IsHeldAt(k, gw.held[k])
      BY DEF IsGateway
    <2>2. CASE k[1] = at /\ \E i \in DOMAIN items : items[i].id = k[2]
      <3> DEFINE i == CHOOSE j \in DOMAIN items : items[j].id = k[2]
                 version == gw.held[k].version + 1
      <3>1. i \in DOMAIN items
        BY <2>2
      <3>2. held[k] = [version |-> version, profile |-> Keeps(items[i], at, version)]
        BY <2>2 DEF IsGateway
      <3>3. version \in Nat /\ version # 0
        BY <2>1 DEF IsHeldAt
      <3>4. /\ IsMessage(Keeps(items[i], at, version))
            /\ Keeps(items[i], at, version).scope = at
            /\ Keeps(items[i], at, version).resourceVersion = version
        BY <3>1, KeepsItsOwn
      <3> HIDE DEF i, version, held
      <3> QED BY <2>2, <3>2, <3>3, <3>4 DEF IsHeldAt
    <2>3. CASE ~(k[1] = at /\ \E i \in DOMAIN items : items[i].id = k[2])
      <3>1. held[k] = gw.held[k]
        BY <2>3 DEF IsGateway
      <3> QED BY <2>1, <3>1
    <2> QED BY <2>2, <2>3
  <1> HIDE DEF held
  <1> QED BY <1>1, <1>2, <1>3 DEF IsGateway

LEMMA RemovedIsGateway ==
    ASSUME IsGateway(gw), NEW k
    PROVE  IsGateway([gw EXCEPT !.held[k].profile = None])
  <1> DEFINE g == [gw EXCEPT !.held[k].profile = None]
             empty == [gw.held[k] EXCEPT !.profile = None]
  <1>1. g = [gw EXCEPT !.held = [gw.held EXCEPT ![k] = empty]]
    BY DEF IsGateway
  <1>2. /\ DOMAIN g = {"supports", "store", "held"} /\ DOMAIN g.held = Scopes \X Ids
        /\ \A j \in Scopes \X Ids : g.held[j] = IF j = k THEN empty ELSE gw.held[j]
    BY <1>1 DEF IsGateway
  <1>3. k \in Scopes \X Ids => IsHeldAt(k, empty)
    BY DEF IsGateway, IsHeldAt
  <1> HIDE DEF g, empty
  <1>4. IsGateway(g)
    BY <1>2, <1>3 DEF IsGateway
  <1> QED BY <1>4 DEF g

(* What the backend makes of a body is a message. *)
LEMMA SentIsMessage ==
    ASSUME NEW profiles
    PROVE  \A i \in DOMAIN SeqMap(ToStore, ConvertItems(profiles)) :
               IsMessage(SeqMap(ToStore, ConvertItems(profiles))[i])
  <1>1. ASSUME NEW p PROVE IsMessage(ToStore(ToProto(p)))
    <2>1. IsMessage(ToProto(p)) /\ {"category", "credentials", "endpoints"} \subseteq DOMAIN ToProto(p)
      BY DEF ToProto, IsMessage
    <2> QED BY <2>1 DEF ToStore, ProviderProfileToSDK, IsMessage
  <1> QED BY <1>1 DEF SeqMap, ConvertItems

(* What is listed is what is held, whichever store it is reached through. *)
LEMMA ListIsOfItsOwn ==
    ASSUME IsGateway(gw), NEW at, NEW l \in ListProviderProfiles(at)
    PROVE  IsListed(l)
  <1>1. PICK k \in Scopes \X Ids :
          /\ gw.held[k].profile # None
          /\ l = [dto |-> ProviderProfileFromProto(FromStore(gw.held[k].profile), EndpointsAreNarrow),
                  message |-> gw.held[k].profile]
    BY DEF ListProviderProfiles, IsGateway
  <1> DEFINE m == gw.held[k].profile
  <1>2. IsMessage(m) /\ m.scope = k[1] /\ m.resourceVersion # 0
    BY <1>1 DEF IsGateway, IsHeldAt
  <1>3. k[1] # ""
    BY HeldInItsScope
  <1> HIDE DEF m
  <1>4. /\ FromStore(m).scope = m.scope /\ FromStore(m).id = m.id
        /\ FromStore(m).resourceVersion = m.resourceVersion
    BY <1>2 DEF FromStore, ProviderProfileFromSDK, ProviderProfileToSDK, IsMessage
  <1>5. ASSUME NEW n, NEW narrow
        PROVE  /\ ProviderProfileFromProto(n, narrow).scope = n.scope /\ ProviderProfileFromProto(n, narrow).id = n.id
               /\ ProviderProfileFromProto(n, narrow).resourceVersion = n.resourceVersion
    BY DEF ProviderProfileFromProto, FromProtoProviderProfile, FromNarrowProviderProfile
  <1>6. l.message = m /\ l.dto = ProviderProfileFromProto(FromStore(m), EndpointsAreNarrow)
    BY <1>1 DEF m
  <1>7. /\ l.dto.scope = FromStore(m).scope /\ l.dto.id = FromStore(m).id
        /\ l.dto.resourceVersion = FromStore(m).resourceVersion
    BY <1>5, <1>6
  <1> QED BY <1>2, <1>3, <1>4, <1>6, <1>7 DEF IsListed

(* A file that is written says what was listed, also after its profile was given another name. *)
LEMMA ExportSaysItsOwn ==
    ASSUME NEW l, IsListed(l), NEW format,
           NEW file, file = [extension |-> format, text |-> SerializeProfileFile(l.dto), meant |-> Meaning(l.message),
                             of |-> [scope |-> l.message.scope, id |-> l.message.id,
                                     version |-> l.message.resourceVersion]]
    PROVE  /\ FileSaysItsOwn(file)
           /\ FileSaysItsOwn([file EXCEPT !.text.doc.display_name = "edited", !.meant.displayName = "edited"])
  <1> DEFINE doc == ProfileToDocument(l.dto)
             edited == [file EXCEPT !.text.doc.display_name = "edited", !.meant.displayName = "edited"]
  <1>1. /\ doc.scope = l.dto.scope /\ doc.id = l.dto.id /\ doc.resource_version = l.dto.resourceVersion
        /\ {"scope", "id", "resource_version"} \subseteq DOMAIN doc
    BY DEF ProfileToDocument
  <1>2. DOMAIN file = {"extension", "text", "meant", "of"} /\ DOMAIN file.text = {"parses", "mergeKeys", "doc"}
        /\ file.text.doc = doc
        /\ file.of = [scope |-> l.message.scope, id |-> l.message.id, version |-> l.message.resourceVersion]
    BY DEF SerializeProfileFile
  <1> HIDE DEF doc
  <1>3. edited.of = file.of /\ edited.text.doc = [doc EXCEPT !.display_name = "edited"]
    BY <1>2
  <1>4. /\ edited.text.doc.scope = doc.scope /\ edited.text.doc.id = doc.id
        /\ edited.text.doc.resource_version = doc.resource_version
    BY <1>1, <1>3
  <1> HIDE DEF edited
  <1>5. file.of = [scope |-> doc.scope, id |-> doc.id, version |-> doc.resource_version]
    BY <1>1, <1>2 DEF IsListed
  <1>6. doc.scope # "" /\ doc.resource_version # 0
    BY <1>1 DEF IsListed
  <1>7. FileSaysItsOwn(file)
    BY <1>2, <1>5, <1>6 DEF FileSaysItsOwn
  <1>8. FileSaysItsOwn(edited)
    BY <1>3, <1>4, <1>5, <1>6 DEF FileSaysItsOwn
  <1> QED BY <1>7, <1>8 DEF edited

LEMMA ReadFileSaysItsOwn ==
    ASSUME NEW f, FileSaysItsOwn(f)
    PROVE  ReadSaysItsOwn(ReadFile(f))
  <1>1. ReadFile(f).file = f
    BY DEF ReadFile
  <1>2. ReadFile(f).profile \in {None, ProfileFromDocument(f.text.doc)}
    BY DEF ReadFile, ParseProfileFile
  <1>3. /\ ProfileFromDocument(f.text.doc).scope = f.text.doc.scope
        /\ ProfileFromDocument(f.text.doc).id = f.text.doc.id
        /\ ProfileFromDocument(f.text.doc).resourceVersion = f.text.doc.resource_version
    BY DEF ProfileFromDocument
  <1> QED BY <1>1, <1>2, <1>3 DEF ReadSaysItsOwn

-----------------------------------------------------------------------------
LEMMA FilesInit == Init => FilesInv
  <1> SUFFICES ASSUME Init PROVE FilesInv
    OBVIOUS
  <1>1. PICK supports \in BOOLEAN, store \in {"raw", "sdk"} : gw = [supports |-> supports, store |-> store, held |-> Held]
    BY DEF Init
  <1>2. IsGateway(gw)
    BY <1>1, HeldAssumption DEF IsGateway
  <1>3. panel \in Scopes
    BY ScopesAssumption DEF Init
  <1>4. listed = {} /\ disk = {} /\ reading = None /\ updater.files = <<>> /\ open = None /\ writes = {}
    BY DEF Init
  <1> QED BY <1>2, <1>3, <1>4 DEF FilesInv, UpdaterInv, TargetIsHere, WritesInv

LEMMA OthersWriteFiles == ASSUME FilesInv, OthersWrite PROVE FilesInv'
  <1>1. PICK k \in DOMAIN gw.held, p \in OtherProfiles \union {None} :
          gw' = IF p = None THEN [gw EXCEPT !.held[k].profile = None] ELSE StoredAs(k[1], <<p>>)
    BY DEF OthersWrite
  <1>2. k \in Scopes \X Ids /\ IsGateway(gw)
    BY DEF FilesInv, IsGateway
  <1>3. ASSUME p = None PROVE IsGateway(gw')
    BY <1>1, <1>2, <1>3, RemovedIsGateway
  <1>4. ASSUME p # None PROVE IsGateway(gw')
    <2>1. IsMessage(p)
      BY <1>4, OtherProfilesAssumption
    <2>2. \A i \in DOMAIN <<p>> : IsMessage(<<p>>[i])
      BY <2>1
    <2>3. k[1] \in Scopes
      BY <1>2
    <2>4. IsGateway(StoredAs(k[1], <<p>>))
      BY <1>2, <2>2, <2>3, StoredIsGateway
    <2> QED BY <1>1, <1>4, <2>4
  <1>5. IsGateway(gw')
    BY <1>3, <1>4
  <1>6. UNCHANGED <<disk, panel, listed, open, updater, reading, writes>>
    BY DEF OthersWrite
  <1> QED BY <1>5, <1>6 DEF FilesInv, UpdaterInv, TargetIsHere, WritesInv

LEMMA PollFiles == ASSUME FilesInv, Poll PROVE FilesInv'
  <1>1. listed' = ListProviderProfiles(panel) /\ UNCHANGED <<gw, disk, panel, open, updater, reading, writes>>
    BY DEF Poll
  <1>2. \A l \in listed' : IsListed(l)
    BY <1>1, ListIsOfItsOwn DEF FilesInv
  <1> QED BY <1>1, <1>2 DEF FilesInv, UpdaterInv, TargetIsHere, WritesInv

LEMMA VisitFiles == ASSUME FilesInv, Visit PROVE FilesInv'
  <1>1. /\ panel' \in Scopes /\ listed' = {} /\ open' = None /\ reading' = None /\ updater'.files = <<>>
        /\ UNCHANGED <<gw, disk, writes>>
    BY DEF Visit
  <1> QED BY <1>1 DEF FilesInv, UpdaterInv, TargetIsHere, WritesInv

LEMMA ExportFiles == ASSUME FilesInv, ExportProfile PROVE FilesInv'
  <1>1. PICK l \in listed, format \in Formats :
          LET file == [extension |-> format, text |-> SerializeProfileFile(l.dto), meant |-> Meaning(l.message),
                       of |-> [scope |-> l.message.scope, id |-> l.message.id, version |-> l.message.resourceVersion]]
          IN disk' = disk \union {file, [file EXCEPT !.text.doc.display_name = "edited", !.meant.displayName = "edited"]}
    BY DEF ExportProfile
  <1> DEFINE file == [extension |-> format, text |-> SerializeProfileFile(l.dto), meant |-> Meaning(l.message),
                      of |-> [scope |-> l.message.scope, id |-> l.message.id, version |-> l.message.resourceVersion]]
             edited == [file EXCEPT !.text.doc.display_name = "edited", !.meant.displayName = "edited"]
  <1>2. disk' = disk \union {file, edited}
    BY <1>1
  <1>3. IsListed(l)
    BY DEF FilesInv
  <1>4. FileSaysItsOwn(file) /\ FileSaysItsOwn(edited)
    BY <1>3, ExportSaysItsOwn
  <1> HIDE DEF file, edited
  <1>5. \A f \in disk' : FileSaysItsOwn(f)
    BY <1>2, <1>4 DEF FilesInv
  <1>6. UNCHANGED <<gw, panel, listed, open, updater, reading, writes>>
    BY DEF ExportProfile
  <1> QED BY <1>5, <1>6 DEF FilesInv, UpdaterInv, TargetIsHere, WritesInv

LEMMA DropFiles == ASSUME FilesInv, Drop PROVE FilesInv'
  <1>1. PICK f \in disk \union HandWritten :
          reading' = [kind |-> open.kind, dropped |-> f, files |-> IF open.kind = "import" THEN importer.files ELSE <<>>]
    BY DEF Drop
  <1>2. FileSaysItsOwn(f)
    BY HandWrittenAssumption DEF FilesInv, FileSaysItsOwn
  <1>3. FileSaysItsOwn(reading'.dropped)
    BY <1>1, <1>2
  <1>4. UNCHANGED <<gw, disk, panel, listed, open, updater, writes>>
    BY DEF Drop
  <1> QED BY <1>3, <1>4 DEF FilesInv, UpdaterInv, TargetIsHere, WritesInv

LEMMA AddFiles == ASSUME FilesInv, Add PROVE FilesInv'
  <1> DEFINE read == ReadFile(reading.dropped)
  <1>1. /\ reading # None /\ reading' = None
        /\ updater' = [files |-> <<read>>, write |-> Idle] \/ updater' = updater
        /\ UNCHANGED <<gw, disk, panel, listed, open, writes>>
    BY DEF Add
  <1>2. ReadSaysItsOwn(read)
    BY <1>1, ReadFileSaysItsOwn DEF FilesInv
  <1> HIDE DEF read
  <1>3. updater'.files = <<read>> \/ updater' = updater
    BY <1>1
  <1>4. UpdaterInv'
    BY <1>2, <1>3 DEF FilesInv, UpdaterInv
  <1> QED BY <1>1, <1>4 DEF FilesInv, TargetIsHere, WritesInv

LEMMA ImporterFiles == ASSUME FilesInv, RemoveFile \/ Checked PROVE FilesInv'
  <1>1. UNCHANGED <<gw, disk, panel, listed, open, updater, reading, writes>>
    BY DEF RemoveFile, Checked
  <1> QED BY <1>1 DEF FilesInv, UpdaterInv, TargetIsHere, WritesInv

LEMMA OpenFiles ==
    ASSUME FilesInv, ImportFromFiles \/ UpdateFromFile \/ CreateProfile \/ AskToDelete PROVE FilesInv'
  <1>1. UNCHANGED <<gw, disk, panel, listed, updater, reading, writes>>
    BY DEF ImportFromFiles, UpdateFromFile, CreateProfile, AskToDelete
  <1>2. TargetIsHere'
    <2>1. CASE ImportFromFiles
      BY <2>1 DEF ImportFromFiles, OpenDialog, TargetIsHere
    <2>2. CASE UpdateFromFile
      BY <2>2 DEF UpdateFromFile, OpenDialog, TargetIsHere, IsOwnProfile
    <2>3. CASE CreateProfile
      BY <2>3 DEF CreateProfile, OpenDialog, TargetIsHere
    <2>4. CASE AskToDelete
      BY <2>4 DEF AskToDelete, OpenDialog, TargetIsHere
    <2> QED BY <2>1, <2>2, <2>3, <2>4
  <1> QED BY <1>1, <1>2 DEF FilesInv, UpdaterInv, WritesInv

LEMMA ShutFiles ==
    ASSUME FilesInv, Shut, UNCHANGED <<gw, disk, panel, listed, reading>>, writes' \subseteq writes
    PROVE  FilesInv'
  <1>1. open' = None /\ (updater'.files = <<>> \/ updater' = updater)
    BY DEF Shut
  <1> QED BY <1>1 DEF FilesInv, UpdaterInv, TargetIsHere, WritesInv

LEMMA AnsweredFiles == ASSUME PanelInv, FilesInv, Answered PROVE FilesInv' /\ writes' \subseteq writes
  <1>1. PICK w \in writes :
          /\ writes' = writes \ {w}
          /\ IF WriteOf(w.kind).n # w.n THEN UNCHANGED <<open, importer, updater, other>>
             ELSE IF w.at = "done" THEN Shut
             ELSE /\ importer' = IF w.kind = "import" THEN [importer EXCEPT !.write.at = w.at] ELSE importer
                  /\ updater' = IF w.kind = "update" THEN [updater EXCEPT !.write.at = w.at] ELSE updater
                  /\ other' = IF w.kind \in {"create", "delete"} THEN [other EXCEPT !.at = w.at] ELSE other
                  /\ UNCHANGED open
    BY DEF Answered
  <1>2. UNCHANGED <<gw, disk, panel, listed, reading>> /\ writes' \subseteq writes
    BY <1>1 DEF Answered
  <1>3. CASE Shut
    BY <1>2, <1>3, ShutFiles
  <1>4. CASE ~Shut
    <2>1. open' = open /\ updater'.files = updater.files
      BY <1>1, <1>4 DEF PanelInv
    <2> QED BY <1>2, <2>1 DEF FilesInv, UpdaterInv, TargetIsHere, WritesInv
  <1> QED BY <1>2, <1>3, <1>4

(* An update that is sent is of the profile that its file was exported from: of its id, since the file has to be the   *)
(* target's, and of its scope, since a file that was exported names one.                                               *)
LEMMA SendFiles ==
    ASSUME PanelInv, FilesInv, SubmitImport \/ SubmitUpdate \/ SubmitForm \/ ConfirmDelete
    PROVE  FilesInv' /\ \E w : writes' = writes \union {w} /\ w.at = "sent" /\ \A v \in writes : v.n # w.n
  <1>1. PICK w : IsSentNow(w)
    BY WhatIsSent
  <1>2. UNCHANGED <<gw, disk, panel, listed, reading>>
    BY WhatIsSent
  <1>3. /\ writes' = writes \union {w} /\ w.at = "sent" /\ w.scope = panel /\ open' = open
        /\ updater'.files = updater.files
    BY <1>1 DEF IsSentNow, Send, PanelInv
  <1>4. \A v \in writes : v.n # w.n
    BY <1>1 DEF IsSentNow, PanelInv, IsWrite
  <1>5. WriteSaysItsOwn(w)
    <2> SUFFICES ASSUME w.of # None PROVE WriteSaysItsOwn(w)
      BY DEF WriteSaysItsOwn
    <2> DEFINE f == updater.files[1]
    <2>1. /\ w.kind = "update" /\ CanUpdate /\ w.id = open.target.id /\ w.of = f.file.of
          /\ w.expected = f.profile.resourceVersion /\ open # None /\ open.kind = "update"
      BY <1>1 DEF IsSentNow
    <2>2. /\ \E i \in DOMAIN updater.files : updater.files[i].profile # None
          /\ ~TargetMismatch(f.profile, open.target)
      BY <2>1 DEF CanUpdate
    <2>3. PICK r : updater.files = <<r>> /\ ReadSaysItsOwn(r)
      BY <2>2 DEF FilesInv, UpdaterInv
    <2>4. f.profile # None /\ ReadSaysItsOwn(f)
      BY <2>2, <2>3
    <2> HIDE DEF f
    <2>5. /\ f.profile.scope = f.file.text.doc.scope /\ f.profile.id = f.file.text.doc.id
          /\ f.profile.resourceVersion = f.file.text.doc.resource_version
          /\ f.file.of = [scope |-> f.file.text.doc.scope, id |-> f.file.text.doc.id,
                          version |-> f.file.text.doc.resource_version]
          /\ f.file.text.doc.scope # "" /\ f.file.text.doc.resource_version # 0
      BY <2>1, <2>4 DEF ReadSaysItsOwn, FileSaysItsOwn
    <2>6. open.target.scope = panel /\ panel # ""
      BY <2>1, ScopesAssumption DEF FilesInv, TargetIsHere
    <2>7. f.profile.id = open.target.id /\ f.profile.scope = panel
      BY <2>2, <2>5, <2>6 DEF TargetMismatch
    <2> QED BY <1>3, <2>1, <2>5, <2>7 DEF WriteSaysItsOwn
  <1>6. WritesInv'
    BY <1>3, <1>4, <1>5 DEF FilesInv, WritesInv
  <1>7. FilesInv'
    BY <1>2, <1>3, <1>6 DEF FilesInv, UpdaterInv, TargetIsHere
  <1> QED BY <1>3, <1>4, <1>7

(* What is being handled is in its place, whatever it is answered. *)
LEMMA RequestKeeps ==
    ASSUME PanelInv, FilesInv, NEW w \in writes, NEW at, writes' = (writes \ {w}) \union {[w EXCEPT !.at = at]}
    PROVE  WritesInv'
  <1> DEFINE v == [w EXCEPT !.at = at]
  <1>1. DOMAIN w = WriteFields /\ w.scope \in Scopes /\ WriteSaysItsOwn(w)
    BY DEF PanelInv, IsWrite, FilesInv, WritesInv
  <1>2. /\ v.n = w.n /\ v.kind = w.kind /\ v.scope = w.scope /\ v.id = w.id /\ v.expected = w.expected /\ v.of = w.of
    BY <1>1 DEF WriteFields
  <1>3. writes' = (writes \ {w}) \union {v}
    OBVIOUS
  <1> HIDE DEF v
  <1>4. v.scope \in Scopes /\ WriteSaysItsOwn(v)
    BY <1>1, <1>2 DEF WriteSaysItsOwn
  <1> QED BY <1>2, <1>3, <1>4 DEF FilesInv, WritesInv

LEMMA HandleFiles == ASSUME PanelInv, FilesInv, Handle PROVE FilesInv'
  <1>1. PICK w \in writes :
          /\ writes' = (writes \ {w}) \union {[w EXCEPT !.at = Answer(w)]}
          /\ gw' = IF Answer(w) # "done" THEN gw
                   ELSE IF w.kind = "delete" THEN [gw EXCEPT !.held[<<w.scope, w.id>>].profile = None]
                   ELSE StoredAs(w.scope, SeqMap(ToStore, ConvertItems(w.profiles)))
    BY DEF Handle
  <1>2. UNCHANGED <<disk, panel, listed, open, updater, reading>>
    BY DEF Handle
  <1>3. WritesInv'
    BY <1>1, RequestKeeps
  <1>4. IsGateway(gw) /\ w.scope \in Scopes
    BY DEF FilesInv, WritesInv
  <1>5. IsGateway(gw')
    <2>1. CASE Answer(w) # "done"
      BY <1>1, <1>4, <2>1
    <2>2. CASE Answer(w) = "done" /\ w.kind = "delete"
      BY <1>1, <1>4, <2>2, RemovedIsGateway
    <2>3. CASE Answer(w) = "done" /\ w.kind # "delete"
      BY <1>1, <1>4, <2>3, SentIsMessage, StoredIsGateway
    <2> QED BY <2>1, <2>2, <2>3
  <1> QED BY <1>2, <1>3, <1>5 DEF FilesInv, UpdaterInv, TargetIsHere

LEMMA RequestFailsFiles == ASSUME PanelInv, FilesInv, RequestFails PROVE FilesInv'
  <1>1. PICK w \in writes : writes' = (writes \ {w}) \union {[w EXCEPT !.at = "error"]}
    BY DEF RequestFails
  <1>2. UNCHANGED <<gw, disk, panel, listed, open, updater, reading>>
    BY DEF RequestFails
  <1>3. WritesInv'
    BY <1>1, RequestKeeps
  <1> QED BY <1>2, <1>3 DEF FilesInv, UpdaterInv, TargetIsHere

LEMMA FilesNext == PanelInv /\ FilesInv /\ [PageNext]_allPageVars => FilesInv'
  <1> SUFFICES ASSUME PanelInv, FilesInv, [PageNext]_allPageVars PROVE FilesInv'
    OBVIOUS
  <1>1. CASE UNCHANGED vars
    BY <1>1 DEF vars, FilesInv, UpdaterInv, TargetIsHere, WritesInv
  <1>2. CASE Close
    BY <1>2, ShutFiles DEF Close
  <1>3. CASE Next
    BY <1>2, <1>3, HandleFiles, RequestFailsFiles, OthersWriteFiles, PollFiles, VisitFiles, ExportFiles, DropFiles,
       AddFiles, ImporterFiles, OpenFiles, SendFiles, AnsweredFiles
       DEF Next
  <1>4. UNCHANGED vars \/ Next
    BY DEF PageNext, allPageVars
  <1> QED BY <1>1, <1>3, <1>4

(* What a step that stores a file replaces. *)
StoresItsOwn ==
    \A w \in writes : IsStored(w) /\ w.of # None =>
        w.of = [scope |-> w.scope, id |-> w.id, version |-> gw.held[w.scope, w.id].version]

(* Only the gateway's answer stores a write, and an update of a version that is not held is not answered so. *)
LEMMA OnlyHandled ==
    ASSUME PanelInv, FilesInv, [PageNext]_allPageVars, NEW w \in writes, IsStored(w)
    PROVE  Answer(w) = "done"
  <1>1. PICK v \in writes' : v.n = w.n /\ v.at = "done" /\ w.at = "sent"
    BY DEF IsStored
  <1>2. ASSUME v \in writes PROVE FALSE
    BY <1>1, <1>2 DEF FilesInv, WritesInv
  <1>3. UNCHANGED vars \/ Next
    BY DEF PageNext, allPageVars
  <1>4. CASE writes' \subseteq writes
    BY <1>2, <1>4
  <1>5. CASE SubmitImport \/ SubmitUpdate \/ SubmitForm \/ ConfirmDelete
    <2>1. PICK u : writes' = writes \union {u} /\ u.at = "sent"
      BY <1>5, SendFiles
    <2> QED BY <1>1, <1>2, <2>1
  <1>6. ASSUME NEW u \in writes, NEW at, writes' = (writes \ {u}) \union {[u EXCEPT !.at = at]}
        PROVE  u = w /\ at = "done"
    <2>1. v = [u EXCEPT !.at = at]
      BY <1>2, <1>6
    <2>2. DOMAIN u = WriteFields
      BY DEF PanelInv, IsWrite
    <2>3. v.n = u.n /\ v.at = at
      BY <2>1, <2>2 DEF WriteFields
    <2> QED BY <1>1, <2>3 DEF FilesInv, WritesInv
  <1>7. CASE RequestFails
    <2>1. PICK u \in writes : writes' = (writes \ {u}) \union {[u EXCEPT !.at = "error"]}
      BY <1>7 DEF RequestFails
    <2> QED BY <1>6, <2>1
  <1>8. CASE Handle
    <2>1. PICK u \in writes : writes' = (writes \ {u}) \union {[u EXCEPT !.at = Answer(u)]}
      BY <1>8 DEF Handle
    <2> QED BY <1>6, <2>1
  <1>9. CASE Close
    BY <1>4, <1>9 DEF Close
  <1>10. CASE Answered
    BY <1>4, <1>10, AnsweredFiles
  <1>11. CASE Visit
    BY <1>4, <1>11, VisitStep
  <1>12. CASE UNCHANGED vars
    BY <1>4, <1>12 DEF vars
  <1>13. CASE Next
    BY <1>4, <1>5, <1>7, <1>8, <1>9, <1>10, <1>11, <1>13, QuietSteps DEF Next
  <1> QED BY <1>3, <1>12, <1>13

LEMMA StepStoresItsOwn == PanelInv /\ FilesInv /\ [PageNext]_allPageVars => StoresItsOwn
  <1> SUFFICES ASSUME PanelInv, FilesInv, [PageNext]_allPageVars, NEW w \in writes, IsStored(w), w.of # None
               PROVE  w.of = [scope |-> w.scope, id |-> w.id, version |-> gw.held[w.scope, w.id].version]
    BY DEF StoresItsOwn
  <1>1. Answer(w) = "done"
    BY OnlyHandled
  <1>2. WriteSaysItsOwn(w)
    BY DEF FilesInv, WritesInv
  <1>3. w.kind = "update" /\ w.expected # 0 /\ w.of = [scope |-> w.scope, id |-> w.id, version |-> w.expected]
    BY <1>2 DEF WriteSaysItsOwn
  <1>4. UpdateProviderProfile(w) = "done"
    BY <1>1, <1>3 DEF Answer
  <1>5. w.expected = gw.held[w.scope, w.id].version
    BY <1>3, <1>4 DEF UpdateProviderProfile
  <1> QED BY <1>3, <1>5

(* A file that was exported replaces the profile it was exported from, in the scope it was exported from, and only     *)
(* while it is still at the version it was exported at, whoever edits the file, whichever panel it is dropped on and   *)
(* whatever others write meanwhile (ProfileFileModal.tsx, targetMismatch and expectedResourceVersion).                 *)
THEOREM FilesReplaceTheirOwn == PageSpec => FileReplacesItsOwn
  <1>1. PageInit => PanelInv /\ FilesInv
    BY PanelInit, FilesInit DEF PageInit
  <1>2. PanelInv /\ FilesInv /\ [PageNext]_allPageVars => (PanelInv /\ FilesInv)'
    BY PanelNext, FilesNext
  <1>3. PanelInv /\ FilesInv /\ [PageNext]_allPageVars => [StoresItsOwn]_vars
    BY StepStoresItsOwn
  <1>4. FileReplacesItsOwn <=> [][StoresItsOwn]_vars
    BY DEF FileReplacesItsOwn, StoresItsOwn
  <1> QED BY <1>1, <1>2, <1>3, <1>4, PTL DEF PageSpec, allPageVars
=============================================================================
