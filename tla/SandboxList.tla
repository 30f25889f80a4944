---------------------------- MODULE SandboxList -----------------------------
(* The sandboxes of a workspace, page by page, selected and deleted (pages/SandboxListPage.tsx with its hooks          *)
(* useCursorListPage, useCursorSelection and useBulkDelete, components/ConfirmDeleteModal.tsx, handlers/                *)
(* sandboxes_handler.go and list_pagination.go), while sandboxes come and go. The page stays while the workspace and   *)
(* the selector it shows change, and other workspaces may have sandboxes of the same names.                             *)
(*                                                                                                                     *)
(* The query cache is external: it keeps what each page request was last answered, reads it again now and then, and    *)
(* while a request has no answer shows in its place the rows that were shown before.                                    *)
EXTENDS Naturals, Sequences, FiniteSets

CONSTANTS Workspaces, Names,
          Order,       \* the names, as the gateway lists them
          Selectors,   \* label selectors: the empty one, and those that not every sandbox matches
          Matching,    \* the sandboxes that match a selector, by selector
          NameFilters, \* what may be typed to filter a page by name: the names that it leaves
          PageSizes,
          MaxSteps     \* bound on how much is done

VARIABLES sandboxes,  \* what each workspace has
          scope,      \* the workspace and the selector that are shown
          pager,      \* the page: its tokens so far, its number, its size, and whether it is on its way (transitioning)
          cache,      \* the answers: rows and next token, or none
          fetching,   \* the requests on their way
          failed,     \* those whose last answer was an error
          kept,       \* the last request shown that has an answer: its rows stand in for one that has none
          nameFilter, \* the names that the filter of the page leaves
          selection,  \* the selected names, and the rows that were seen on each page (observed)
          question,   \* whether to delete some sandboxes; the workspace it was asked in is history
          run,        \* the deletion that was confirmed, with the set of outcomes so far; which sandboxes were gone is history,
                      \* and of which the gateway said no outcome
          deleteError,\* whether the question shows that deletions failed
          count       \* how much was done
vars == <<sandboxes, scope, pager, cache, fetching, failed, kept, nameFilter, selection, question, run, deleteError, count>>

Nothing == [nothing |-> TRUE]
NoPage == [items |-> <<>>, nextPageToken |-> "", loaded |-> FALSE]
FirstToken == ""

-----------------------------------------------------------------------------
(* The gateway (external) and its handlers. *)

Listed(request) == {n \in sandboxes[request.workspace] : n \in Matching[request.selector]}

(* A page token names the last sandbox of the page before. *)
ListSandboxes(request) ==
    LET Rank(n) == CHOOSE i \in DOMAIN Order : Order[i] = n
        After(n) == request.pageToken = FirstToken \/ Rank(n) > Rank(request.pageToken)
        rest == SelectSeq(Order, LAMBDA n : n \in Listed(request) /\ After(n))
        more == Len(rest) > request.pageSize
        items == IF more THEN SubSeq(rest, 1, request.pageSize) ELSE rest
    IN [items |-> items, nextPageToken |-> IF more THEN items[Len(items)] ELSE FirstToken, loaded |-> TRUE]

(* What becomes of a deletion: done, accepted to be done, not needed, or a number that nobody here knows; or nothing is *)
(* said of it. Of that, and of one that fails, it is not known whether it was done.                                     *)
Outcomes == {"completed", "accepted", "already_absent"}
GatewayDeletes(workspace, n, answer) ==
    /\ \E left \in {sandboxes[workspace] \ {n}, sandboxes[workspace]} :
          /\ answer = "completed" => n \notin left
          /\ sandboxes' = [sandboxes EXCEPT ![workspace] = left]
    /\ answer = "already_absent" => n \notin sandboxes[workspace]
    /\ answer \in {"completed", "accepted"} => n \in sandboxes[workspace]

(* Seeded fault: what is not known is taken for done. *)
Fault_FromSDKDeletion(answer) ==
    [outcome |-> IF answer \in Outcomes THEN answer ELSE "completed", deleted |-> answer # "accepted"]

(* An answer without an outcome counts as completed, since the call did not fail. *)
FromSDKDeletion(answer) ==
    IF answer = "no outcome" THEN [outcome |-> "completed", deleted |-> TRUE]
    ELSE [outcome |-> IF answer \in Outcomes THEN answer ELSE "unspecified", deleted |-> answer \in {"completed", "already_absent"}]

(* What the page reads of it. *)
DeletionOutcome(result) ==
    IF "outcome" \notin DOMAIN result THEN (IF result.deleted THEN "completed" ELSE "unspecified")
    ELSE IF result.outcome \in Outcomes THEN result.outcome ELSE "unspecified"

(* How several are reported: as a danger when one is unknown, and as a success only when nothing is left to be done.   *)
DescribeDeletions(outcomes) ==
    IF "unspecified" \in outcomes THEN "danger" ELSE IF "accepted" \in outcomes THEN "info" ELSE "success"

-----------------------------------------------------------------------------
(* What is shown. *)

PageRequest(s, p) ==
    [workspace |-> s.workspace, selector |-> s.selector, pageSize |-> p.perPage, pageToken |-> p.tokens[p.page]]
Current == PageRequest(scope, pager)
Answered(request) == request \in DOMAIN cache
Data(request) ==
    IF Answered(request) THEN cache[request]
    ELSE IF request \notin failed /\ kept \in DOMAIN cache THEN cache[kept] ELSE NoPage
IsPlaceholderData == ~Answered(Current)
IsError == Current \in failed

(* A page that is on its way cannot be used: its rows are those of the page before. *)
Rows == IF pager.transitioning /\ IsPlaceholderData THEN <<>> ELSE Data(Current).items
PageNames == {Rows[i] : i \in {i \in DOMAIN Rows : Rows[i] \in nameFilter}}

(* isCursorPagePending: the buttons of the pages wait for an answer. *)
IsLoading == ~IsError /\ (Current \in fetching \/ pager.transitioning) /\ IsPlaceholderData

(* A first load that failed leaves but its error, and a workspace without sandboxes but an invitation to create one.    *)
LoadFailed == IsError /\ IsPlaceholderData /\ scope.selector = "" /\ pager.page = 1
IsEmpty == Answered(Current) /\ Data(Current).items = <<>> /\ scope.selector = "" /\ pager.page = 1
ListIsUsed == question = Nothing /\ ~LoadFailed /\ ~IsEmpty

FirstPage == [pager EXCEPT !.tokens = <<FirstToken>>, !.page = 1, !.transitioning = TRUE]

(* What becomes of the page once its request s, p and the cache are as given: an answer or an error settles it, and a  *)
(* later page that turns out empty gives way to the first.                                                              *)
Settled(s, p, answers, underway, errors) ==
    LET request == PageRequest(s, p)
        known == request \in DOMAIN answers
        stranded == /\ known /\ request \notin errors /\ request \notin underway
                    /\ p.page > 1 /\ answers[request].items = <<>> /\ answers[request].nextPageToken = FirstToken
    IN IF stranded THEN [p EXCEPT !.tokens = <<FirstToken>>, !.page = 1, !.transitioning = TRUE]
       ELSE [p EXCEPT !.transitioning = @ /\ ~(known \/ request \in errors)]

(* A request is made when it is first shown; one without an answer starts anew. *)
Shows(s, p) ==
    LET request == PageRequest(s, p) IN
    /\ pager' = Settled(s, p, cache, fetching \union {request}, failed \ ({request} \ DOMAIN cache))
    /\ fetching' = fetching \union {request}
    /\ failed' = failed \ ({request} \ DOMAIN cache)
    /\ kept' = IF Answered(Current) THEN Current ELSE kept
    /\ UNCHANGED cache

(* What disappears from a page that was seen before is no longer selected. *)
ReconcilePage(request, page) ==
    LET key == <<request.pageSize, request.pageToken>>
        names == {page.items[i] : i \in DOMAIN page.items}
        gone == IF key \in DOMAIN selection.observed THEN selection.observed[key] \ names ELSE {}
    IN [selected |-> selection.selected \ gone,
        observed |-> [k \in DOMAIN selection.observed \union {key} |-> IF k = key THEN names ELSE selection.observed[k]]]

ClearSelection == [selection EXCEPT !.selected = {}]
NewSelection == [selected |-> {}, observed |-> <<>>]

Does == count < MaxSteps /\ count' = count + 1

Init ==
    /\ sandboxes \in [Workspaces -> {{Order[i] : i \in DOMAIN Order}}]
    /\ scope = [workspace |-> CHOOSE w \in Workspaces : TRUE, selector |-> ""]
    /\ pager = [tokens |-> <<FirstToken>>, page |-> 1, transitioning |-> FALSE, perPage |-> CHOOSE n \in PageSizes : TRUE]
    /\ cache = <<>> /\ fetching = {PageRequest(scope, pager)} /\ failed = {} /\ kept = Nothing
    /\ nameFilter = Names /\ selection = NewSelection
    /\ question = Nothing /\ run = Nothing /\ deleteError = FALSE
    /\ count = 0

-----------------------------------------------------------------------------
(* The list is read. *)

Poll ==
    /\ Current \notin fetching
    /\ fetching' = fetching \union {Current} /\ failed' = failed \ ({Current} \ DOMAIN cache)
    /\ UNCHANGED <<sandboxes, scope, pager, cache, kept, nameFilter, selection, question, run, deleteError, count>>

Fetched ==
    \E request \in fetching :
        LET page == ListSandboxes(request)
            answers == [r \in DOMAIN cache \union {request} |-> IF r = request THEN page ELSE cache[r]]
        IN
        /\ cache' = answers /\ failed' = failed \ {request}
        /\ pager' = Settled(scope, pager, answers, fetching \ {request}, failed \ {request})
        /\ fetching' = (fetching \ {request}) \union (IF pager'.page # pager.page THEN {PageRequest(scope, pager')} ELSE {})
        /\ selection' = IF request = Current THEN ReconcilePage(request, page) ELSE selection
        /\ kept' = IF request = Current THEN request ELSE kept
        /\ UNCHANGED <<sandboxes, scope, nameFilter, question, run, deleteError, count>>

FetchFails ==
    /\ \E request \in fetching :
          /\ fetching' = fetching \ {request} /\ failed' = failed \union {request}
          /\ pager' = Settled(scope, pager, cache, fetching \ {request}, failed \union {request})
    /\ UNCHANGED <<sandboxes, scope, cache, kept, nameFilter, selection, question, run, deleteError, count>>

OthersCreateOrDelete ==
    /\ Does
    /\ \E w \in Workspaces, n \in Names :
          sandboxes' = [sandboxes EXCEPT ![w] = IF n \in @ THEN @ \ {n} ELSE @ \union {n}]
    /\ UNCHANGED <<scope, pager, cache, fetching, failed, kept, nameFilter, selection, question, run, deleteError>>

-----------------------------------------------------------------------------
(* The page that is shown, which a question that is open keeps from use. *)

Turns(p) ==
    /\ ListIsUsed /\ Does /\ Shows(scope, p)
    /\ UNCHANGED <<sandboxes, scope, nameFilter, selection, question, run, deleteError>>
NextPage ==
    /\ ~IsLoading /\ ~IsError /\ Data(Current).nextPageToken # FirstToken
    /\ Turns([pager EXCEPT !.tokens = Append(SubSeq(@, 1, pager.page), Data(Current).nextPageToken), !.page = @ + 1,
                           !.transitioning = TRUE])
Previous == ~IsLoading /\ pager.page > 1 /\ Turns([pager EXCEPT !.page = @ - 1, !.transitioning = TRUE])
PerPageSelect == ~IsLoading /\ \E size \in PageSizes \ {pager.perPage} : Turns([FirstPage EXCEPT !.perPage = size])
StartAtFirstPage == IsError /\ pager.page > 1 /\ Turns(FirstPage)

(* A new scope: nothing that was selected in the old one is selected in it. *)
ApplyFilters ==
    /\ ListIsUsed /\ Does
    /\ \E s \in Selectors \ {scope.selector} :
          scope' = [scope EXCEPT !.selector = s] /\ Shows(scope', FirstPage)
    /\ selection' = NewSelection
    /\ UNCHANGED <<sandboxes, nameFilter, question, run, deleteError>>

(* Seeded fault: the question stays. *)
Fault_QuestionInWorkspace == question

(* A question is about the workspace that it was asked in, and goes with it. *)
QuestionInWorkspace == Nothing

(* Somebody goes to another workspace, the history of the browser allows it with a question open, too. *)
GoToWorkspace ==
    /\ Does
    /\ \E w \in Workspaces \ {scope.workspace} :
          scope' = [scope EXCEPT !.workspace = w] /\ Shows(scope', FirstPage)
    /\ selection' = NewSelection /\ question' = QuestionInWorkspace
    /\ UNCHANGED <<sandboxes, nameFilter, run, deleteError>>

FilterByName ==
    /\ ListIsUsed /\ Does
    /\ \E names \in NameFilters \ {nameFilter} : nameFilter' = names
    /\ selection' = ClearSelection
    /\ UNCHANGED <<sandboxes, scope, pager, cache, fetching, failed, kept, question, run, deleteError>>

ToggleOne ==
    /\ ListIsUsed /\ Does
    /\ \E n \in PageNames :
          selection' = [selection EXCEPT !.selected = IF n \in @ THEN @ \ {n} ELSE @ \union {n}]
    /\ UNCHANGED <<sandboxes, scope, pager, cache, fetching, failed, kept, nameFilter, question, run, deleteError>>
ToggleAll ==
    /\ ListIsUsed /\ Does /\ PageNames # {}
    /\ selection' = [selection EXCEPT !.selected = IF PageNames \subseteq @ THEN @ \ PageNames ELSE @ \union PageNames]
    /\ UNCHANGED <<sandboxes, scope, pager, cache, fetching, failed, kept, nameFilter, question, run, deleteError>>

-----------------------------------------------------------------------------
(* Deletion. *)

Ask(names) ==
    /\ ListIsUsed /\ question' = [names |-> names, workspace |-> scope.workspace]
    /\ UNCHANGED <<sandboxes, scope, pager, cache, fetching, failed, kept, nameFilter, selection, run, deleteError, count>>
DeleteSelected == selection.selected # {} /\ ~pager.transitioning /\ Ask(selection.selected)
DeleteRow == \E n \in PageNames : Ask({n})

(* While a deletion goes on the question can be closed and another asked, and not confirmed. *)
CancelDelete ==
    /\ question # Nothing /\ ~LoadFailed /\ question' = Nothing /\ deleteError' = FALSE
    /\ UNCHANGED <<sandboxes, scope, pager, cache, fetching, failed, kept, nameFilter, selection, run, count>>

(* All of them at once, in the workspace that is shown now. *)
ConfirmDelete ==
    /\ question # Nothing /\ ~LoadFailed /\ run = Nothing /\ Does
    /\ run' = [workspace |-> scope.workspace, asked |-> question, pending |-> question.names, rejected |-> FALSE,
               refetching |-> FALSE, outcomes |-> {}, gone |-> {}, untold |-> {}]
    /\ deleteError' = FALSE
    /\ UNCHANGED <<sandboxes, scope, pager, cache, fetching, failed, kept, nameFilter, selection, question>>

(* One of the deletions is answered, or fails; a sandbox that is not found is a failure. *)
DeleteSandbox ==
    /\ run # Nothing
    /\ \E n \in run.pending, answer \in Outcomes \union {"another number", "no outcome", "error"} :
          /\ GatewayDeletes(run.workspace, n, answer)
          /\ run' = [run EXCEPT !.pending = @ \ {n}, !.rejected = @ \/ answer = "error",
                                !.outcomes = IF answer = "error" THEN @
                                             ELSE @ \union {DeletionOutcome(FromSDKDeletion(answer))},
                                !.gone = IF n \in sandboxes'[run.workspace] THEN @ ELSE @ \union {n},
                                !.untold = IF answer = "no outcome" THEN @ \union {n} ELSE @]
    /\ UNCHANGED <<scope, pager, cache, fetching, failed, kept, nameFilter, selection, question, deleteError, count>>

(* When all are answered the lists of the workspace are read again, the one that is shown at once. *)
InvalidateQueries ==
    /\ run # Nothing /\ run.pending = {} /\ ~run.refetching
    /\ run' = [run EXCEPT !.refetching = TRUE]
    /\ fetching' = IF scope.workspace = run.workspace THEN fetching \union {Current} ELSE fetching
    /\ UNCHANGED <<sandboxes, scope, pager, cache, failed, kept, nameFilter, selection, question, deleteError, count>>

(* A failure is shown; without any it is announced what was done (DescribeDeletions), whatever is selected is let go   *)
(* of, and whatever question is open is closed.                                                                         *)
RunEnds ==
    /\ run # Nothing /\ run.refetching /\ (scope.workspace = run.workspace => Current \notin fetching)
    /\ run' = Nothing
    /\ IF run.rejected
       THEN deleteError' = TRUE /\ UNCHANGED <<selection, question>>
       ELSE selection' = ClearSelection /\ question' = Nothing /\ UNCHANGED deleteError
    /\ UNCHANGED <<sandboxes, scope, pager, cache, fetching, failed, kept, nameFilter, count>>

Next ==
    \/ Poll \/ Fetched \/ FetchFails \/ OthersCreateOrDelete
    \/ NextPage \/ Previous \/ PerPageSelect \/ StartAtFirstPage \/ ApplyFilters \/ GoToWorkspace
    \/ FilterByName \/ ToggleOne \/ ToggleAll
    \/ DeleteSelected \/ DeleteRow \/ CancelDelete \/ ConfirmDelete \/ DeleteSandbox \/ InvalidateQueries \/ RunEnds

Spec == Init /\ [][Next]_vars

-----------------------------------------------------------------------------
(* Properties. *)

(* What the page deletes was named in a question that was asked in the very workspace it is deleted from, and that was *)
(* confirmed: a question, a selection or a deletion of another workspace, that has sandboxes of the same names, deletes *)
(* nothing (SandboxListPage.tsx, deleteTargets and bulkDelete).                                                          *)
OnlyTheAskedIsDeleted ==
    [][\A w \in Workspaces, n \in Names :
          n \in sandboxes[w] \ sandboxes'[w] /\ run' # run
          => run.asked.workspace = w /\ n \in run.asked.names]_vars

(* A deletion that is announced as a success has happened: every sandbox that was asked about had gone by the time its *)
(* own answer was given, and neither a deletion that was only accepted nor an outcome that nobody knows is taken for    *)
(* one. An answer that says no outcome is taken for one on purpose (models/sdk_converters.go, FromSDKDeletion, and      *)
(* deletion_test.go, "nil result stays backward compatible"; utils/deletion.ts): of it the announcement proves nothing. *)
SuccessMeansGone ==
    [][run # Nothing /\ run' = Nothing /\ ~run.rejected /\ DescribeDeletions(run.outcomes) = "success"
          => run.asked.names \subseteq run.gone \union run.untold]_vars

=============================================================================
