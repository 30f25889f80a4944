--------------------------- MODULE WorkspacePage ----------------------------
(* The page of a workspace (pages/WorkspaceDetailPage.tsx), of which the tabs of the sandboxes and of the provider     *)
(* profiles are modelled. Both stay mounted whichever is shown, a dialog keeps the tabs from use until it is closed,   *)
(* and they share neither state nor anything the gateway holds: a behaviour is that of the tab that is used, and the   *)
(* other one stays as it was mounted.                                                                                  *)
EXTENDS ProfilesPanel

CONSTANTS Workspaces, Names, Order, Selectors, Matching, NameFilters, PageSizes, MaxSteps

(* The page is that of some workspace. *)
ASSUME PageAssumption == Workspaces # {}

VARIABLES activeTab,  \* the tab that is used
          sandboxes, scope, pager, cache, fetching, failed, kept, nameFilter, selection, question, run, deleteError, count

sandboxVars == <<sandboxes, scope, pager, cache, fetching, failed, kept, nameFilter, selection, question, run, deleteError, count>>

SandboxTab == INSTANCE SandboxList

Tabs == {"sandboxes", "profiles"}

(* How profiles are reached makes no difference to the sandboxes, so one way is enough for their tab. *)
PageInit ==
    /\ activeTab \in Tabs
    /\ Init /\ (activeTab = "sandboxes" => gw.supports /\ gw.store = "raw")
    /\ SandboxTab!Init

PageNext ==
    \/ activeTab = "profiles" /\ Next /\ UNCHANGED <<activeTab, sandboxVars>>
    \/ activeTab = "sandboxes" /\ SandboxTab!Next /\ UNCHANGED <<activeTab, vars>>

PageSpec == PageInit /\ [][PageNext]_<<activeTab, vars, sandboxVars>>

-----------------------------------------------------------------------------
(* What the page deletes was named in a question that was asked in the workspace it is deleted from, and confirmed     *)
(* (SandboxListPage.tsx, deleteTargets and bulkDelete); see SandboxList. What is said of the profiles is said in       *)
(* ProfilesPanel.                                                                                                      *)
OnlyTheAskedIsDeleted == SandboxTab!OnlyTheAskedIsDeleted

(* What is announced as deleted is gone, where the gateway said of every deletion what became of it                    *)
(* (models/sdk_converters.go, FromSDKDeletion, and utils/deletion.ts).                                                  *)
SuccessMeansGone == SandboxTab!SuccessMeansGone

=============================================================================
