--------------------------- MODULE MCDraftSummary ---------------------------
(* Bounds of DraftSummary for TLC. *)
EXTENDS DraftSummary

CONSTANT team

Named == [isNil |-> FALSE, workspace |-> team]
Unnamed == [isNil |-> FALSE, workspace |-> NoWorkspace]
NilPointer == [isNil |-> TRUE, workspace |-> NoWorkspace]

\* More sandboxes than goroutines, and one of each kind of entry.
MCListings == { <<Named, Named, Named>>, <<Unnamed, NilPointer, Named>> }
=============================================================================
