---------------------------- MODULE DraftReview ----------------------------
(***************************************************************************)
(* Deciding on draft policy chunks: the Drafts tab of the frontend         *)
(* (SandboxDraftsTab/ and the draft hooks of api/policy.ts) over the draft *)
(* handlers of the backend (drafts_handler.go) and a gateway (external)    *)
(* whose chunks agents, the analysis and other reviewers change meanwhile. *)
(*                                                                         *)
(* The gateway's changes are numbered (rev). A chunk's version is the      *)
(* number of the change that last evaluated it, and its review token, on a *)
(* gateway that issues them, pins that version. Whether a button is there  *)
(* at all also depends on the reviewer's role and on a global policy, both *)
(* of which the gateway checks again: it may refuse anything.              *)
(***************************************************************************)
EXTENDS Integers, FiniteSets

CONSTANTS Chunks,       \* ids of draft chunks
          Filters,      \* statuses the table is narrowed to
          MaxRev,       \* bound: changes in the gateway
          MaxRequests   \* bound: decisions sent

ASSUME FiltersAssumption == Filters \subseteq {"pending", "approved", "rejected"}
ASSUME BoundsAssumption == MaxRev \in Nat \ {0} /\ MaxRequests \in Nat

VARIABLES tokens,    \* whether the gateway issues review tokens
          chunk, rev,
          filter,    \* statusFilter, "all" when none is chosen
          data,      \* react-query: the answer cached for a filter
          fetch,     \* the read under way for a filter
          editing,   \* the chunk in the edit modal
          req,       \* the decisions sent, to the backend and on
          sent,      \* how many there are
          granted,   \* history: the approvals the gateway made for them
          owed       \* history: the change a filter's answer must include

vars == <<tokens, chunk, rev, filter, data, fetch, editing, req, sent,
          granted, owed>>

Keys == {"all"} \cup Filters
Revs == 0 .. MaxRev
Requests == 1 .. MaxRequests
Statuses == {"absent", "pending", "approved", "rejected"}
NoChunk == [status |-> "absent", version |-> 0]
Draft == [Chunks -> [status : Statuses, version : Revs]]
Empty == [c \in Chunks |-> NoChunk]

Unloaded == [rev |-> 0, chunks |-> Empty]
Fetch(at, answer) == [at |-> at, answer |-> answer]
NoEdit == [open |-> FALSE, chunks |-> {}, saved |-> FALSE]
NoPins == [c \in Chunks |-> 0]
NotSent == [kind |-> "none", of |-> "tab", at |-> "none", chunks |-> {},
            token |-> NoPins, read |-> NoPins, rev |-> 0]
Over == [kind |-> "none", of |-> "tab", at |-> "over", chunks |-> {},
         token |-> NoPins, read |-> NoPins, rev |-> 0]

\* A gateway that issues no tokens answers, and accepts, the empty one.
Token(version) == IF tokens THEN version ELSE 0
Versions(listed) == [c \in Chunks |-> listed[c].version]
As(c, status) == [status |-> status, version |-> chunk[c].version]
PendingIn(listed) == {c \in Chunks : listed[c].status = "pending"}
Answer(f) == [rev |-> rev,
              chunks |-> [c \in Chunks |-> IF f \in {"all", chunk[c].status}
                                           THEN chunk[c] ELSE NoChunk]]

\* useDraftPolicy is called for the whole inbox and for the filter.
Active(f) == f \in {"all", filter}
Loaded(f) == data[f].rev > 0
AtRest(f) == fetch[f].at \in {"idle", "failed"}

inbox == data["all"].chunks
table == data[filter].chunks

Init ==
    /\ tokens \in BOOLEAN
    /\ rev = 1
    /\ chunk \in [Chunks -> {NoChunk, [status |-> "pending", version |-> 1]}]
    /\ filter = "all"
    /\ data = [f \in Keys |-> Unloaded]
    /\ fetch = [f \in Keys |-> Fetch(IF f = "all" THEN "asked" ELSE "idle", Unloaded)]
    /\ editing = NoEdit
    /\ req = [i \in Requests |-> NotSent] /\ sent = 0
    /\ granted = {}
    /\ owed = [f \in Keys |-> 0]

gateway == <<chunk, rev, granted>>
queries == <<data, fetch, owed>>

-----------------------------------------------------------------------------
\* The gateway's other clients.

Change(c, to) ==
    /\ rev < MaxRev
    /\ rev' = rev + 1
    /\ chunk' = [chunk EXCEPT ![c] = to]

\* A chunk is proposed, or proposed again with another rule and so evaluated
\* anew; or another reviewer decides on it, or clears it away.
OthersChange(c) ==
    /\ \/ /\ chunk[c].status \in {"absent", "pending", "rejected"}
          /\ Change(c, [status |-> "pending", version |-> rev + 1])
       \/ /\ chunk[c].status # "absent"
          /\ \E s \in {"pending", "approved", "rejected"} \ {chunk[c].status} :
                Change(c, As(c, s))
       \/ /\ chunk[c].status = "pending"
          /\ Change(c, NoChunk)
    /\ UNCHANGED <<tokens, filter, queries, editing, req, sent, granted>>

-----------------------------------------------------------------------------
\* The tab's reads.

\* The poll, or a refetch by hand: one read per filter at a time.
Poll(f) ==
    /\ Active(f) /\ AtRest(f)
    /\ fetch' = [fetch EXCEPT ![f] = Fetch("asked", Unloaded)]
    /\ UNCHANGED <<tokens, gateway, filter, data, editing, req, sent, owed>>

\* GetDraftPolicy
GetDraftPolicy(f) ==
    /\ fetch[f].at = "asked"
    /\ fetch' = [fetch EXCEPT ![f] = Fetch("read", Answer(f))]
    /\ UNCHANGED <<tokens, gateway, filter, data, editing, req, sent, owed>>

Receive(f) ==
    /\ fetch[f].at = "read"
    /\ data' = [data EXCEPT ![f] = fetch[f].answer]
    /\ fetch' = [fetch EXCEPT ![f] = Fetch("idle", Unloaded)]
    /\ UNCHANGED <<tokens, gateway, filter, editing, req, sent, owed>>

\* A read that fails leaves what is shown, with a note above it.
ReadFails(f) ==
    /\ fetch[f].at \in {"asked", "read"}
    /\ fetch' = [fetch EXCEPT ![f] = Fetch("failed", Unloaded)]
    /\ UNCHANGED <<tokens, gateway, filter, data, editing, req, sent, owed>>

\* The answer cached for a filter is shown at once and read again, unless it
\* is being read already.
SetStatusFilter(f) ==
    /\ Loaded("all")
    /\ f # filter
    /\ filter' = f
    /\ fetch' = IF AtRest(f) THEN [fetch EXCEPT ![f] = Fetch("asked", Unloaded)]
                             ELSE fetch
    /\ UNCHANGED <<tokens, gateway, data, editing, req, sent, owed>>

-----------------------------------------------------------------------------
\* The reviewer's decisions.

IsPending(kind) ==
    \E i \in Requests : /\ req[i].kind = kind /\ req[i].of = "tab"
                        /\ req[i].at \in {"sent", "resolved", "done"}

\* A request that names chunks, each with its token, as its sender read them.
Send(of, kind, chunks, listed) ==
    /\ sent < MaxRequests
    /\ sent' = sent + 1
    /\ req' = [req EXCEPT ![sent + 1] =
          [kind |-> kind, of |-> of, at |-> "sent", chunks |-> chunks,
           token |-> [c \in Chunks |-> IF c \in chunks THEN Token(listed[c].version) ELSE 0],
           read |-> Versions(listed),
           rev |-> 0]]
    /\ UNCHANGED <<tokens, gateway, filter, queries>>

\* The buttons of a row, by the status the row shows.
Decide(kind, c) ==
    /\ Loaded("all")
    /\ ~IsPending(kind)
    /\ \/ kind = "approve" /\ table[c].status \in {"pending", "rejected"}
       \/ kind = "reject" /\ table[c].status \in {"pending", "approved"}
       \/ kind = "undo" /\ table[c].status = "approved"
    /\ Send("tab", kind, {c}, table)
    /\ UNCHANGED editing

\* Both bulk decisions count, and the approval names, the pending chunks of
\* the inbox, whatever the table is narrowed to. A clear names nothing.
DecideAll(kind) ==
    /\ Loaded("all")
    /\ ~IsPending(kind)
    /\ PendingIn(inbox) # {}
    /\ kind \in {"approveAll", "clear"}
    /\ Send("tab", kind, IF kind = "approveAll" THEN PendingIn(inbox) ELSE {}, inbox)
    /\ UNCHANGED editing

\* Another client of the backend, which sends no tokens.
ApproveWithoutTokens(kind, chunks) ==
    /\ \/ kind = "approve" /\ Cardinality(chunks) = 1
       \/ kind = "approveAll" /\ chunks = {}
    /\ Send("api", kind, chunks, Empty)
    /\ UNCHANGED editing

\* The modal keeps the chunk as it was when it was opened.
OpenEdit(c) ==
    /\ Loaded("all")
    /\ ~editing.open
    /\ table[c].status = "pending"
    /\ editing' = [open |-> TRUE, chunks |-> {c}, saved |-> FALSE]
    /\ UNCHANGED <<tokens, gateway, filter, queries, req, sent>>

SaveEdit ==
    /\ editing.open
    /\ ~IsPending("edit")
    /\ editing' = [editing EXCEPT !.saved = TRUE]
    /\ Send("tab", "edit", editing.chunks, Empty)

\* Fault: the mutation is not reset.
Fault_CloseEdit ==
    /\ editing.open
    /\ editing' = NoEdit
    /\ UNCHANGED <<tokens, gateway, filter, queries, req, sent>>

Released(request) == [request EXCEPT !.of = "reset"]

\* onClose: actions.edit.reset() lets go of a save that is under way.
CloseEdit ==
    /\ editing.open
    /\ editing' = NoEdit
    /\ req' = [i \in Requests |-> IF req[i].kind = "edit" THEN Released(req[i]) ELSE req[i]]
    /\ UNCHANGED <<tokens, gateway, filter, queries, sent>>

-----------------------------------------------------------------------------
\* The backend and the gateway, up to the answer to a decision.

\* Fault: the client's token is not used.
Fault_NeedsRead(i) == req[i].at = "sent" /\ req[i].kind \in {"approve", "approveAll"}

\* Only an approval without a token, or a bulk one without chunks, is
\* completed from what the gateway holds.
NeedsRead(i) ==
    /\ req[i].at = "sent"
    /\ \/ req[i].kind = "approve" /\ \A c \in req[i].chunks : req[i].token[c] = 0
       \/ req[i].kind = "approveAll" /\ req[i].chunks = {}

\* resolveDraftReviewToken, pendingDraftApprovals. What is read here is what
\* a client that read nothing decides on.
ReadsDraft(i) ==
    LET named == IF req[i].kind = "approveAll" THEN PendingIn(chunk) ELSE req[i].chunks
    IN  req' = [req EXCEPT
          ![i].at = "resolved",
          ![i].chunks = named,
          ![i].token = [c \in Chunks |-> IF c \in named THEN Token(chunk[c].version) ELSE 0],
          ![i].read = IF req[i].of = "api" THEN Versions(chunk) ELSE @]

ResolveApprovals(i) ==
    /\ NeedsRead(i)
    /\ ReadsDraft(i)
    /\ UNCHANGED <<tokens, gateway, filter, queries, editing, sent>>

Ready(i) == req[i].at \in {"sent", "resolved"} /\ ~NeedsRead(i)

\* The gateway approves a version only under its token; one that issues none
\* approves whatever is pending there.
Approvable(i) ==
    LET Matches(c) == Token(chunk[c].version) = req[i].token[c]
        named == req[i].chunks
    IN  IF req[i].kind = "approve"
        THEN {c \in named : Matches(c) /\ chunk[c].status \in {"pending", "rejected"}}
        ELSE {c \in PendingIn(chunk) : /\ Matches(c)
                                       /\ c \in named \/ (named = {} /\ ~tokens)}

WithStatus(cs, s) == [c \in Chunks |-> IF c \in cs THEN As(c, s) ELSE chunk[c]]
Evaluated(cs) ==
    [c \in Chunks |-> IF c \in cs THEN [status |-> chunk[c].status, version |-> rev + 1]
                                  ELSE chunk[c]]
Without(cs) == [c \in Chunks |-> IF c \in cs THEN NoChunk ELSE chunk[c]]

\* What a decision makes of the chunks: a bulk approval may skip any of them,
\* and is a conflict when nothing is pending.
Decided(i) ==
    LET kind == req[i].kind
        named == req[i].chunks
        AllIn(statuses) == \A c \in named : chunk[c].status \in statuses
    IN  \/ /\ kind \in {"approve", "approveAll"}
           /\ kind = "approveAll" => PendingIn(chunk) # {}
           /\ \E cs \in SUBSET Approvable(i) :
                 /\ kind = "approve" => cs # {}
                 /\ chunk' = WithStatus(cs, "approved")
        \/ /\ kind = "reject" /\ AllIn({"pending", "approved"})
           /\ chunk' = WithStatus(named, "rejected")
        \/ /\ kind = "undo" /\ AllIn({"approved"})
           /\ chunk' = WithStatus(named, "pending")
        \/ /\ kind = "edit" /\ AllIn({"pending"})
           /\ chunk' = Evaluated(named)
        \/ /\ kind = "clear"
           /\ chunk' = Without(PendingIn(chunk))

\* The last call of each handler.
Execute(i) ==
    /\ Ready(i)
    /\ rev < MaxRev
    /\ rev' = rev + 1
    /\ Decided(i)
    /\ req' = [req EXCEPT ![i].at = "done", ![i].rev = rev']
    /\ granted' = granted \cup
          {[version |-> chunk[c].version, read |-> req[i].read[c]] :
              c \in {k \in Chunks : /\ req[i].kind \in {"approve", "approveAll"}
                                    /\ chunk'[k].status # chunk[k].status}}
    /\ UNCHANGED <<tokens, filter, queries, editing, sent>>

-----------------------------------------------------------------------------
\* The answer to a decision.

\* Fault: a read that is under way is left to end.
Fault_Refetch(f) == IF Active(f) /\ AtRest(f) THEN Fetch("asked", Unloaded) ELSE fetch[f]

\* invalidateQueries on a key that is a prefix of every filter's: what is on
\* screen is read again, in place of a read that is under way, except a first
\* one, which is left to end.
Refetch(f) ==
    IF Active(f) /\ (Loaded(f) \/ AtRest(f)) THEN Fetch("asked", Unloaded) ELSE fetch[f]

\* useDraftMutation's onSuccess, and the one that closes the edit modal.
Succeed(i) ==
    /\ req[i].at = "done"
    /\ req' = [req EXCEPT ![i] = Over]
    /\ IF req[i].of = "api"
       THEN UNCHANGED <<fetch, owed>>
       ELSE /\ fetch' = [f \in Keys |-> Refetch(f)]
            /\ owed' = [f \in Keys |-> IF Active(f) /\ Loaded(f) /\ req[i].rev > owed[f]
                                       THEN req[i].rev ELSE owed[f]]
    /\ editing' = IF req[i].kind = "edit" /\ req[i].of = "tab" THEN NoEdit ELSE editing
    /\ UNCHANGED <<tokens, gateway, filter, data, sent>>

\* The gateway refuses, or is not reached by one of the handler's calls, or
\* the answer is lost: nothing is read again.
Fail(i) ==
    /\ req[i].at \in {"sent", "resolved", "done"}
    /\ req' = [req EXCEPT ![i] = Over]
    /\ UNCHANGED <<tokens, gateway, filter, queries, editing, sent>>

Reviewer ==
    \/ \E f \in Keys : SetStatusFilter(f)
    \/ \E c \in Chunks : OpenEdit(c) \/ \E kind \in {"approve", "reject", "undo"} : Decide(kind, c)
    \/ \E kind \in {"approveAll", "clear"} : DecideAll(kind)
    \/ SaveEdit \/ CloseEdit

Reads == \E f \in Keys : Poll(f) \/ GetDraftPolicy(f) \/ Receive(f) \/ ReadFails(f)
Handler(i) == ResolveApprovals(i) \/ Execute(i) \/ Succeed(i) \/ Fail(i)

Next ==
    \/ \E c \in Chunks : OthersChange(c)
    \/ Reviewer
    \/ \E kind \in {"approve", "approveAll"}, cs \in SUBSET Chunks : ApproveWithoutTokens(kind, cs)
    \/ Reads
    \/ \E i \in Requests : Handler(i)

Spec == Init /\ [][Next]_vars

-----------------------------------------------------------------------------

Grants == [version : Revs, read : Revs]

\* Every variable has its type.
TypeOK ==
    /\ tokens \in BOOLEAN
    /\ chunk \in Draft /\ rev \in 1 .. MaxRev
    /\ filter \in Keys
    /\ data \in [Keys -> [rev : Revs, chunks : Draft]]
    /\ fetch \in [Keys -> [at : {"idle", "failed", "asked", "read"},
                           answer : [rev : Revs, chunks : Draft]]]
    /\ editing \in [open : BOOLEAN, chunks : SUBSET Chunks, saved : BOOLEAN]
    /\ req \in [Requests -> [kind : {"none", "approve", "approveAll", "reject", "edit",
                                     "undo", "clear"},
                             of : {"tab", "reset", "api"},
                             at : {"none", "sent", "resolved", "done", "over"},
                             chunks : SUBSET Chunks, token : [Chunks -> Revs],
                             read : [Chunks -> Revs], rev : Revs]]
    /\ sent \in 0 .. MaxRequests
    /\ granted \subseteq Grants
    /\ owed \in [Keys -> Revs]

\* "Use the token the client already has" (drafts_handler.go): however a chunk
\* changed between the reading, the click and the gateway's decision, the
\* version approved is the one its reviewer had read; where a client read
\* nothing, the one the backend read for it, and nothing proposed since.
ApprovesWhatWasRead == tokens => \A g \in granted : g.version = g.read

\* Once a decision of the tab is answered, no read that was made before it is
\* what a list on screen settles on: a list at rest includes it. A list that
\* was not on screen, or had never loaded, when it was answered is not owed
\* this.
DecisionIsShown ==
    \A f \in Keys : Active(f) /\ fetch[f].at = "idle" => data[f].rev >= owed[f]

\* A save that ends closes the modal it was made in, and no other: not one
\* opened for another chunk after the first was cancelled.
OwnSaveCloses ==
    [][\A i \in Requests : editing.open /\ req[i].at = "done" /\ req'[i].at = "over"
          /\ ~editing'.open => editing.saved /\ req[i].chunks = editing.chunks]_vars

-----------------------------------------------------------------------------

\* The inductive invariant behind ApprovesWhatWasRead.

\* What is there, or was read, was evaluated.
Versioned(listed) == \A c \in Chunks : listed[c].status # "absent" => listed[c].version # 0

AllVersioned == /\ Versioned(chunk)
                /\ \A f \in Keys : Versioned(data[f].chunks)
                                  /\ Versioned(fetch[f].answer.chunks)

\* A token that is held pins what was read with it.
Pins == tokens => \A i \in Requests, c \in Chunks :
                     req[i].token[c] # 0 => req[i].token[c] = req[i].read[c]

\* An approval of the tab names chunks, with their tokens: the backend has
\* nothing to complete it with.
TabPins == tokens => \A i \in Requests : req[i].of # "api" => ~NeedsRead(i)

IInv == TypeOK /\ AllVersioned /\ Pins /\ TabPins /\ ApprovesWhatWasRead
=============================================================================
