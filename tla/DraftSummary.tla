---------------------------- MODULE DraftSummary ----------------------------
(***************************************************************************)
(* The draft summary of the backend (summarizeDrafts in                    *)
(* backend/pkg/handlers/drafts_handler.go): one GetDraftPolicy per sandbox *)
(* of a listing, made by a pool of goroutines that a dispatcher feeds over *)
(* an unbuffered channel, under one context that ends when the client goes *)
(* away or the time is up.                                                 *)
(*                                                                         *)
(* The gateway's inboxes change while they are being read (agents propose, *)
(* reviewers decide, sandboxes are deleted); `seen` is a history variable  *)
(* that remembers what each inbox has been since the request came in.      *)
(***************************************************************************)
EXTENDS Integers, FiniteSets

CONSTANTS N,            \* length of the listing being summarized
          Concurrency,  \* draftSummaryConcurrency
          MaxPending,   \* bound: most pending chunks an inbox holds
          Workspaces,   \* names of workspaces
          NoWorkspace,  \* the empty workspace name
          Listings      \* bound: the listings a request may be about

ASSUME ListingAssumption == N \in Nat
ASSUME PoolAssumption == Concurrency \in Nat \ {0}
ASSUME PendingAssumption == MaxPending \in Nat
ASSUME WorkspaceAssumption == NoWorkspace \notin Workspaces
ASSUME ListingsAssumption ==
    Listings \subseteq [1 .. N -> [isNil : BOOLEAN,
                                  workspace : Workspaces \cup {NoWorkspace}]]

VARIABLES sandboxes,  \* the listing: position -> what is listed there
          workspace,  \* the fallback of a sandbox that names no workspace
          inbox,      \* gateway: pending chunks by position, or Gone
          seen,       \* history: every value inbox has had since the request
          ctx,        \* "live", or "done" once the client left or time ran out
          pc,         \* where the dispatching handler is
          next,       \* the position its loop is at
          read,       \* read[i]: position i needs no "unavailable" of the sweep
          entries,    \* what the workers wrote
          worker,     \* position a worker is reading, or Idle, or Exited
          late        \* history: reads started after the context ended

vars == <<sandboxes, workspace, inbox, seen, ctx, pc, next, read, entries,
          worker, late>>

Index == 1 .. N
Gone == -1
Idle == 0
Exited == -1

\* Goroutines: for range min(draftSummaryConcurrency, len(sandboxes)).
Workers == 1 .. (IF Concurrency < N THEN Concurrency ELSE N)

Entry == [kind : {"none", "unavailable", "pending"}, count : 0 .. MaxPending]
None == [kind |-> "none", count |-> 0]
Unavailable == [kind |-> "unavailable", count |-> 0]
Pending(n) == [kind |-> "pending", count |-> n]

Names == Workspaces \cup {NoWorkspace}
Contents == (0 .. MaxPending) \cup {Gone}

SandboxWorkspaceOr(i) ==
    IF sandboxes[i].workspace # NoWorkspace THEN sandboxes[i].workspace
                                            ELSE workspace

\* A listed sandbox that resolves to no workspace. There is no selector to
\* read it with.
Unscoped(i) == /\ ~sandboxes[i].isNil
               /\ SandboxWorkspaceOr(i) = NoWorkspace

-----------------------------------------------------------------------------

Init ==
    /\ sandboxes \in Listings
    /\ workspace \in Names
    /\ inbox \in [Index -> Contents \ {Gone}]
    /\ seen = [i \in Index |-> {inbox[i]}]
    /\ ctx = "live"
    /\ pc = "mark"
    /\ next = 1
    /\ read = [i \in Index |-> FALSE]
    /\ entries = [i \in Index |-> None]
    /\ worker = [w \in Workers |-> Idle]
    /\ late = 0

listing == <<sandboxes, workspace>>
gateway == <<inbox, seen>>

\* Before any worker is started: an unscoped sandbox is unavailable, and
\* counts as read so that the dispatcher never offers it.
MarkUnscoped ==
    /\ pc = "mark"
    /\ entries' = [i \in Index |-> IF Unscoped(i) THEN Unavailable ELSE None]
    /\ read' = [i \in Index |-> Unscoped(i)]
    /\ pc' = "dispatch"
    /\ UNCHANGED <<listing, gateway, ctx, next, worker, late>>

SkipRead ==
    /\ pc = "dispatch" /\ next <= N
    /\ read[next]
    /\ next' = next + 1
    /\ UNCHANGED <<listing, gateway, ctx, pc, read, entries, worker, late>>

\* The context is looked at once per position; the position counts as read
\* from here on, although no worker has it yet.
Offer ==
    /\ pc = "dispatch" /\ next <= N
    /\ ~read[next]
    /\ ctx = "live"
    /\ read' = [read EXCEPT ![next] = TRUE]
    /\ pc' = "send"
    /\ UNCHANGED <<listing, gateway, ctx, next, entries, worker, late>>

\* Every position was offered, or the context ended: close(indexes).
CloseIndexes ==
    /\ pc = "dispatch"
    /\ \/ next > N
       \/ /\ next <= N /\ ~read[next] /\ ctx = "done"
    /\ pc' = "wait"
    /\ UNCHANGED <<listing, gateway, ctx, next, read, entries, worker, late>>

\* The unbuffered channel: the dispatcher's send and a worker's receive are
\* one step. A nil sandbox is passed over, which leaves the worker receiving.
Hand(w) ==
    /\ pc = "send"
    /\ worker[w] = Idle
    /\ pc' = "dispatch"
    /\ next' = next + 1
    /\ IF sandboxes[next].isNil
       THEN UNCHANGED <<worker, late>>
       ELSE /\ worker' = [worker EXCEPT ![w] = next]
            /\ late' = IF ctx = "done" THEN late + 1 ELSE late
    /\ UNCHANGED <<listing, gateway, ctx, read, entries>>

\* What pendingDrafts makes of an answer: nothing pending and a sandbox that
\* is gone (NotFound) both leave no entry.
EntryOf(content) == IF content \in {0, Gone} THEN None ELSE Pending(content)

PendingDrafts(w) ==
    /\ worker[w] \in Index
    /\ entries' = [entries EXCEPT ![worker[w]] = EntryOf(inbox[worker[w]])]
    /\ worker' = [worker EXCEPT ![w] = Idle]
    /\ UNCHANGED <<listing, gateway, ctx, pc, next, read, late>>

\* Fault: a read that fails leaves no entry.
Fault_PendingDraftsFail(w) ==
    /\ worker[w] \in Index
    /\ worker' = [worker EXCEPT ![w] = Idle]
    /\ UNCHANGED <<listing, gateway, ctx, pc, next, read, entries, late>>

\* Fault: a read that fails ends its goroutine.
Fault_PendingDraftsReturn(w) ==
    /\ worker[w] \in Index
    /\ entries' = [entries EXCEPT ![worker[w]] = Unavailable]
    /\ worker' = [worker EXCEPT ![w] = Exited]
    /\ UNCHANGED <<listing, gateway, ctx, pc, next, read, late>>

\* GetDraft failed, or its own deadline or the summary's passed.
PendingDraftsFail(w) ==
    /\ worker[w] \in Index
    /\ entries' = [entries EXCEPT ![worker[w]] = Unavailable]
    /\ worker' = [worker EXCEPT ![w] = Idle]
    /\ UNCHANGED <<listing, gateway, ctx, pc, next, read, late>>

\* The range over the closed channel ends.
WorkerExit(w) ==
    /\ pc = "wait"
    /\ worker[w] = Idle
    /\ worker' = [worker EXCEPT ![w] = Exited]
    /\ UNCHANGED <<listing, gateway, ctx, pc, next, read, entries, late>>

\* Fault: the goroutines are not waited for.
Fault_Sweep ==
    /\ pc = "wait"
    /\ entries' = [i \in Index |-> IF ~read[i] /\ ~sandboxes[i].isNil
                                   THEN Unavailable ELSE entries[i]]
    /\ pc' = "answered"
    /\ UNCHANGED <<listing, gateway, ctx, next, read, worker, late>>

\* After wg.Wait: what nobody read is unavailable, and the summary is written.
Sweep ==
    /\ pc = "wait"
    /\ \A w \in Workers : worker[w] = Exited
    /\ entries' = [i \in Index |-> IF ~read[i] /\ ~sandboxes[i].isNil
                                   THEN Unavailable ELSE entries[i]]
    /\ pc' = "answered"
    /\ UNCHANGED <<listing, gateway, ctx, next, read, worker, late>>

CtxEnds ==
    /\ ctx = "live" /\ pc # "answered"
    /\ ctx' = "done"
    /\ UNCHANGED <<listing, gateway, pc, next, read, entries, worker, late>>

\* The gateway's side: a chunk is proposed or decided, a sandbox deleted.
InboxChanges(i) ==
    /\ pc # "answered" /\ ~sandboxes[i].isNil
    /\ inbox[i] # Gone
    /\ \E c \in {inbox[i] - 1, inbox[i] + 1, Gone} \cap Contents :
          /\ inbox' = [inbox EXCEPT ![i] = c]
          /\ seen' = [seen EXCEPT ![i] = @ \cup {c}]
    /\ UNCHANGED <<listing, ctx, pc, next, read, entries, worker, late>>

Dispatcher == MarkUnscoped \/ SkipRead \/ Offer \/ CloseIndexes \/ Sweep
Worker(w) == Hand(w) \/ PendingDrafts(w) \/ PendingDraftsFail(w) \/ WorkerExit(w)

Next == \/ Dispatcher
        \/ \E w \in Workers : Worker(w)
        \/ CtxEnds
        \/ \E i \in Index : InboxChanges(i)

\* Goroutines are scheduled, and every read ends: pendingDrafts gives each a
\* deadline of its own.
Fairness == /\ WF_vars(Dispatcher)
            /\ \A w \in Workers : WF_vars(Worker(w))

Spec == Init /\ [][Next]_vars /\ Fairness

-----------------------------------------------------------------------------

\* Every variable has its type.
TypeOK ==
    /\ sandboxes \in Listings
    /\ workspace \in Names
    /\ inbox \in [Index -> Contents]
    /\ seen \in [Index -> SUBSET Contents]
    /\ ctx \in {"live", "done"}
    /\ pc \in {"mark", "dispatch", "send", "wait", "answered"}
    /\ next \in 1 .. N + 1
    /\ read \in [Index -> BOOLEAN]
    /\ entries \in [Index -> Entry]
    /\ worker \in [Workers -> Index \cup {Idle, Exited}]
    /\ late \in Nat

\* No summary claims what was never so: a sandbox left out of the answer had
\* nothing pending, or was gone, at some moment since the request, and a
\* count that is reported was that inbox's count at some moment. In
\* particular a sandbox that was never read is not left out, and one without
\* a workspace, whose selector would be empty, is reported as unavailable.
AnswerIsTrue ==
    pc = "answered" =>
        \A i \in Index : ~sandboxes[i].isNil =>
            /\ entries[i].kind = "none" => seen[i] \cap {0, Gone} # {}
            /\ entries[i].kind = "pending" =>
                 entries[i].count > 0 /\ entries[i].count \in seen[i]
            /\ Unscoped(i) => entries[i] = Unavailable

\* entries and read are shared without a lock. No two goroutines ever hold
\* the same position, and when the sweep runs nobody is writing.
NoSharedSlot ==
    /\ \A v, w \in Workers : v # w /\ worker[v] \in Index => worker[v] # worker[w]
    /\ pc = "answered" => \A w \in Workers : worker[w] = Exited

\* Once the context has ended at most the one position already being offered
\* is still started: every other one is left to the sweep.
FewLateReads == late <= 1

\* Whatever the client and the gateway do, the handler answers and all its
\* goroutines are gone.
Answers == <>(pc = "answered" /\ \A w \in Workers : worker[w] = Exited)

-----------------------------------------------------------------------------

\* The inductive invariant behind the safety properties above.

BeingRead(i) == \E w \in Workers : worker[w] = i
BeingOffered(i) == pc = "send" /\ next = i

\* Before MarkUnscoped nothing has happened.
BeforeMark ==
    pc = "mark" => /\ \A i \in Index : ~read[i] /\ entries[i] = None
                   /\ \A w \in Workers : worker[w] = Idle

\* A position nobody was given yet has no entry, and neither has the one on
\* offer; positions after the dispatcher's are only read when unscoped.
Untouched ==
    /\ pc = "send" => next \in Index
    /\ \A i \in Index :
          /\ ~read[i] /\ pc # "answered" => entries[i] = None
          /\ pc = "send" /\ i > next /\ read[i] => Unscoped(i)
          /\ pc = "dispatch" /\ i >= next /\ read[i] => Unscoped(i)
          /\ BeingOffered(i) => read[i] /\ ~Unscoped(i)

\* Who reads a position reads it alone, and reads a sandbox with a selector.
Readers ==
    /\ \A w \in Workers : worker[w] \in Index =>
          /\ read[worker[w]]
          /\ ~BeingOffered(worker[w])
          /\ ~sandboxes[worker[w]].isNil
          /\ ~Unscoped(worker[w])
    /\ \A v, w \in Workers : v # w /\ worker[v] \in Index => worker[v] # worker[w]
    /\ pc = "answered" => \A w \in Workers : worker[w] = Exited

\* What an entry says was so, except where its read is still under way.
EntryTruth ==
    \A i \in Index :
        /\ inbox[i] \in seen[i]
        /\ entries[i].kind = "pending" =>
              entries[i].count > 0 /\ entries[i].count \in seen[i]
        /\ entries[i].kind = "none" /\ ~sandboxes[i].isNil
           /\ (read[i] \/ pc = "answered") /\ ~BeingRead(i) /\ ~BeingOffered(i)
           => seen[i] \cap {0, Gone} # {}
        /\ Unscoped(i) /\ pc # "mark" => read[i] /\ entries[i] = Unavailable

LateReads ==
    /\ late <= 1
    /\ ctx = "live" \/ pc = "send" => late = 0

IInv == TypeOK /\ BeforeMark /\ Untouched /\ Readers /\ EntryTruth /\ LateReads

=============================================================================
