# TLA+ models of the OpenShell Dashboard

The dashboard is a Go backend-for-frontend (BFF, `backend/`) in front of an OpenShell gateway, and a React frontend
(`frontend/`). Nearly all state lives in the gateway; what the dashboard adds is *moving* it: files and terminal sessions
over streams, logs over two transports, summaries built from many reads, lists and editors over data that others change.
That is where goroutines, promises, cut connections and late answers meet, and it is what these modules are about.

## Inventory

| Component | State | Operations | With whom | Hard about it |
|---|---|---|---|---|
| Draft summary (`drafts_handler.go`) | entries and marks shared by a goroutine pool | one read per sandbox, sweep of the unread | gateway; polled by the frontend | no lock, time limit, a missing entry means "none pending" |
| Stdin exec client (`rawexec.go`) | one bidirectional stream, two goroutines | send a reader, receive events | upload handler, gateway | flow control, half-sent input, which error wins |
| File upload (`files_handler.go`) | outcomes, directories made, path in hand | parts in order of arrival | stdin exec client, browser | partial failure, a body that ends early or is too large |
| File download (`files_handler.go`) | response started or not, watchdog | probe, stream, exit code | gateway, browser | no status after the first byte, stalls on either side |
| Terminal (`terminal_handler.go`, `SandboxTerminalTab.tsx`) | sockets, sessions, what the tab shows | connect, relay both ways, close | gateway, browser | two goroutines ending one session, events of replaced sockets |
| Log stream (`logs_handler.go`) | channel of one, SSE response | relay, keepalive, end | gateway, Logs tab | goroutine leak, order, honest end |
| Logs tab (`SandboxLogsTab.tsx`, `api/sandboxes.ts`) | transport, lines, latch of failures, react-query cache | subscribe, fall back, poll, retry | log stream, polling handler | late answers, duplicates after reconnect |
| Files tab (`SandboxFilesTab.tsx`, `uploadFile`) | list, queue, workers, abort signal | pick, remove, upload, stop, leave | file upload | the list changes while workers take from a queue |
| Draft review (`drafts_handler.go`, `SandboxDraftsTab/`) | chunks and review tokens (gateway's) | approve, approve all, reject, edit, undo, clear | other reviewers, agents | approving something else than what was read |
| Policy editor (`PolicyRuleEditor/`, `api/policy.ts`, `policies_handler.go`) | document being edited, revision it began at, questions, operations on their way | edit as text or as rules, replace, merge, remove | other editors, agents, global policies | lost updates, a removal that takes more than was shown |
| Policy and profile files and messages (`policyFile.ts`, `profileFile.ts`, `policyproto.go`, `provider_profile.go`, `provider_profile_sdk.go`) | none | read, write, convert both ways | editor, panel, gateway | a field that one of several conversions drops |
| Provider profiles (`ProfilesPanel.tsx`, `ProfileFileModal.tsx`, `provider_profiles_handler.go`, `rawprofile.go`) | files, their check, requests under way | list, export, import, update from a file, create, delete | gateway, two stores, other users | an old file over a new profile, late answers, a store that knows less |
| List of sandboxes (`SandboxListPage.tsx`, `useCursorListPage.ts`, `useCursorSelection.ts`, `useBulkDelete.ts`, `list_pagination.go`) | page tokens, cached pages, selection, question | pages, filters, selection, deletion of many | gateway, other users | rows that come and go, a workspace that changes under a question |
| Release automation (`deploy/ci/upstream/`, `follow-upstream.yml`) | branches, pull requests, issues (GitHub's) | an hourly run: read, plan, publish | upstream, people, main | what was read is stale when written, half a run |
| Session (`authSession.ts`, `client.ts`, `proxy.go`, `auth.go`) | one-shot reload flag, token | 401, reload, bearer forwarding | login proxy | reload loop, flag cleared at the wrong moment |
| Providers (`rawprovider.go`, `providers_handler.go`, `ProviderFormModal.tsx`) | pages of credential keys | read all pages, create, update | gateway | page loops |
| Release line (`compatibility.go`, `gateway_release_line.go`) | none | compare versions | gateway | numeric edges |
| Server (`cmd/server/main.go`, `pkg/server`) | request context | serve, shut down | all handlers | what shutdown waits for |
| Other handlers, converters, pages, scripts, charts | none of their own | one call, one conversion | gateway | nothing interleaves; not modelled |

What makes each modelled component correct is stated in its module, next to the property. `PROJECT.json` lists the
hazards with the lines where they bite. A component with behaviour that no module has yet is under "Not modelled".

## Modules

Each action is one step between two points where another actor can come in: a channel operation, a read or write of a
stream, an `await`, a call to the gateway. A `Fault_` operator before a definition is a plausible mistake in it, used to
see that a property notices; no specification uses one.

A module of proofs covers two components that meet in a part of the code. Where it EXTENDS both, one of them has names
with a prefix (`DownloadInit`, `QueueInit`, `TabInit`, `EditorInit`, ...), so that every theorem is about the
specification that TLC runs.

### DraftSummary, DraftSummaryProofs

`summarizeDrafts`. `MarkUnscoped`, the dispatch loop (`SkipRead`, `Offer`, `CloseIndexes`), the rendezvous on the
unbuffered channel (`Hand`), a worker's read (`PendingDrafts`, `PendingDraftsFail`, `WorkerExit`) and the sweep after
`wg.Wait` (`Sweep`). The time limit and a client that leaves are `CtxEnds`. The gateway's inboxes change during the
request (`InboxChanges`); `seen` is a history of what each has been, so that "nothing pending" can be compared with what
was ever so. `late` counts reads that start after the context ended. An entry is abstracted to its kind and count.

### ExecContract, StdinExec, ExecProofs

`ExecContract` is what `ExecWithStdinStream` promises in its comment: exit 0 without an error means the command had
the whole payload; a reader that fails is what the caller is told about; the reader is not touched after the return.
`StdinExec` is the code: the sender (`SendStart`, `FillChunk`, `FillFails`, `SendChunk`, `CloseSend`), the receiver
(`RecvEvent`, `RecvEnd`, `RecvCancelled`, `ReturnResult`), the shared context and a stream with a window. `StdinExec`
is shown to implement `ExecContract` (property `Promise`, which is also proved), with the payload's progress mapped to
"part", "all" or "short", the last of which the contract does not know.

### Upload, UploadProofs

`UploadFile` and `upload`'s methods. It uses only `ExecContract!Promised` of the client, so that the composition of
the two is checked by parts. `recordingBody` is `body`; `disk` and `dirs` are the sandbox's (external).

### Download, ExecProofs

`DownloadFile` to `downloadWriter.finish`. The watchdog (`time.AfterFunc`) is a goroutine of its own that may fire
before any step. `reply` is what the client can tell: a complete response, an aborted one, or an error with a status.

### Execs, Uploads, Logs

Modules that put two of the others side by side, each of which is checked against all that the other may do to it:
`Execs` the two kinds of request that run a command (`StdinExec`, `Download`), `Uploads` and `Logs` the browser's end and
the backend's (`UploadQueue` and `Upload`, `LogsTab` and `LogRelay`). The two share no state, a behaviour is that of one
of them while the other stays as it begins, and the fairness is that of either. A liveness property of one is stated of its
own behaviours (`CallReturns`, `DownloadEnds`, `HandlerEnds`, `RelayedLinesArrive`, `TabCatchesUp`).

### Terminal, TerminalProofs

Tab, WebSocket and relay together. Sockets are numbered; `cur` is the tab's. Each of the backend's goroutines has its
own program counter, and the close of the session is a step apart from the cancel before it, because the relay may run
between the two. Resizes and keystrokes are frames without content. A frame that was read (`ReadFrame`) is written to the
session, which may take it (`SessionTakes`) or, when the command does not read its input, never; the write then returns only
when the session or its context ends (`WriteReturns`). A close frame is abstracted to an exit status, a
refusal, or nothing.

### LogRelay, LogsTab, LogsProofs

`LogRelay` is the BFF's side: the first `Recv` before the headers, the goroutine that receives, the channel of one, the
`select`, and writes that fail after ten seconds. A keepalive is modelled where it matters, when it cannot be written.
`LogsTab` is the browser's, over what `LogRelay` shows of a stream (in order from the tail on, then an end). A log
line is its position in the sandbox's log, which makes gaps and duplicates visible. `query` is react-query's cache, one entry
per filter, which outlives a change of filter or transport. Warnings, the position of the view and a change of sandbox
(which starts all of this again) are left out.

### UploadQueue, UploadProofs

`addFiles`, `removeItem`, `uploadItem`, `handleUpload` and `uploadFile`. A worker's steps are between its awaits: the
headers of a request, and its answer. Files are picked one at a time (picking several is several picks; React renders
between them change nothing here, since the list is read through a ref).

### DraftReview, PolicyProofs

The Drafts tab, the draft handlers and the gateway in one module, since what matters is that an approval still means what
the reviewer read when it reaches the gateway. The gateway's changes are numbered; a chunk's version is the number of the
change that last evaluated it, and its token pins that version. `data` and `fetch` are react-query's answers and reads,
one per filter (`Poll`, `GetDraftPolicy`, `Receive`, `ReadFails`, `SetStatusFilter`). A decision is a request that is
sent (`Decide`, `DecideAll`, `SaveEdit`; `ApproveWithoutTokens` is another client), completed by the backend where it
carries no token (`ResolveApprovals`), carried out (`Execute`) and answered (`Succeed`, which reads the lists again, or
`Fail`). Two calls of one handler are two steps. `granted` and `owed` are histories: what was approved next to what had
been read, and how recent a list must be. The role and a global policy only hide buttons for what the gateway refuses
anyway, so they are left out and the gateway may refuse anything. What react-query does with a read that is under way
when its key is invalidated is modelled from how the hooks use it: one whose list is on screen and has loaded is
replaced, others are left alone.

### FollowUpstream, FollowUpstreamProofs

One hourly run of `follow-upstream.yml` with `deploy/ci/upstream/`: what it reads and when (`run.main` is the commit of
the trigger; the branch, the pull requests and the release branches are read later, at different moments), what it decides
(`SelectTarget`, `IsSpent`, the build of `next` with its pin move and rebased work), and its writes, one step each, any of which may
fail and end the run. Between them people push to `next`, rebase it, edit or close its pull request, merge it, delete the
branch; main moves; and upstream tags and publishes. Commits are numbers, of which `Fresh` takes one that nothing
remembers. A release is its place in the order of versions. Each tree remembers, as a history, whether its pin was
`carried` over by a person's rebase and not chosen by a run.

### Documents, PolicyFile, PolicyWire, PolicyEditor, PolicyProofs

`PolicyFile` is `policyFile.ts` in both directions, `PolicyWire` the backend's conversions of the same policy. A field that is
only renamed is a name in a set; fields that are converted, have a default, a short form or are refused have values of
their own, and so has everything that a document may hold beside its schema. `PolicyEditor` puts them to work: a document
that is begun, typed, switched between YAML and JSON, kept or discarded when the policy changes, and sent to replace the
policy after two more reads (`Replace`, `ReadSandbox`, `RefetchPolicy`, `UpdateSandboxPolicy`); and operations on single rules, which the gateway merges.
Others replace the policy, touch the sandbox and set a global policy at any step. The gateway's answer to a read of the policy is on its
way (`poll`) between `AnswerPolicy` and `PolicyArrives` or `PolicyReadFails`. A read that is made again drops it where the page holds a
revision, and joins it where the page holds none (`Refetched`), as react-query does; `save.joined` is a history of the second. `IsPolicy` (of
`PolicyFile`) is the API's policy, field by field; `InPlay` are the policies created, set by others or read from what is typed. `Only` is
`Array.filter`. `Effect` is what a removal shows, in which an endpoint that loses no port stays, also one without any. `Meaning` says what the gateway
takes a policy to mean, written apart from the conversions, so that "stored as written" is not said in their own terms.

### ProfileFile, ProfileWire, ProfilesPanel, WorkspacePageProofs

The same for provider profiles: `ProfileFile` is `profileFile.ts`, `ProfileWire` the two converters of the backend (the
gateway's whole message, and the SDK's type with its narrow endpoints, where `IsExpressible` refuses what would be cut).
`ProfilesPanel` is the panel with its four dialogs, over the handlers, a gateway that may be older than a field, and either
store. `disk` holds exported files, also after somebody has edited them. Reading dropped files is a step apart from dropping them, and
a write is a request that is sent, handled and answered in three steps, any of which a closed dialog may no longer wait for.

### SandboxList, WorkspacePage, WorkspacePageProofs

The list of sandboxes: the stack of page tokens with its transition (`Settled`, `Shows`), the query cache with the rows
it shows in place of those on their way (`Data`, `kept`), the selection that is reconciled with every page (`ReconcilePage`),
the question, and a deletion of all that was asked about at once, which ends when the list has been read again. A deletion has one of
the SDK's outcomes (completed, accepted, already absent, or a number without a name), none at all, or an error, and after the last three it may or
may not have been done; what the backend and the page make of these is `FromSDKDeletion` and `DescribeDeletions`, and `SuccessMeansGone` compares it with the gateway's rows, but for an answer without an outcome (`untold`), which counts as completed on purpose. The workspace changes under
all this (`GoToWorkspace`), while the component stays mounted. A page token names the last row of the page before it; a request
is answered and its answer arrives in one step; the name that a question wants typed is abstracted, as is a page that is mounted anew,
which is the initial state. `WorkspacePage` is the page whose tabs these two are. They share no state and nothing the gateway holds,
and a dialog of either keeps the other from use, so that a behaviour is one tab's.

## Runs

| Run | Bounds | Shows |
|---|---|---|
| draft_summary | 3 sandboxes (one of them nil, one without a workspace), 2 goroutines, inboxes of 0, 1 or gone | the summary is true of the inboxes; no shared slot; it answers |
| execs | payloads and files of 0..3 chunks, windows of 2 | the end of input is never announced early; the reader is let go; the call returns; it implements ExecContract. A response that looks complete is whole, an error comes only before the first byte; every download ends |
| uploads | every body of up to 4 parts over 2 paths, nested directories, a refused name; 3 picks over 2 paths, 2 workers | outcomes match the disk, 200 is complete, interruptions are reported; paths are not inherited. Nothing is sent twice or unwanted; the queue ends |
| terminal | 2 sockets, 1 frame each way | exit status and state belong to the session shown; no orphan session; both goroutines end unless a write is held up for good; the browser hears of an end |
| logs | handler: 4 lines, tail of 2, wire of 2; tab: 3 lines, tail of 2, 2 subscriptions, 2 filters | order, honest end, no leaked goroutine, lines arrive. No gap or duplicate, polling that stopped says so, the tab catches up |
| draft_review | 1 chunk, 3 changes, 1 decision, the inbox and one filter | what is approved is the version that was read; no list on screen settles on an answer from before a decision; a save closes only the modal it was made in |
| follow_upstream | 4 releases (one of them not stable) of 3 lines, 1 commit of work, 2 commits of main, 1 act of a person, 1 failed call | no work on next is lost; main never leaves a line that no branch keeps, unless a person carried the pin over by hand; later runs repair what earlier ones left |
| policy_editor | 2 revisions, 1 change by others, 2 acts of the editor; texts with older forms, defaults, MCP options, unknown keys and parameters below a tool's name; an endpoint without a port | no revision is replaced unseen, unless the check of it joined a poll; what is stored means what was written, but for a tool beside parameters below its name; a removal leaves what was shown |
| policy_unseen, policy_unsaid | the same | violations: the two statements without their exceptions (see "Disagreements") |
| workspace_page | profiles: 2 scopes, 2 ids, 1 write of others, 1 export, 1 drop, 2 openings, 2 writes, both stores, a gateway of either age; sandboxes: 2 workspaces of 2 sandboxes, pages of 1 and 2, 1 selector, 3 acts | a file replaces its own profile, and is stored as it reads; an answer closes only its own dialog; only what was asked about is deleted; what is announced as deleted is gone, unless nothing was said of it |
| export_loses | the same | violation: an export keeps a number without a name (see "Disagreements") |

Why these bounds are enough: one item more than there are workers makes every worker wait and every queue drain (three
sandboxes for two goroutines, three picks for two workers; the code's 16 and 3 differ from 2 only in how many idle).
A window of 2 can be empty, partly full and full, and three chunks are one more than it holds. Four parts are two files
with a path of their own, the shortest body in which a path could be inherited. Two sockets are one replaced and one
current; a third would replace the second in the same way. A tail of 2 in a log of 3 or 4 has a line before the tail,
two in it and one after. Three changes of an inbox are one before the decision, the decision, and one after it. Its
one chunk is enough for the lists and the modal, which are the same for any chunk; that a bulk approval names some
chunks and not others is covered by the proof of `ApprovesWhatWasRead`, which is for every set of chunks.

Three lines of releases, the last with a pre-release and a stable one, give every kind of move (within a line, to another
line, first as a draft and then ready) and let a move be overtaken by the one before it; one act of a person and one failure, at every step of every run, are the shortest ways in which what a run
has read goes stale or its work stays half done. Two revisions are the one that was read and one that came after it, and one change by others is enough to come between any two of the reads and the write. Two openings of a
dialog are one whose answer is late and one it must not touch; two scopes with one id at one version are the only
way in which a file could be another's. Two workspaces with sandboxes of equal names are the least in which a name alone says too
little, and three acts are the least to ask, go elsewhere and confirm; pages of one row give a second page that empties.

Deadlock is not checked: every one of these systems rightly stops when the request, session or upload is over. That it
gets there is a liveness property of its run, except for `Upload`, a straight loop over a bounded body whose only waits
are those of the stdin exec client, and for `DraftReview`, `PolicyEditor`, `ProfilesPanel` and `SandboxList`, which wait for nothing but answers and users.

Fairness is weak, and only of what the program or its runtime does by itself: goroutines and settled promises run, timers
fire, reads and writes with a deadline end, a browser that is there delivers events of its sockets. Nothing is asked of
users, agents, commands or the gateway; a terminal session need not take what is written to it. Where an answer of the gateway is needed for liveness, the code has a deadline
and the failure is the other alternative of the same fair action. An upload's `XMLHttpRequest` has no timeout in the
frontend; its end rests on the BFF's deadlines or the connection being lost. `Converges` asks for runs that go on, which the
hourly schedule of the workflow gives, and for nothing of people or upstream.

### Disagreements

Three runs show that the code does not do what the repository says of it. Each checks the statement as it is said, next to a
property of a passing run that excepts the case.

- `NothingIsReplacedUnseen` (policy_unseen). The comment on `replaceDocument` says (`PolicyRuleEditor/index.tsx:159`) that
  the sandbox and its policy are "read again here, the sandbox first: its resource version is then no newer than the revision read
  after it". While a sandbox has no revision, `policyView.refetch()` does not read again: a query without data joins the read that is
  under way. Its 404 may be from before somebody's first revision, and before the sandbox was read; the draft, begun from none, then
  replaces that revision with a resource version the gateway accepts.
- `NothingIsChangedUnsaid` (policy_unsaid). `policyFile.ts:60` says of two things that they are refused because "each would change
  what a document says without saying so". An MCP matcher with both `name` and `name.x` is written with a `tool` and `params.name`
  (lines 1377 to 1402), of which reading takes the second only (line 737). The restriction to a tool is gone, and nothing is reported.
- `AnExportLosesNothing` (export_loses). "A profile that is exported and imported again loses nothing the gateway would have kept"
  (`profileFile.ts:66`), and the backend passes a number without a name on "so that it survives being read and written back"
  (`provider_profile.go:207`). A file has "other" for such a category (`profileFile.ts:203`) and nothing, which means
  `client_credentials`, for such a grant type (line 1208).

### What came up on the way

None of this is checked as a violation; each is a place where the code does something that a reader may not expect.

- *Terminal.* A write to a session (`terminal_handler.go:270` and 274) has no deadline, and nothing but the handler ends the context of
  a hijacked request. A command that does not read its input can therefore hold a handler up, which then does not see its browser
  go: its goroutines and its session last as long as the command. `GoroutinesEnd` excepts a write that is held up for good.
- *Logs.* The tab shows a poll's answer whenever it polls and has one. react-query keeps the answer of an earlier fallback: the
  stream fails, one poll is answered, "Retry stream" brings newer lines, the stream fails again, and the old answer takes
  their place until the next poll is answered.
- *Files.* A file that is on its way when it is picked again stays listed; when it then fails it is listed next to its
  replacement, with the same path, and the next upload sends both.
- *Drafts.* "Approve all pending" takes its chunks and tokens from the whole inbox (`DecideAll`), while the table may be
  narrowed to another status. A comment and a test say that this is meant.
- *Upstream.* A line can be left without a branch (see "What trying to prove them showed"). A deletion by the bot closes the
  pull request before the lease may fail. The bot's own pin commit conflicts when somebody moves main's pin to another release by hand.
- *Policies.* Text typed while a save is under way is dropped when it succeeds. A lost answer shows a policy as refused that was stored. A removal is
  worked out on the rule as shown, and carried out on the rule as it is.
- *Profiles.* Files that are still
  being read when their dialog is closed appear in its next opening. The SDK's store drops stored endpoint fields it cannot see when it updates.
  `FileReplacesItsOwn` rests on the gateway never giving one id the same version twice, deletion and new import included.
- *Sandboxes.* An answer to a deletion that reports no outcome is announced as a success (`sdk_converters.go:1036`, pinned by `deletion_test.go`, and
  `deletion.ts:24`), although the comment on `DeleteResult` says that `deleted` is true only when completion is established. After a change of workspace whose first load fails, the next poll shows the rows of the workspace before in
  its place until it is answered, and they can be selected and asked about, although `useCursorSelection.ts:4` says that a new workspace
  starts a new selection: the deletion is then of the workspace shown now. A row that moves to another page is dropped from the selection, although
  the same comment says it is not. The question names at most ten of what it is about to delete, although
  `SandboxListPage.tsx:76` says that it names them. The name that was typed to confirm is kept when a deletion closes the question. A question may be closed with
  Escape while its deletion goes on, whose end then closes the question asked after it, or shows its failures there.
  `ProviderListPage.tsx` resets neither its question nor its selection when the workspace changes.

## Proofs

Eight modules hold theorems. Every safety invariant and every action property that a passing run checks is also proved for every value
of the constants, except `WhatTheFileSaysIsStored` (see below). A theorem holds under the assumptions its module
names, which TLC evaluates on every run. None of the properties is inductive as it stands; what each invariant adds is
named here, because it says why the code is right. Each was checked by TLC on the bounds of its run before it was proved.

**DraftSummaryProofs** (from: `N` is a natural number, there is a goroutine to start, `NoWorkspace` names no workspace, the
listings are of the right type). That a missing entry is true at the end needs to know, for every position at every
moment, whether it is untouched, on offer, being read or done, and that only one goroutine can be reading it. `IInv` is
made of these parts:

- `BeforeMark`: nothing has been marked or handed out before the first step;
- `Untouched`: positions after the dispatcher's are read only if unscoped, and an unread position has no entry;
- `Readers`: a position that is being read is marked, is not the one on offer, has a selector, and is read by one
  goroutine only; nobody reads after the sweep;
- `EntryTruth`: an entry, or the lack of one, is true of `seen`, except where the read is under way;
- `LateReads`: the counter is 0 while the context is live or a position is on offer (at most one read starts late:
  `LateReadsAreFew`).

**ExecProofs** (from: sizes are natural numbers, a window holds at least one message). First `StdinExec`, whose invariant counts:

- `UpInOrder`: at most one start, in front, and one end, at the back, with room kept for the end;
- `Flow`: chunks handed out, less the one in hand, are those the command has and those under way, as long as the stream
  is not over; afterwards they may be fewer, never more;
- `SenderIsAt`: the place of the sender says how far the reader got, and a reader that failed left its error;
- `EndFlow`: where the end is under way or taken, nothing of the payload is missing and the reader has ended;
- `CallerIsAt`: the caller returns after the sender, and has seen exit code 0 only of a command whose input ended.

Two lemmas, `Sends` and `Takes`, say what one message more and one less do to the counts. For the refinement, `StepContract` maps the sender's fill to `Feed`, the end that the gateway takes to
`EndInput`, the return to `Return`, and every other step to none. Together with `Upload`, which is written against
`ExecContract!Promised`, this makes the claims about uploads claims about the code below them too.
Then `Download`: a response is known to be whole only because no chunk is lost on the way. `NothingLost` says that what the
command wrote is with the client, in the handler's hand or under way; `ErrIsLast`, `CommandIsAt` and `ReplyIsAt` say what
the end of the stream and the status line may be at each place of the handler.

**UploadProofs** (from: bodies are sequences of parts with known names, a directory is above itself; there is a path to pick and a
worker). `Upload`: `FilesAreDone` and `DiskIsListed` relate the parts that were passed, the outcomes and the disk in both
directions; `WrittenIsWhole` is what an outcome says of the disk *so far*, while a later part may still write over it; `RelIsAt` says
that the path in hand is the last one since the file before. `UploadQueue`: `IdsAreGiven` (no id twice in list or queue),
`WorkersAreAt`, `SentByOne` and `NoneIsOpen`; a worker keeps its file through every change of the list, which is why a file
is with one worker only.

**TerminalProofs** (from: there is a socket, and room for a frame). `SessionIsAt`: a session begins once, in its handler;
`FramesAreTrue`: a close frame under way tells the exit status of its own session; `SocketIsAt`: the tab's socket is not one that it closed,
and later ones are untouched. With these the three properties are inductive together.

**LogsProofs** (from: bounds are natural numbers, the channel holds a line). `LogRelay`: `SentAreLines` and `LinesAreAt` say that what is in the channel and in the goroutine's
hand are the lines after those that were sent; `EndsAreAt` that an end, wherever it is, is the stream's or the context's and the last
thing its goroutine does. `LogsTab`: the two properties are inductive with the type invariant.

**PolicyProofs.** `DraftReview` (from: filters are statuses, bounds are natural numbers): what is in the gateway, in a cached answer or on its way is versioned (`AllVersioned`); a token that is held pins
what was read with it (`Pins`); and an approval of the tab never leaves the backend anything to complete (`TabPins`),
which is what would break the pin. `Recent` says which change a list may be at and which it is owed, for `DecisionIsShown`.
`PolicyEditor` (from `PoliciesAssumption`, that the policies in play are the API's, and `FormsAssumption`, that the form's endpoints are): `SaveIsOfItsBase` says that a save that is sent carries a version which the gateway has
had, and that as long as it still has it the revision is the one that was compared, because every new revision is a new
version, unless the comparison was with an answer that it joined. This is the whole of why `NoLostUpdate` holds although the two reads and the write are three requests. For
`RemovalIsAsShown`, `MergeIsAsAsked` carries what was asked to the gateway, and `RemovalLeaves` follows the operations, of which there is
one for each port: after the first `m` of them the endpoints left are, in order, those that had a port outside the first `m`. That
is an induction over the operations and over lists; it is done over sets of numbers (`Least`, `Induction`), since
a theorem of the library that takes a predicate cannot be used. `OneOrder` (one set of places has one order) makes
two ways of filtering one list equal.
`AsWasWritten` says that the draft,
and the save that is under way, read as a policy that means what was typed or what editing was started from. It rests on two lemmas about
the operators: `DocumentBack`, that a policy which can be written as a file is read back from it with the same `Meaning`, and
`CarriedPolicyMeans`, that the backend's conversion keeps the `Meaning`. The first is shown piece by piece: renamed fields and modes have inverses (`NamesBack`, `ModeBack`), ports and MCP options are read as they were or as
what their absence stands for (`PortsBack`, `McpBack`, and `CanonicalNames`: versions are put in order, so they are compared as a set), and
parameters that are nested in a file and flattened in the API say the same, and the tool too unless a parameter is nested below its
name (`FlatSays`, `NestSays`, `ToolSays`, `ParamsBack`); `Loosely` is the meaning without what is lost then. `MatchBack`, `EndpointBack`,
`RuleBack`, `LandlockBack` and `MiddlewareBack` put these together.

**WorkspacePageProofs** (from: there is a workspace; a scope is named, profiles have scopes and versions, and what was written by hand comes from no profile). Sandboxes: `QuestionIsHere` (an open
question was asked in the workspace shown) and `RunIsAsAsked` (a deletion is of what was asked, and what was answered is gone, was answered without an outcome, or keeps the
whole from being a success). Profiles: `PanelInv` (an answer is awaited only by the opening that sent the request), and
`FilesInv` with `WritesInv`: a file that was exported says itself what it was exported from, through reading and editing, up to the write.

**FollowUpstreamProofs** (from: releases are numbered, some of them stable, the pin is one of these, people's commits are not numbers). Every write of a run rests on what it read earlier; the
invariant says of each write still to be made what makes it safe *if* the lease holds: `PushIsSafe`, `CreateIsSafe`, `DeleteIsSafe`, with
`NextIsKnown` (a commit is known by its name) and `MergedIsMain`. `LinesAreKept` says that whatever takes main to another line has the
branch of the line it leaves, or that the run makes it first.

### What trying to prove them showed

- `LineIsKept` was checked with two lines of releases and is false with three, where it says "kept" alone. A run that was triggered while
  main was on line 1, with a release of line 3 to move to, is overtaken by the merge of `next` that takes main to line 2. The run finds `next` spent, keeps
  the branch of line 1 only, and pushes and opens the next move. A person rebases that `next`, and it is merged before
  another run: main leaves line 2, and there is no `release/2`. The comment at `publish.py:113` ("the branch for the line main
  is about to leave. It has to exist before the pull request can merge") and `docs/releasing.md:70` say otherwise. TLC finds
  it on the run's present bounds when the last disjunct is dropped; the property now excepts a pin that a person carried over, and is proved.
- The gateway's `Merged` did not say what an operation does after one that was refused; it now refuses the rest.
- `WhatWasWrittenIsStored` failed to prove in one place only, a matcher with `name` and `name.x`. The property says what such a
  matcher loses and is proved of every policy; that it loses anything is the run policy_unsaid.

### Only model-checked

- Liveness everywhere (`Answers`, `CallReturns`, `DownloadEnds`, `GoroutinesEnd`, `EndIsShown`, `HandlerEnds`, `RelayedLinesArrive`, `TabCatchesUp`, `UploadsEnd`, `Converges`), which
  is out of the prover's reach, as is ENABLED.
- `WhatTheFileSaysIsStored`: that a profile survives its conversions, field by field, which the files of its run
  try with every older form, default and option that the code treats apart. What else the property needs, that nobody comes between, is
  `FileReplacesItsOwn`, which is proved.

No run repeats a type invariant that is proved. `PolicyEditor`, `ProfilesPanel`, `SandboxList` and `FollowUpstream` state none of their
own: their invariants say of the variables' shapes what reasoning needs (`PoliciesAreHeld`, `PanelInv`, `ScopeOK`, `Shapes`).

## Plan

1. The round trip of a profile through `ProfileFile` as a lemma, as it is done of a policy, and with it `WhatTheFileSaysIsStored`.
2. Models of what is under "Not modelled" with behaviour of its own: the session's one reload, pages of credential keys.

## Not modelled

- *AuthSession*: the one reload, the flag and concurrent 401s (`authSession.ts`); *DraftBadge*: summaries of several
  workspaces merged in the browser (`draftSummary.ts`) over the answers of `DraftSummary`; *credential keys*: reading all pages with a guard against the token
  just used (`rawprovider.go:87`); *shutdown* of the server. They have behaviour worth a model and none yet.
- The lists of workspaces and providers, which use the hooks of `SandboxList` with questions of their own; the page of the global policy; the forms
  of providers and endpoints.
- Handlers that make one call and convert its answer (sandboxes, workspaces, templates, services, settings, providers), and
  their converters, field by field; `gateway_release_line.go`, a comparison of versions with unit tests for its edges: nothing interleaves.
- YAML and JSON themselves, their limits and the line numbers of diagnostics; presentation, translations, charts, container builds, and
  the scripts that run once on one input.
