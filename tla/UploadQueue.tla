----------------------------- MODULE UploadQueue -----------------------------
(***************************************************************************)
(* The uploads of the Files tab of the frontend: addFiles, removeItem,     *)
(* uploadItem and handleUpload of SandboxFilesTab.tsx, with uploadFile of  *)
(* api/sandboxes.ts.                                                       *)
(*                                                                         *)
(* A few asynchronous workers take files off a queue made when the upload  *)
(* starts, while the user goes on adding files to the list and taking them *)
(* off it, stops the upload, or leaves the page. The workers run one at a  *)
(* time, between awaits: an await on the headers of a request, and one on  *)
(* its answer, which the backend (external) gives in any order.            *)
(***************************************************************************)
EXTENDS Integers, FiniteSets, Sequences, SequencesExt

CONSTANTS PickedPaths,  \* relativePath of a picked file
          Concurrency,  \* UPLOAD_CONCURRENCY
          MaxItems      \* bound: files picked

ASSUME PickedAssumption == PickedPaths # {}
ASSUME BoundsAssumption == Concurrency \in Nat \ {0} /\ MaxItems \in Nat

VARIABLES listed,  \* the ids of the list, in order
          item,    \* what was picked under an id, and its status
          nextId,
          queue,   \* ids that the running upload still has to send
          worker,  \* what a worker is doing
          stopRequested, isUploading,
          mounted,
          request  \* a request of a file: "none", "open" or "closed"

queueVars == <<listed, item, nextId, queue, worker, stopRequested, isUploading,
               mounted, request>>

Ids == 1 .. MaxItems
Workers == 1 .. Concurrency
Free == [at |-> "free", id |-> 0]
Gone == [at |-> "gone", id |-> 0]
Unpicked == [path |-> CHOOSE p \in PickedPaths : TRUE, status |-> "unpicked"]

\* Array.filter: the members of a list that are in S, in their order.
Only(list, S) ==
    LET kept[i \in 0 .. Len(list)] ==
          IF i = 0 THEN <<>>
          ELSE IF list[i] \in S THEN Append(kept[i - 1], list[i]) ELSE kept[i - 1]
    IN kept[Len(list)]

Listed == ToSet(listed)
Sendable(id) == item[id].status \in {"queued", "failed"}

QueueInit ==
    /\ listed = <<>>
    /\ item = [id \in Ids |-> Unpicked]
    /\ nextId = 0
    /\ queue = <<>>
    /\ worker = [w \in Workers |-> Gone]
    /\ stopRequested = FALSE /\ isUploading = FALSE
    /\ mounted = TRUE
    /\ request = [id \in Ids |-> "none"]

upload == <<queue, worker, stopRequested, isUploading>>

-----------------------------------------------------------------------------
\* The user.

\* One file is picked, or dropped, which also works during an upload. It
\* replaces what is listed for its path, except a file on its way; one too
\* large to send is refused there and then.
AddFile ==
    /\ mounted /\ nextId < MaxItems
    /\ nextId' = nextId + 1
    /\ \E p \in PickedPaths, status \in {"queued", "refused"} :
       /\ item' = [item EXCEPT ![nextId'] = [path |-> p, status |-> status]]
       /\ listed' = Append(Only(listed, {k \in Ids : \/ item[k].status = "uploading"
                                                    \/ item[k].path # p}),
                           nextId')
    /\ UNCHANGED <<upload, mounted, request>>

\* A file on its way stays listed.
RemoveItem(id) ==
    /\ mounted /\ id \in Listed
    /\ item[id].status # "uploading"
    /\ listed' = Only(listed, Ids \ {id})
    /\ UNCHANGED <<item, nextId, upload, mounted, request>>

ClearList ==
    /\ mounted /\ ~isUploading
    /\ listed' = <<>>
    /\ UNCHANGED <<item, nextId, upload, mounted, request>>

Stop ==
    /\ mounted /\ isUploading
    /\ stopRequested' = TRUE
    /\ UNCHANGED <<listed, item, nextId, queue, worker, isUploading, mounted, request>>

\* Leaving the page: every open request is aborted.
Unmount ==
    /\ mounted
    /\ mounted' = FALSE
    /\ stopRequested' = TRUE
    /\ request' = [id \in Ids |-> IF request[id] = "open" THEN "closed" ELSE request[id]]
    /\ UNCHANGED <<listed, item, nextId, queue, worker, isUploading>>

\* Fault: the button stays enabled during an upload.
Fault_HandleUpload ==
    /\ mounted
    /\ \E id \in Listed : Sendable(id)
    /\ queue' = Only(listed, {id \in Ids : Sendable(id)})
    /\ worker' = [w \in Workers |-> IF w <= Len(queue') THEN Free ELSE Gone]
    /\ stopRequested' = FALSE
    /\ isUploading' = TRUE
    /\ UNCHANGED <<listed, item, nextId, mounted, request>>

\* The button is enabled while no upload runs and there is something to send.
HandleUpload ==
    /\ mounted /\ ~isUploading
    /\ \E id \in Listed : Sendable(id)
    /\ queue' = Only(listed, {id \in Ids : Sendable(id)})
    /\ worker' = [w \in Workers |-> IF w <= Len(queue') THEN Free ELSE Gone]
    /\ stopRequested' = FALSE
    /\ isUploading' = TRUE
    /\ UNCHANGED <<listed, item, nextId, mounted, request>>

-----------------------------------------------------------------------------
\* The workers.

\* What becomes of a file is written to the list that is shown then.
UpdateItem(id, status) ==
    item' = IF id \in Listed THEN [item EXCEPT ![id].status = status] ELSE item

HasNext == ~stopRequested /\ queue # <<>>

\* The next id of the queue. One that is no longer listed is passed over.
TakeNext(w) ==
    /\ worker[w] = Free
    /\ HasNext
    /\ queue' = Tail(queue)
    /\ IF Head(queue) \in Listed
       THEN /\ worker' = [worker EXCEPT ![w] = [at |-> "headers", id |-> Head(queue)]]
            /\ UpdateItem(Head(queue), "uploading")
       ELSE UNCHANGED <<worker, item>>
    /\ UNCHANGED <<listed, nextId, stopRequested, isUploading, mounted, request>>

WorkerEnds(w) ==
    /\ worker[w] = Free
    /\ ~HasNext
    /\ worker' = [worker EXCEPT ![w] = Gone]
    /\ UNCHANGED <<listed, item, nextId, queue, stopRequested, isUploading, mounted, request>>

\* Fault: the signal is not looked at.
Fault_Aborted == FALSE

\* signal.aborted
Aborted == ~mounted

\* apiAuthHeaders has answered, or failed. A signal that was aborted
\* meanwhile keeps the request from being made.
SendRequest(w) ==
    LET id == worker[w].id IN
    /\ worker[w].at = "headers"
    /\ \/ /\ ~Aborted
          /\ request' = [request EXCEPT ![id] = "open"]
          /\ worker' = [worker EXCEPT ![w].at = "sending"]
          /\ UNCHANGED item
       \/ /\ ~Aborted
          /\ UpdateItem(id, "failed")
          /\ worker' = [worker EXCEPT ![w] = Free]
          /\ UNCHANGED request
       \/ /\ Aborted
          /\ worker' = [worker EXCEPT ![w] = Free]
          /\ UNCHANGED <<item, request>>
    /\ UNCHANGED <<listed, nextId, queue, stopRequested, isUploading, mounted>>

\* The answer, or a lost connection; or the request was aborted, which leaves
\* no list to mark.
RequestSettles(w) ==
    LET id == worker[w].id IN
    /\ worker[w].at = "sending"
    /\ \/ ~Aborted /\ \E status \in {"uploaded", "failed"} : UpdateItem(id, status)
       \/ Aborted /\ UNCHANGED item
    /\ request' = [request EXCEPT ![id] = "closed"]
    /\ worker' = [worker EXCEPT ![w] = Free]
    /\ UNCHANGED <<listed, nextId, queue, stopRequested, isUploading, mounted>>

\* Fault: an upload that nobody sees is not ended.
Fault_UploadEnds ==
    /\ isUploading /\ mounted
    /\ \A w \in Workers : worker[w] = Gone
    /\ isUploading' = FALSE
    /\ UNCHANGED <<listed, item, nextId, queue, worker, stopRequested, mounted, request>>

\* Promise.all.
UploadEnds ==
    /\ isUploading
    /\ \A w \in Workers : worker[w] = Gone
    /\ isUploading' = FALSE
    /\ UNCHANGED <<listed, item, nextId, queue, worker, stopRequested, mounted, request>>

User == \/ AddFile \/ ClearList \/ Stop \/ Unmount \/ HandleUpload
        \/ \E id \in Ids : RemoveItem(id)
Worker(w) == TakeNext(w) \/ WorkerEnds(w) \/ SendRequest(w) \/ RequestSettles(w)

QueueNext == User \/ UploadEnds \/ \E w \in Workers : Worker(w)

\* Promises that are settled go on, and the backend answers every request or
\* the connection is lost. The user owes nothing.
QueueSpec == /\ QueueInit /\ [][QueueNext]_queueVars
             /\ WF_queueVars(UploadEnds) /\ \A w \in Workers : WF_queueVars(Worker(w))

-----------------------------------------------------------------------------

\* Every variable has its type.
QueueTypeOK ==
    /\ listed \in Seq(Ids)
    /\ item \in [Ids -> [path : PickedPaths, status : {"unpicked", "queued", "refused",
                                                       "uploading", "uploaded", "failed"}]]
    /\ nextId \in 0 .. MaxItems
    /\ queue \in Seq(Ids)
    /\ worker \in [Workers -> [at : {"free", "gone", "headers", "sending"},
                               id : 0 .. MaxItems]]
    /\ stopRequested \in BOOLEAN /\ isUploading \in BOOLEAN /\ mounted \in BOOLEAN
    /\ request \in [Ids -> {"none", "open", "closed"}]

\* The list and the workers agree on what is on its way: every such file is
\* listed, one worker has it, and a file that waits in the queue twice, or is
\* being sent as well, would be sent twice.
SentOnce ==
    /\ \A v, w \in Workers : worker[v].id # 0 /\ worker[v].id = worker[w].id => v = w
    /\ \A w \in Workers : worker[w].id # 0 => worker[w].id \notin ToSet(queue)
    /\ Cardinality(ToSet(queue)) = Len(queue)
    /\ mounted => {id \in Listed : item[id].status = "uploading"}
                     = {worker[w].id : w \in Workers} \ {0}

\* A file is sent only while it is wanted: a request is not made for one that
\* was taken off the list, was replaced, or was refused, nor after the page
\* was left, even by a worker that was waiting for its headers; and those
\* under way when it is left are aborted.
OnlyWantedIsSent ==
    [][\A id \in Ids : request'[id] = "open" =>
          mounted' /\ (request[id] = "open"
                        \/ (id \in Listed /\ item[id].status = "uploading"))]_queueVars

\* An upload ends, and the button comes back, whatever the user does.
UploadsEnd == isUploading ~> ~isUploading
=============================================================================
