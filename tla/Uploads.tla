------------------------------- MODULE Uploads -------------------------------
(***************************************************************************)
(* Both ends of an upload: the queue of the Files tab, which sends files   *)
(* (UploadQueue), and the backend's handler of one request (Upload). Each  *)
(* is modelled against all that the other may do to it: the queue's        *)
(* requests are answered in any way and order, and the handler's body may  *)
(* end or grow at any read. A behaviour is that of one of the two.         *)
(***************************************************************************)
EXTENDS Upload, UploadQueue

VARIABLE end  \* the end that is followed: "handler" or "tab"

uploadsVars == <<end, vars, queueVars>>

\* The other end stays as it begins, in whichever way.
UploadsInit ==
    /\ end \in {"handler", "tab"}
    /\ Init /\ (end = "tab" => parts = (CHOOSE p \in Bodies : TRUE) /\ declared = "fits")
    /\ QueueInit

AtHandler(A) == end = "handler" /\ A /\ UNCHANGED <<end, queueVars>>
AtTab(A) == end = "tab" /\ A /\ UNCHANGED <<end, vars>>

UploadsNext == AtHandler(Next) \/ AtTab(QueueNext)

\* The fairness of the queue; nothing is asked of the handler.
UploadsSpec ==
    /\ UploadsInit /\ [][UploadsNext]_uploadsVars
    /\ WF_uploadsVars(AtTab(UploadEnds))
    /\ \A w \in Workers : WF_uploadsVars(AtTab(Worker(w)))
=============================================================================
