---------------------------- MODULE PolicyProofs ----------------------------
(***************************************************************************)
(* Proofs about what changes a sandbox's policy: the decisions on drafts   *)
(* (DraftReview), for every set of chunks and filters and any number of    *)
(* changes and decisions, and then the policy editor (PolicyEditor), for   *)
(* every policy, text and form and any number of writers.                  *)
(***************************************************************************)
EXTENDS DraftReview, PolicyEditor, FiniteSetTheorems, WellFoundedInduction, TLAPS

\* The states of fetches and requests, as TypeOK has them.
Answers == [rev : Revs, chunks : Draft]
Fetches == [at : {"idle", "failed", "asked", "read"}, answer : Answers]
Reqs == [kind : {"none", "approve", "approveAll", "reject", "edit", "undo", "clear"},
         of : {"tab", "reset", "api"},
         at : {"none", "sent", "resolved", "done", "over"},
         chunks : SUBSET Chunks, token : [Chunks -> Revs],
         read : [Chunks -> Revs], rev : Revs]

LEMMA TypeParts ==
    TypeOK <=> /\ tokens \in BOOLEAN
               /\ chunk \in Draft /\ rev \in 1 .. MaxRev
               /\ filter \in Keys
               /\ data \in [Keys -> Answers] /\ fetch \in [Keys -> Fetches]
               /\ editing \in [open : BOOLEAN, chunks : SUBSET Chunks, saved : BOOLEAN]
               /\ req \in [Requests -> Reqs]
               /\ sent \in 0 .. MaxRequests
               /\ granted \subseteq Grants
               /\ owed \in [Keys -> Revs]
  BY DEF TypeOK, Answers, Fetches, Reqs

\* The constants the actions are built from.
LEMMA Constants ==
    /\ Empty \in Draft /\ Versioned(Empty) /\ NoChunk.status = "absent"
    /\ Unloaded \in Answers /\ Versioned(Unloaded.chunks)
    /\ NoPins \in [Chunks -> Revs] /\ \A c \in Chunks : NoPins[c] = 0
    /\ Over \in Reqs /\ Over.at = "over" /\ NotSent \in Reqs /\ NotSent.at = "none"
    /\ Over.token = NoPins /\ NotSent.token = NoPins
  BY BoundsAssumption
  DEF Empty, Draft, Versioned, NoChunk, Unloaded, Answers, NoPins, Over, NotSent, Reqs, Revs, Statuses

\* A fetch with an answer of its type has the type of fetches.
LEMMA FetchType ==
    ASSUME NEW at \in {"idle", "failed", "asked", "read"}, NEW answer \in Answers
    PROVE  /\ Fetch(at, answer) \in Fetches
           /\ Fetch(at, answer).answer = answer /\ Fetch(at, answer).at = at
  BY DEF Fetch, Fetches

LEMMA NoAnswerType ==
    \A at \in {"idle", "failed", "asked", "read"} :
        /\ Fetch(at, Unloaded) \in Fetches
        /\ Versioned(Fetch(at, Unloaded).answer.chunks)
  BY Constants, FetchType

\* What GetDraftPolicy answers with is of a draft's type, and versioned.
LEMMA AnswerType ==
    ASSUME TypeOK, Versioned(chunk), NEW f \in Keys
    PROVE  Answer(f) \in Answers /\ Versioned(Answer(f).chunks)
  <1> DEFINE d == Answer(f).chunks
  <1>1. rev \in Revs /\ chunk \in [Chunks -> [status : Statuses, version : Revs]]
    BY BoundsAssumption DEF TypeOK, Draft, Revs
  <1>2. \A c \in Chunks : d[c] = chunk[c] \/ d[c] = NoChunk
    BY DEF Answer
  <1>3. NoChunk \in [status : Statuses, version : Revs] /\ NoChunk.status = "absent"
    BY BoundsAssumption DEF NoChunk, Statuses, Revs
  <1>4. d \in Draft
    BY <1>1, <1>3 DEF Answer, Draft
  <1>5. Versioned(d)
    BY <1>2, <1>3 DEF Versioned
  <1>6. Answer(f).rev = rev /\ Answer(f) = [rev |-> rev, chunks |-> d]
    BY DEF Answer
  <1> QED BY <1>1, <1>4, <1>5, <1>6 DEF Answers

LEMMA WithStatusType ==
    ASSUME TypeOK, Versioned(chunk), NEW cs, NEW s \in Statuses,
           \A c \in cs \cap Chunks : chunk[c].status # "absent"
    PROVE  WithStatus(cs, s) \in Draft /\ Versioned(WithStatus(cs, s))
  <1>1. \A c \in Chunks : WithStatus(cs, s)[c] \in {As(c, s), chunk[c]}
    BY DEF WithStatus
  <1>2. \A c \in Chunks : chunk[c] \in [status : Statuses, version : Revs]
    BY DEF TypeOK, Draft
  <1>3. \A c \in Chunks : As(c, s) \in [status : Statuses, version : Revs]
    BY <1>2 DEF As
  <1>4. WithStatus(cs, s) \in Draft
    BY <1>1, <1>2, <1>3 DEF WithStatus, Draft
  <1>5. ASSUME NEW c \in Chunks, WithStatus(cs, s)[c].status # "absent"
        PROVE  WithStatus(cs, s)[c].version # 0
    <2>1. CASE c \in cs
      BY <2>1 DEF WithStatus, As, Versioned
    <2>2. CASE c \notin cs
      BY <1>5, <2>2 DEF WithStatus, Versioned
    <2> QED BY <2>1, <2>2
  <1> QED BY <1>4, <1>5 DEF Versioned

LEMMA EvaluatedType ==
    ASSUME TypeOK, Versioned(chunk), rev < MaxRev, NEW cs
    PROVE  Evaluated(cs) \in Draft /\ Versioned(Evaluated(cs))
  BY BoundsAssumption DEF TypeOK, Evaluated, Versioned, Draft, Revs

LEMMA WithoutType ==
    ASSUME TypeOK, Versioned(chunk), NEW cs
    PROVE  Without(cs) \in Draft /\ Versioned(Without(cs))
  BY BoundsAssumption DEF TypeOK, Without, Versioned, Draft, NoChunk, Statuses, Revs

\* What a decision leaves is a draft whose chunks were evaluated.
LEMMA DecidedType ==
    ASSUME IInv, NEW i \in Requests, rev < MaxRev, Decided(i)
    PROVE  chunk' \in Draft /\ Versioned(chunk)'
  <1> USE DEF IInv, AllVersioned
  <1>1. Versioned(chunk') <=> Versioned(chunk)'
    BY DEF Versioned
  <1>2. CASE \E cs \in SUBSET Approvable(i) : chunk' = WithStatus(cs, "approved")
    <2>1. \A c \in Approvable(i) : c \in Chunks => chunk[c].status # "absent"
      BY DEF Approvable, PendingIn
    <2> QED BY <1>1, <1>2, <2>1, WithStatusType DEF Statuses
  <1>3. CASE /\ \A c \in req[i].chunks : chunk[c].status \in {"pending", "approved"}
             /\ \E s \in {"rejected", "pending"} : chunk' = WithStatus(req[i].chunks, s)
    BY <1>1, <1>3, WithStatusType DEF Statuses
  <1>4. CASE chunk' = Evaluated(req[i].chunks)
    BY <1>1, <1>4, EvaluatedType
  <1>5. CASE chunk' = Without(PendingIn(chunk))
    BY <1>1, <1>5, WithoutType
  <1> QED BY <1>2, <1>3, <1>4, <1>5 DEF Decided

\* An approval changes the status only of chunks whose version is the one the
\* request's token pins.
LEMMA ApprovalMatches ==
    ASSUME IInv, tokens, NEW i \in Requests, Decided(i),
           req[i].kind \in {"approve", "approveAll"},
           NEW c \in Chunks, chunk'[c].status # chunk[c].status
    PROVE  chunk[c].version = req[i].token[c] /\ req[i].token[c] # 0
  <1>1. PICK cs \in SUBSET Approvable(i) : chunk' = WithStatus(cs, "approved")
    BY DEF Decided
  <1>2. c \in cs
    BY <1>1 DEF WithStatus
  <1>3. Token(chunk[c].version) = req[i].token[c] /\ chunk[c].status # "absent"
    BY <1>1, <1>2 DEF Approvable, PendingIn
  <1> QED BY <1>3 DEF Token, IInv, AllVersioned, Versioned

LEMMA InitIInv == Init => IInv
  <1> SUFFICES ASSUME Init PROVE IInv
    OBVIOUS
  <1>1. TypeOK
    BY Constants, FetchType, TypeParts, BoundsAssumption
    DEF Init, Draft, NoChunk, Statuses, Revs, Keys, Requests, NoEdit, Grants
  <1>2. AllVersioned
    BY Constants, FetchType DEF Init, AllVersioned, Versioned, NoChunk
  <1>3. Pins /\ TabPins /\ ApprovesWhatWasRead
    BY Constants DEF Init, Pins, TabPins, NeedsRead, ApprovesWhatWasRead
  <1> QED BY <1>1, <1>2, <1>3 DEF IInv

\* A request is sent with tokens of what its sender read, and the tab's name
\* what they approve.
LEMMA SendIInv ==
    ASSUME IInv, NEW of \in {"tab", "api"},
           NEW kind \in {"approve", "approveAll", "reject", "edit", "undo", "clear"},
           NEW cs \in SUBSET Chunks, NEW listed \in Draft,
           Send(of, kind, cs, listed),
           editing' \in [open : BOOLEAN, chunks : SUBSET Chunks, saved : BOOLEAN],
           of = "tab" /\ kind = "approve" => \E c \in cs : listed[c].version # 0,
           of = "tab" /\ kind = "approveAll" => cs # {}
    PROVE  IInv'
  <1> DEFINE r == req'[sent + 1]
  <1>1. sent + 1 \in Requests /\ sent' \in 0 .. MaxRequests
    BY BoundsAssumption DEF Send, IInv, TypeOK, Requests
  <1>2. /\ r \in Reqs /\ r.of = of /\ r.kind = kind /\ r.chunks = cs /\ r.at = "sent"
        /\ \A c \in Chunks : r.read[c] = listed[c].version
        /\ \A c \in Chunks : r.token[c] = IF c \in cs THEN Token(listed[c].version) ELSE 0
    BY <1>1, BoundsAssumption DEF Send, IInv, TypeOK, Reqs, Versions, Token, Draft, Revs
  <1>3. \A i \in Requests : i # sent + 1 => req'[i] = req[i]
    BY <1>1 DEF Send, IInv, TypeOK
  <1>4. req' \in [Requests -> Reqs]
    BY <1>1, <1>2, TypeParts DEF Send, IInv
  <1>5. TypeOK'
    BY <1>1, <1>4, TypeParts DEF Send, IInv, TypeOK, Reqs, gateway, queries, Answers, Fetches
  <1>6. AllVersioned' /\ ApprovesWhatWasRead'
    BY DEF Send, IInv, AllVersioned, ApprovesWhatWasRead, Versioned, gateway, queries
  <1>7. Pins'
    BY <1>2, <1>3 DEF Send, IInv, Pins, Token
  <1>8. TabPins'
    <2> SUFFICES ASSUME tokens, NEW i \in Requests, req'[i].of # "api"
                 PROVE  ~NeedsRead(i)'
      BY DEF Send, TabPins
    <2>1. CASE i = sent + 1
      BY <1>2, <2>1 DEF NeedsRead, Token
    <2>2. CASE i # sent + 1
      BY <1>3, <2>2 DEF IInv, TabPins, NeedsRead
    <2> QED BY <2>1, <2>2
  <1> QED BY <1>5, <1>6, <1>7, <1>8 DEF IInv

\* A step that sends nothing new and leaves the gateway alone.
LEMMA ReadStep ==
    ASSUME IInv, TypeOK', AllVersioned', UNCHANGED <<tokens, req, granted>>
    PROVE  IInv'
  BY DEF IInv, Pins, TabPins, NeedsRead, ApprovesWhatWasRead

LEMMA OthersStep ==
    ASSUME IInv, NEW c \in Chunks, OthersChange(c)
    PROVE  IInv'
  <1> USE DEF IInv, AllVersioned
  <1>1. PICK to \in [status : Statuses, version : Revs] :
           Change(c, to) /\ (to.status # "absent" => to.version # 0)
    <2>1. rev < MaxRev => rev + 1 \in Revs /\ rev + 1 # 0
      BY BoundsAssumption DEF TypeOK, Revs
    <2>2. chunk[c] \in [status : Statuses, version : Revs]
      BY DEF TypeOK, Draft
    <2>3. CASE Change(c, [status |-> "pending", version |-> rev + 1])
      <3>1. [status |-> "pending", version |-> rev + 1] \in [status : Statuses, version : Revs]
        BY <2>1, <2>3 DEF Change, Statuses
      <3> QED BY <2>1, <2>3, <3>1 DEF Change
    <2>4. CASE /\ chunk[c].status # "absent"
               /\ \E s \in {"pending", "approved", "rejected"} : Change(c, As(c, s))
      BY <2>2, <2>4 DEF As, Statuses, Versioned
    <2>5. CASE Change(c, NoChunk)
      BY <2>5, BoundsAssumption DEF NoChunk, Statuses, Revs
    <2> QED BY <2>3, <2>4, <2>5 DEF OthersChange
  <1>2. chunk' \in Draft /\ rev' \in 1 .. MaxRev
    BY <1>1, BoundsAssumption DEF Change, TypeOK, Draft
  <1>3. Versioned(chunk)'
    BY <1>1 DEF Change, TypeOK, Draft, Versioned
  <1>4. TypeOK'
    BY <1>2, TypeParts DEF OthersChange, queries, TypeOK, Answers, Fetches, Reqs
  <1>5. AllVersioned'
    BY <1>3 DEF OthersChange, queries, Versioned
  <1> QED BY <1>4, <1>5, ReadStep DEF OthersChange

LEMMA ReadsStep ==
    ASSUME IInv, Reads
    PROVE  IInv'
  <1> USE DEF IInv, AllVersioned, gateway
  <1>1. PICK f \in Keys : Poll(f) \/ GetDraftPolicy(f) \/ Receive(f) \/ ReadFails(f)
    BY DEF Reads
  <1>2. data \in [Keys -> Answers] /\ fetch \in [Keys -> Fetches] /\ fetch[f].answer \in Answers
    BY TypeParts DEF Fetches
  <1>3. /\ data' \in [Keys -> Answers] /\ fetch' \in [Keys -> Fetches]
        /\ \A k \in Keys : Versioned(data'[k].chunks) /\ Versioned(fetch'[k].answer.chunks)
    <2>1. CASE Poll(f) \/ ReadFails(f)
      BY <1>2, <2>1, NoAnswerType DEF Poll, ReadFails
    <2>2. CASE GetDraftPolicy(f)
      BY <1>2, <2>2, AnswerType, FetchType DEF GetDraftPolicy
    <2>3. CASE Receive(f)
      BY <1>2, <2>3, NoAnswerType DEF Receive
    <2> QED BY <1>1, <2>1, <2>2, <2>3
  <1>4. UNCHANGED <<tokens, chunk, rev, granted, filter, editing, req, sent, owed>>
    BY <1>1 DEF Poll, GetDraftPolicy, Receive, ReadFails
  <1>5. TypeOK'
    BY <1>3, <1>4 DEF TypeOK, Answers, Fetches
  <1>6. AllVersioned'
    BY <1>3, <1>4 DEF Versioned
  <1> QED BY <1>4, <1>5, <1>6, ReadStep

LEMMA TabDrafts == IInv => /\ table \in Draft /\ Versioned(table)
                           /\ inbox \in Draft /\ Versioned(inbox)
  BY DEF IInv, TypeOK, AllVersioned, table, inbox, Keys

LEMMA ReviewerStep ==
    ASSUME IInv, Reviewer
    PROVE  IInv'
  <1>0. TypeOK
    BY DEF IInv
  <1>1. CASE \E f \in Keys : SetStatusFilter(f)
    <2>1. PICK f \in Keys : SetStatusFilter(f)
      BY <1>1
    <2>2. /\ fetch' \in [Keys -> Fetches]
          /\ \A k \in Keys : Versioned(fetch'[k].answer.chunks)
      BY <1>0, <2>1, Constants, FetchType, TypeParts DEF SetStatusFilter, IInv, AllVersioned
    <2>3. TypeOK'
      BY <1>0, <2>1, <2>2 DEF SetStatusFilter, TypeOK, Fetches, Answers, gateway
    <2>4. AllVersioned'
      BY <2>1, <2>2 DEF SetStatusFilter, IInv, AllVersioned, gateway, Versioned
    <2> QED BY <2>1, <2>3, <2>4, ReadStep DEF SetStatusFilter, gateway
  <1>2. CASE \E c \in Chunks : OpenEdit(c)
    <2>1. PICK c \in Chunks : OpenEdit(c)
      BY <1>2
    <2>2. TypeOK'
      BY <1>0, <2>1 DEF OpenEdit, TypeOK, gateway, queries
    <2>3. AllVersioned'
      BY <2>1 DEF OpenEdit, IInv, AllVersioned, gateway, queries, Versioned
    <2> QED BY <2>1, <2>2, <2>3, ReadStep DEF OpenEdit, gateway, queries
  <1>3. CASE \E c \in Chunks, kind \in {"approve", "reject", "undo"} : Decide(kind, c)
    <2>1. PICK c \in Chunks, kind \in {"approve", "reject", "undo"} : Decide(kind, c)
      BY <1>3
    <2>2. kind = "approve" => table[c].version # 0
      BY <2>1, TabDrafts DEF Decide, Versioned
    <2>3. Send("tab", kind, {c}, table) /\ UNCHANGED editing
      BY <2>1 DEF Decide
    <2>4. editing' \in [open : BOOLEAN, chunks : SUBSET Chunks, saved : BOOLEAN]
      BY <1>0, <2>3 DEF TypeOK
    <2>5. PICK listed \in Draft : listed = table
      BY TabDrafts
    <2>6. {c} \in SUBSET Chunks
      OBVIOUS
    <2>7. Send("tab", kind, {c}, listed)
      BY <2>3, <2>5
    <2> QED BY <2>2, <2>4, <2>5, <2>6, <2>7, SendIInv
  <1>4. CASE \E kind \in {"approveAll", "clear"} : DecideAll(kind)
    <2>1. PICK kind \in {"approveAll", "clear"} : DecideAll(kind)
      BY <1>4
    <2>2. PICK cs \in SUBSET Chunks : /\ Send("tab", kind, cs, inbox)
                                      /\ kind = "approveAll" => cs # {}
      BY <2>1 DEF DecideAll, PendingIn
    <2>3. UNCHANGED editing
      BY <2>1 DEF DecideAll
    <2>4. editing' \in [open : BOOLEAN, chunks : SUBSET Chunks, saved : BOOLEAN]
      BY <1>0, <2>3 DEF TypeOK
    <2>5. PICK listed \in Draft : listed = inbox
      BY TabDrafts
    <2>6. Send("tab", kind, cs, listed)
      BY <2>2, <2>5
    <2> QED BY <2>2, <2>4, <2>6, SendIInv
  <1>5. CASE SaveEdit
    BY <1>0, <1>5, Constants, SendIInv DEF SaveEdit, TypeOK
  <1>6. CASE CloseEdit
    <2>1. \A i \in Requests : /\ req'[i] \in Reqs
                              /\ req'[i] = req[i] \/ req[i].kind = "edit"
                              /\ req'[i].kind = req[i].kind /\ req'[i].at = req[i].at
                              /\ req'[i].token = req[i].token /\ req'[i].read = req[i].read
      <3>1. \A i \in Requests : req[i] \in Reqs
        BY <1>0, TypeParts
      <3>2. ASSUME NEW q \in Reqs
            PROVE  /\ Released(q) \in Reqs
                   /\ Released(q).kind = q.kind /\ Released(q).at = q.at
                   /\ Released(q).token = q.token /\ Released(q).read = q.read
        BY DEF Released, Reqs
      <3>3. \A i \in Requests :
               req'[i] = req[i] \/ (req[i].kind = "edit" /\ req'[i] = Released(req[i]))
        BY <1>6 DEF CloseEdit
      <3> QED BY <3>1, <3>2, <3>3
    <2>2. TypeOK'
      <3>1. req' \in [Requests -> Reqs]
        BY <1>6, <2>1 DEF CloseEdit
      <3>2. editing' \in [open : BOOLEAN, chunks : SUBSET Chunks, saved : BOOLEAN]
        BY <1>6 DEF CloseEdit, NoEdit
      <3> QED BY <1>0, <1>6, <3>1, <3>2 DEF CloseEdit, TypeOK, Reqs, gateway, queries
    <2>3. AllVersioned' /\ ApprovesWhatWasRead'
      BY <1>6 DEF CloseEdit, IInv, AllVersioned, ApprovesWhatWasRead, gateway, queries, Versioned
    <2>4. Pins' /\ TabPins'
      BY <1>6, <2>1 DEF CloseEdit, IInv, Pins, TabPins, NeedsRead
    <2> QED BY <2>2, <2>3, <2>4 DEF IInv
  <1> QED BY <1>1, <1>2, <1>3, <1>4, <1>5, <1>6 DEF Reviewer

LEMMA WithoutTokensStep ==
    ASSUME IInv, NEW kind \in {"approve", "approveAll"}, NEW cs \in SUBSET Chunks,
           ApproveWithoutTokens(kind, cs)
    PROVE  IInv'
  <1>1. Send("api", kind, cs, Empty) /\ UNCHANGED editing
    BY DEF ApproveWithoutTokens
  <1>2. editing' \in [open : BOOLEAN, chunks : SUBSET Chunks, saved : BOOLEAN]
    BY <1>1 DEF IInv, TypeOK
  <1>3. PICK listed \in Draft : listed = Empty
    BY Constants
  <1>4. Send("api", kind, cs, listed)
    BY <1>1, <1>3
  <1> QED BY <1>2, <1>4, SendIInv

LEMMA ResolveStep ==
    ASSUME IInv, NEW i \in Requests, ResolveApprovals(i)
    PROVE  IInv'
  <1> DEFINE r == req'[i]
  <1>0. TypeOK /\ req[i] \in Reqs /\ chunk \in Draft
    BY TypeParts DEF IInv
  <1>1. /\ r \in Reqs /\ r.at = "resolved" /\ r.of = req[i].of /\ r.kind = req[i].kind
        /\ req[i].of = "api" => \A c \in Chunks : r.read[c] = chunk[c].version
        /\ \A c \in Chunks : r.token[c] \in {0, Token(chunk[c].version)}
    <2> DEFINE cs == IF req[i].kind = "approveAll" THEN PendingIn(chunk) ELSE req[i].chunks
               token == [c \in Chunks |-> IF c \in cs THEN Token(chunk[c].version) ELSE 0]
               read == IF req[i].of = "api" THEN Versions(chunk) ELSE req[i].read
    <2>1. req' = [req EXCEPT ![i].at = "resolved", ![i].chunks = cs,
                             ![i].token = token, ![i].read = read]
      BY DEF ResolveApprovals, ReadsDraft
    <2>2. cs \in SUBSET Chunks
      BY <1>0 DEF Reqs, PendingIn
    <2>3. token \in [Chunks -> Revs]
      BY <1>0, BoundsAssumption DEF Token, Draft, Revs
    <2>4. read \in [Chunks -> Revs]
      BY <1>0 DEF Versions, Draft, Reqs
    <2> HIDE DEF cs, token, read
    <2>5. r = [req[i] EXCEPT !.at = "resolved", !.chunks = cs, !.token = token, !.read = read]
      BY <1>0, <2>1, TypeParts
    <2>6. /\ r \in Reqs /\ r.at = "resolved" /\ r.of = req[i].of /\ r.kind = req[i].kind
          /\ r.token = token /\ r.read = read
      BY <1>0, <2>2, <2>3, <2>4, <2>5 DEF Reqs
    <2> QED BY <2>6 DEF token, read, Versions
  <1>2. \A k \in Requests : k # i => req'[k] = req[k]
    BY <1>0 DEF ResolveApprovals, ReadsDraft, TypeOK
  <1>3. req' \in [Requests -> Reqs]
    BY <1>0, <1>1, <1>2, TypeParts DEF ResolveApprovals, ReadsDraft
  <1>4. TypeOK'
    BY <1>0, <1>3 DEF ResolveApprovals, TypeOK, Reqs, gateway, queries
  <1>5. AllVersioned' /\ ApprovesWhatWasRead'
    BY DEF ResolveApprovals, IInv, AllVersioned, ApprovesWhatWasRead, Versioned, gateway, queries
  <1>6. tokens => req[i].of = "api"
    BY DEF ResolveApprovals, IInv, TabPins
  <1>7. Pins'
    BY <1>1, <1>2, <1>6 DEF ResolveApprovals, IInv, Pins, Token
  <1>8. TabPins'
    BY <1>1, <1>2 DEF ResolveApprovals, IInv, TabPins, NeedsRead
  <1> QED BY <1>4, <1>5, <1>7, <1>8 DEF IInv

\* A request that is on its way to its end keeps, or drops, its tokens.
LEMMA SettledReq ==
    ASSUME IInv, NEW i \in Requests, NEW r \in Reqs, req' = [req EXCEPT ![i] = r],
           UNCHANGED tokens, r.at \notin {"sent"},
           r = Over \/ (r.token = req[i].token /\ r.read = req[i].read)
    PROVE  req' \in [Requests -> Reqs] /\ Pins' /\ TabPins'
  <1>1. req \in [Requests -> Reqs]
    BY TypeParts DEF IInv
  <1>2. req' \in [Requests -> Reqs]
    BY <1>1
  <1>3. Pins'
    BY <1>1, Constants DEF IInv, Pins
  <1>4. TabPins'
    BY <1>1 DEF IInv, TabPins, NeedsRead
  <1> QED BY <1>2, <1>3, <1>4

LEMMA ExecuteStep ==
    ASSUME IInv, NEW i \in Requests, Execute(i)
    PROVE  IInv'
  <1>0. TypeOK /\ req[i] \in Reqs /\ rev < MaxRev
    BY TypeParts DEF IInv, Execute
  <1>1. rev' \in 1 .. MaxRev /\ rev' \in Revs
    BY <1>0, BoundsAssumption DEF Execute, TypeOK, Revs
  <1>2. chunk' \in Draft /\ Versioned(chunk)'
    BY <1>0, DecidedType DEF Execute
  <1>3. req' \in [Requests -> Reqs] /\ Pins' /\ TabPins'
    <2> DEFINE r == [req[i] EXCEPT !.at = "done", !.rev = rev']
    <2>1. r \in Reqs /\ r.at = "done" /\ r.token = req[i].token /\ r.read = req[i].read
      BY <1>0, <1>1 DEF Reqs
    <2>2. req' = [req EXCEPT ![i] = r]
      BY <1>0, TypeParts DEF Execute
    <2> QED BY <2>1, <2>2, SettledReq DEF Execute
  <1>4. \A g \in granted' \ granted : g \in Grants /\ (tokens => g.version = g.read)
    <2> SUFFICES ASSUME NEW g \in granted' \ granted
                 PROVE  g \in Grants /\ (tokens => g.version = g.read)
      OBVIOUS
    <2>1. PICK c \in Chunks :
             /\ req[i].kind \in {"approve", "approveAll"}
             /\ chunk'[c].status # chunk[c].status
             /\ g = [version |-> chunk[c].version, read |-> req[i].read[c]]
      BY DEF Execute
    <2>2. g \in Grants
      BY <1>0, <2>1 DEF Grants, Reqs, TypeOK, Draft
    <2>3. ASSUME tokens PROVE g.version = g.read
      BY <2>1, <2>3, ApprovalMatches DEF Execute, IInv, Pins
    <2> QED BY <2>2, <2>3
  <1>5. TypeOK'
    BY <1>0, <1>1, <1>2, <1>3, <1>4 DEF Execute, TypeOK, Reqs, queries
  <1>6. AllVersioned'
    BY <1>2 DEF Execute, IInv, AllVersioned, queries, Versioned
  <1>7. ApprovesWhatWasRead'
    BY <1>4 DEF Execute, IInv, ApprovesWhatWasRead
  <1> QED BY <1>3, <1>5, <1>6, <1>7 DEF IInv

LEMMA SettleStep ==
    ASSUME IInv, NEW i \in Requests, Succeed(i) \/ Fail(i)
    PROVE  IInv'
  <1>0. TypeOK /\ req[i] \in Reqs /\ UNCHANGED <<tokens, granted>>
    BY TypeParts DEF IInv, Succeed, Fail, gateway
  <1>1. req' \in [Requests -> Reqs] /\ Pins' /\ TabPins'
    <2>1. req' = [req EXCEPT ![i] = Over]
      BY DEF Succeed, Fail
    <2>2. Over \in Reqs /\ Over.at \notin {"sent"}
      BY Constants
    <2> QED BY <1>0, <2>1, <2>2, SettledReq
  <1>2. editing' \in [open : BOOLEAN, chunks : SUBSET Chunks, saved : BOOLEAN]
    <2>1. editing' = NoEdit \/ editing' = editing
      BY DEF Succeed, Fail
    <2>2. NoEdit \in [open : BOOLEAN, chunks : SUBSET Chunks, saved : BOOLEAN]
      BY DEF NoEdit
    <2> QED BY <1>0, <2>1, <2>2 DEF TypeOK
  <1>3. /\ fetch' \in [Keys -> Fetches] /\ owed' \in [Keys -> Revs]
        /\ \A f \in Keys : Versioned(fetch'[f].answer.chunks)
    <2>1. CASE UNCHANGED <<fetch, owed>>
      BY <2>1, TypeParts DEF IInv, AllVersioned
    <2>2. CASE Succeed(i) /\ req[i].of # "api"
      <3>1. fetch' \in [Keys -> Fetches] /\ \A f \in Keys : Versioned(fetch'[f].answer.chunks)
        BY <1>0, <2>2, NoAnswerType, TypeParts DEF Succeed, Refetch, IInv, AllVersioned
      <3>2. owed' \in [Keys -> Revs]
        BY <1>0, <2>2 DEF Succeed, TypeOK, Reqs
      <3> QED BY <3>1, <3>2
    <2> QED BY <2>1, <2>2 DEF Succeed, Fail, queries
  <1>4. TypeOK'
    BY <1>0, <1>1, <1>2, <1>3 DEF Succeed, Fail, TypeOK, Reqs, Fetches, Answers, gateway, queries
  <1>5. AllVersioned' /\ ApprovesWhatWasRead'
    BY <1>0, <1>3 DEF Succeed, Fail, IInv, AllVersioned, ApprovesWhatWasRead, gateway, queries, Versioned
  <1> QED BY <1>1, <1>4, <1>5 DEF IInv

LEMMA StepIInv == IInv /\ [Next]_vars => IInv'
  <1> SUFFICES ASSUME IInv, [Next]_vars PROVE IInv'
    OBVIOUS
  <1>1. CASE Next
    BY <1>1, OthersStep, ReviewerStep, WithoutTokensStep, ReadsStep, ResolveStep, ExecuteStep,
       SettleStep DEF Next, Handler
  <1>2. CASE UNCHANGED vars
    BY <1>2 DEF vars, IInv, TypeOK, AllVersioned, Versioned, Pins, TabPins, NeedsRead,
                ApprovesWhatWasRead
  <1> QED BY <1>1, <1>2

THEOREM Inductive == Spec => []IInv
  <1> QED BY InitIInv, StepIInv, PTL DEF Spec

\* The type invariant, for every bound.
THEOREM TypeCorrect == Spec => []TypeOK
  <1>1. IInv => TypeOK
    BY DEF IInv
  <1> QED BY <1>1, Inductive, PTL

\* Of a gateway that issues review tokens, no approval takes in a version its
\* reviewer, or the backend on behalf of a client that read nothing, had not
\* read: whatever changes between the reading and the gateway's decision.
THEOREM ApprovalsAreOfWhatWasRead == Spec => []ApprovesWhatWasRead
  <1>1. IInv => ApprovesWhatWasRead
    BY DEF IInv
  <1> QED BY <1>1, Inductive, PTL

-----------------------------------------------------------------------------
\* What a list on screen settles on.

\* Whatever has been read, answered or is owed is a change that was made; a
\* read that was made since what it is owed includes that, on screen or not.
Recent ==
    /\ \A i \in Requests : req[i].rev <= rev
    /\ \A f \in Keys : /\ owed[f] <= rev
                       /\ fetch[f].at = "read" => fetch[f].answer.rev >= owed[f]
                       /\ fetch[f].at = "idle" => data[f].rev >= owed[f]

LEMMA RecentInit == Init => Recent
  BY BoundsAssumption DEF Init, Recent, Fetch, Unloaded, NotSent

\* A step that leaves the reads, and numbers no request.
LEMMA SameReads ==
    ASSUME TypeOK, Recent, UNCHANGED <<data, fetch, owed>>, rev' \in Revs, rev <= rev',
           \A i \in Requests : req'[i].rev <= rev'
    PROVE  Recent'
  BY DEF Recent, TypeOK, Revs

LEMMA RecentStep == TypeOK /\ Recent /\ [Next]_vars => Recent'
  <1> SUFFICES ASSUME TypeOK, Recent, [Next]_vars PROVE Recent'
    OBVIOUS
  <1> USE DEF gateway, queries
  <1>1. /\ rev \in Nat /\ rev \in Revs /\ req \in [Requests -> Reqs]
        /\ data \in [Keys -> Answers] /\ fetch \in [Keys -> Fetches] /\ owed \in [Keys -> Revs]
        /\ \A i \in Requests : req[i] \in Reqs /\ req[i].rev \in Nat
    BY TypeParts, BoundsAssumption DEF Revs, Reqs
  <1>2. \A i \in Requests : req[i].rev <= rev
    BY DEF Recent
  <1>3. ASSUME NEW c \in Chunks, OthersChange(c) PROVE Recent'
    <2>1. rev' = rev + 1 /\ rev < MaxRev /\ UNCHANGED <<data, fetch, owed, req>>
      BY <1>3 DEF OthersChange, Change
    <2> QED BY <1>1, <1>2, <2>1, SameReads, BoundsAssumption DEF Revs
  <1>4. ASSUME NEW of, NEW kind, NEW cs, NEW listed, Send(of, kind, cs, listed) PROVE Recent'
    <2>1. /\ UNCHANGED <<rev, data, fetch, owed>>
          /\ \A i \in Requests : req'[i].rev \in {req[i].rev, 0}
      BY <1>1, <1>4 DEF Send
    <2> QED BY <1>1, <1>2, <2>1, SameReads
  <1>5. ASSUME NEW i \in Requests, ResolveApprovals(i) PROVE Recent'
    <2>1. UNCHANGED <<rev, data, fetch, owed>> /\ \A k \in Requests : req'[k].rev = req[k].rev
      BY <1>1, <1>5 DEF ResolveApprovals, ReadsDraft, Reqs
    <2> QED BY <1>1, <1>2, <2>1, SameReads
  <1>6. ASSUME NEW i \in Requests, Execute(i) PROVE Recent'
    <2>1. rev' = rev + 1 /\ rev < MaxRev /\ UNCHANGED <<data, fetch, owed>>
      BY <1>6 DEF Execute
    <2>2. \A k \in Requests : req'[k].rev \in {req[k].rev, rev'}
      BY <1>1, <1>6 DEF Execute, Reqs
    <2> QED BY <1>1, <1>2, <2>1, <2>2, SameReads, BoundsAssumption DEF Revs
  <1>7. ASSUME NEW i \in Requests, Fail(i) PROVE Recent'
    <2>1. UNCHANGED <<rev, data, fetch, owed>> /\ \A k \in Requests : req'[k].rev \in {req[k].rev, 0}
      BY <1>1, <1>7 DEF Fail, Over
    <2> QED BY <1>1, <1>2, <2>1, SameReads
  <1>8. ASSUME NEW i \in Requests, Succeed(i) PROVE Recent'
    <2>1. UNCHANGED <<rev, data>> /\ \A k \in Requests : req'[k].rev \in {req[k].rev, 0}
      BY <1>1, <1>8 DEF Succeed, Over
    <2>2. CASE UNCHANGED <<fetch, owed>>
      BY <1>1, <1>2, <2>1, <2>2, SameReads
    <2>3. CASE req[i].of # "api"
      <3>1. /\ fetch' = [f \in Keys |-> Refetch(f)]
            /\ owed' = [f \in Keys |-> IF Active(f) /\ Loaded(f) /\ req[i].rev > owed[f]
                                       THEN req[i].rev ELSE owed[f]]
        BY <1>8, <2>3 DEF Succeed
      <3>2. ASSUME NEW f \in Keys
            PROVE  /\ owed'[f] <= rev
                   /\ fetch'[f].at = "read" => fetch'[f].answer.rev >= owed'[f]
                   /\ fetch'[f].at = "idle" => data[f].rev >= owed'[f]
        <4>1. Fetch("asked", Unloaded).at = "asked"
          BY DEF Fetch
        <4>2. CASE Active(f) /\ (Loaded(f) \/ AtRest(f))
          <5>1. fetch'[f].at = "asked"
            BY <3>1, <4>1, <4>2 DEF Refetch
          <5> QED BY <1>1, <1>2, <3>1, <5>1 DEF Recent
        <4>3. CASE ~(Active(f) /\ (Loaded(f) \/ AtRest(f)))
          <5>1. fetch'[f] = fetch[f] /\ owed'[f] = owed[f]
            BY <3>1, <4>3 DEF Refetch
          <5> QED BY <5>1 DEF Recent
        <4> QED BY <4>2, <4>3
      <3> QED BY <1>1, <1>2, <2>1, <3>2 DEF Recent
    <2> QED BY <1>8, <2>2, <2>3 DEF Succeed
  <1>9. CASE Reads
    <2>1. PICK f \in Keys : Poll(f) \/ GetDraftPolicy(f) \/ Receive(f) \/ ReadFails(f)
      BY <1>9 DEF Reads
    <2>2. UNCHANGED <<rev, req, owed>>
      BY <2>1 DEF Poll, GetDraftPolicy, Receive, ReadFails
    <2>3. \A k \in Keys : k # f => fetch'[k] = fetch[k] /\ data'[k] = data[k]
      BY <1>1, <2>1 DEF Poll, GetDraftPolicy, Receive, ReadFails
    <2>4. /\ fetch'[f].at = "read" => fetch'[f].answer.rev >= owed[f]
          /\ fetch'[f].at = "idle" => data'[f].rev >= owed[f]
      <3>1. CASE Poll(f) \/ ReadFails(f)
        BY <1>1, <3>1 DEF Poll, ReadFails, Fetch
      <3>2. CASE GetDraftPolicy(f)
        BY <1>1, <3>2 DEF GetDraftPolicy, Fetch, Answer, Recent, Revs
      <3>3. CASE Receive(f)
        BY <1>1, <3>3 DEF Receive, Fetch, Recent
      <3> QED BY <2>1, <3>1, <3>2, <3>3
    <2> QED BY <2>2, <2>3, <2>4 DEF Recent
  <1>10. CASE \E f \in Keys : SetStatusFilter(f)
    <2>1. PICK f \in Keys : SetStatusFilter(f)
      BY <1>10
    <2>2. /\ UNCHANGED <<rev, req, data, owed>>
          /\ \A k \in Keys : fetch'[k] = fetch[k] \/ fetch'[k].at = "asked"
      BY <1>1, <2>1 DEF SetStatusFilter, Fetch
    <2> QED BY <2>2 DEF Recent
  <1>11. CASE CloseEdit
    <2>1. UNCHANGED <<rev, data, fetch, owed>> /\ \A i \in Requests : req'[i].rev = req[i].rev
      BY <1>1, <1>11 DEF CloseEdit, Released, Reqs
    <2> QED BY <1>1, <1>2, <2>1, SameReads
  <1>12. CASE \E c \in Chunks : OpenEdit(c)
    BY <1>12 DEF OpenEdit, Recent
  <1>13. CASE Reviewer
    BY <1>4, <1>10, <1>11, <1>12, <1>13 DEF Reviewer, Decide, DecideAll, SaveEdit
  <1>14. CASE UNCHANGED vars
    BY <1>14 DEF vars, Recent
  <1> QED BY <1>3, <1>4, <1>5, <1>6, <1>7, <1>8, <1>9, <1>13, <1>14 DEF Next, Handler, ApproveWithoutTokens

\* A list that is at rest includes every decision of the tab that was answered
\* while it was on screen: the answer to a decision replaces a read that was
\* made before it (api/policy.ts, useDraftMutation's invalidation).
THEOREM DecisionsAreShown == Spec => []DecisionIsShown
  <1>1. Recent => DecisionIsShown
    BY DEF Recent, DecisionIsShown
  <1> QED BY <1>1, RecentInit, RecentStep, TypeCorrect, PTL DEF Spec

-----------------------------------------------------------------------------
\* The modal and its save.

IsSaving(i) == req[i].kind = "edit" /\ req[i].of = "tab" /\ req[i].at \in {"sent", "resolved", "done"}

\* A save that is under way is that of the modal that is open, and the only one.
SavesAreOwn ==
    /\ \A i \in Requests : IsSaving(i) => /\ editing.open /\ editing.saved
                                          /\ editing.chunks = req[i].chunks
    /\ \A i, j \in Requests : IsSaving(i) /\ IsSaving(j) => i = j

ClosesItsOwn ==
    \A i \in Requests : editing.open /\ req[i].at = "done" /\ req'[i].at = "over"
        /\ ~editing'.open => editing.saved /\ req[i].chunks = editing.chunks

\* A step that leaves the modal, and in which nothing begins to be saved.
LEMMA SameModal ==
    ASSUME SavesAreOwn, UNCHANGED editing,
           \A i \in Requests : IsSaving(i)' => IsSaving(i) /\ req'[i].chunks = req[i].chunks
    PROVE  SavesAreOwn' /\ ClosesItsOwn
  BY DEF SavesAreOwn, ClosesItsOwn

LEMMA SavesStep == TypeOK /\ SavesAreOwn /\ [Next]_vars => SavesAreOwn' /\ ClosesItsOwn
  <1> SUFFICES ASSUME TypeOK, SavesAreOwn, [Next]_vars PROVE SavesAreOwn' /\ ClosesItsOwn
    OBVIOUS
  <1> USE DEF gateway, queries
  <1>1. req \in [Requests -> Reqs] /\ \A i \in Requests : req[i] \in Reqs
    BY TypeParts
  <1>2. CASE UNCHANGED <<req, editing>>
    BY <1>2, SameModal DEF IsSaving
  <1>3. ASSUME NEW of, NEW kind, NEW cs, NEW listed, Send(of, kind, cs, listed), UNCHANGED editing,
               ~(of = "tab" /\ kind = "edit")
        PROVE  SavesAreOwn' /\ ClosesItsOwn
    <2>1. \A i \in Requests : req'[i] = req[i] \/ (req'[i].of = of /\ req'[i].kind = kind)
      BY <1>1, <1>3 DEF Send
    <2> QED BY <1>3, <2>1, SameModal DEF IsSaving
  <1>4. ASSUME NEW i \in Requests, ResolveApprovals(i) PROVE SavesAreOwn' /\ ClosesItsOwn
    <2>1. NeedsRead(i) /\ ReadsDraft(i) /\ UNCHANGED editing
      BY <1>4 DEF ResolveApprovals
    <2>2. req[i].kind # "edit"
      BY <2>1 DEF NeedsRead
    <2>3. req'[i].kind = req[i].kind /\ \A k \in Requests : k # i => req'[k] = req[k]
      BY <1>1, <2>1 DEF ReadsDraft, Reqs
    <2> QED BY <2>1, <2>2, <2>3, SameModal DEF IsSaving
  <1>5. ASSUME NEW i \in Requests, Execute(i) PROVE SavesAreOwn' /\ ClosesItsOwn
    <2>1. /\ req[i].at \in {"sent", "resolved"} /\ UNCHANGED editing
          /\ req'[i].kind = req[i].kind /\ req'[i].of = req[i].of /\ req'[i].chunks = req[i].chunks
          /\ \A k \in Requests : k # i => req'[k] = req[k]
      BY <1>1, <1>5 DEF Execute, Ready, Reqs
    <2> QED BY <2>1, SameModal DEF IsSaving
  <1>6. ASSUME NEW i \in Requests, Succeed(i) \/ Fail(i), UNCHANGED editing
        PROVE  SavesAreOwn' /\ ClosesItsOwn
    <2>1. req'[i].at = "over" /\ \A k \in Requests : k # i => req'[k] = req[k]
      BY <1>1, <1>6 DEF Succeed, Fail, Over
    <2> QED BY <1>6, <2>1, SameModal DEF IsSaving
  <1>7. ASSUME NEW i \in Requests, Succeed(i), req[i].kind = "edit", req[i].of = "tab"
        PROVE  SavesAreOwn' /\ ClosesItsOwn
    <2>1. /\ IsSaving(i) /\ req'[i].at = "over"
          /\ \A k \in Requests : k # i => req'[k] = req[k]
      BY <1>1, <1>7 DEF Succeed, Over, IsSaving
    <2>2. editing.saved /\ editing.chunks = req[i].chunks
      BY <2>1 DEF SavesAreOwn
    <2>3. \A k \in Requests : ~IsSaving(k)'
      BY <2>1 DEF SavesAreOwn, IsSaving
    <2> QED BY <2>1, <2>2, <2>3 DEF SavesAreOwn, ClosesItsOwn
  <1>8. CASE SaveEdit
    <2>1. /\ editing.open /\ ~IsPending("edit") /\ Send("tab", "edit", editing.chunks, Empty)
          /\ editing' = [editing EXCEPT !.saved = TRUE]
      BY <1>8 DEF SaveEdit
    <2>2. editing'.open /\ editing'.saved /\ editing'.chunks = editing.chunks
      BY <2>1 DEF TypeOK
    <2>3. \A i \in Requests : ~IsSaving(i)
      BY <2>1 DEF IsPending, IsSaving
    <2>4. /\ \A i \in Requests : i # sent + 1 => req'[i] = req[i]
          /\ \A i \in Requests : i = sent + 1 => req'[i].chunks = editing.chunks
      BY <1>1, <2>1 DEF Send
    <2> QED BY <2>2, <2>3, <2>4 DEF SavesAreOwn, ClosesItsOwn, IsSaving
  <1>9. CASE CloseEdit
    <2>1. \A i \in Requests : /\ req'[i].at = req[i].at /\ req'[i].kind = req[i].kind
                              /\ req[i].kind = "edit" => req'[i].of = "reset"
      BY <1>1, <1>9 DEF CloseEdit, Released, Reqs
    <2> QED BY <2>1 DEF SavesAreOwn, ClosesItsOwn, IsSaving
  <1>10. CASE \E c \in Chunks : OpenEdit(c)
    <2>1. ~editing.open /\ UNCHANGED req
      BY <1>10 DEF OpenEdit
    <2> QED BY <2>1 DEF SavesAreOwn, ClosesItsOwn, IsSaving
  <1>11. CASE Reviewer
    <2>1. CASE \E f \in Keys : SetStatusFilter(f)
      BY <1>2, <2>1 DEF SetStatusFilter
    <2>2. CASE \/ \E c \in Chunks, kind \in {"approve", "reject", "undo"} : Decide(kind, c)
               \/ \E kind \in {"approveAll", "clear"} : DecideAll(kind)
      BY <1>3, <2>2 DEF Decide, DecideAll
    <2> QED BY <1>8, <1>9, <1>10, <1>11, <2>1, <2>2 DEF Reviewer
  <1>12. ASSUME NEW i \in Requests, Handler(i) PROVE SavesAreOwn' /\ ClosesItsOwn
    <2>1. CASE Succeed(i) \/ Fail(i)
      BY <1>6, <1>7, <2>1 DEF Succeed, Fail
    <2> QED BY <1>4, <1>5, <1>12, <2>1 DEF Handler
  <1>13. CASE Reads \/ \E c \in Chunks : OthersChange(c)
    BY <1>2, <1>13 DEF Reads, Poll, GetDraftPolicy, Receive, ReadFails, OthersChange
  <1>14. CASE UNCHANGED vars
    BY <1>2, <1>14 DEF vars
  <1>15. ASSUME NEW kind \in {"approve", "approveAll"}, NEW cs \in SUBSET Chunks, ApproveWithoutTokens(kind, cs)
         PROVE  SavesAreOwn' /\ ClosesItsOwn
    BY <1>3, <1>15 DEF ApproveWithoutTokens
  <1> QED BY <1>11, <1>12, <1>13, <1>14, <1>15 DEF Next

\* A save that ends closes the modal it was made in and no other, however the
\* modal was closed, and opened for another chunk, while it was under way
\* (SandboxDraftsTab, the reset of the edit mutation).
THEOREM SavesCloseTheirOwn == Spec => OwnSaveCloses
  <1>1. Init => SavesAreOwn
    BY DEF Init, SavesAreOwn, IsSaving, NotSent
  <1>2. TypeOK /\ SavesAreOwn /\ [Next]_vars => SavesAreOwn'
    BY SavesStep
  <1>3. TypeOK /\ SavesAreOwn /\ [Next]_vars => [ClosesItsOwn]_vars
    BY SavesStep
  <1>4. OwnSaveCloses <=> [][ClosesItsOwn]_vars
    BY DEF OwnSaveCloses, ClosesItsOwn
  <1> QED BY <1>1, <1>2, <1>3, <1>4, TypeCorrect, PTL DEF Spec

-----------------------------------------------------------------------------
(***************************************************************************)
(* The policy editor: a document replaces the revision it was begun from.  *)
(* The page reads the sandbox and then its policy; the resource version it *)
(* sends is the first read's, the revision it has compared the second's.   *)
(* A gateway that is still at that version had no new revision between,    *)
(* provided that the second read was answered after the first.             *)
(***************************************************************************)
SaveFields == {"at", "policy", "base", "version", "meant", "joined"}

\* The gateway counts; every new revision is also a new resource version.
GatewayCounts ==
    /\ DOMAIN gw = {"revision", "version", "policy", "global"}
    /\ gw.revision \in Nat /\ gw.version \in Nat

\* A save past its first read has a version that the gateway has had. As long
\* as that version is, an answer that its own read of the policy was given is
\* of the revision there is, and one that is sent is of that revision.
SaveIsOfItsBase ==
    /\ save = Idle \/ DOMAIN save = SaveFields
    /\ save.at \in {"refetch", "policy", "sent"} => save.version \in Nat /\ save.version <= gw.version
    /\ save.at = "policy" /\ ~save.joined /\ save.version = gw.version
         => poll = None \/ gw.revision = poll.revision
    /\ save.at = "sent" /\ ~save.joined /\ save.version = gw.version => gw.revision = save.base

EditorInv == GatewayCounts /\ SaveIsOfItsBase

\* A policy that is stored moves both numbers on.
LEMMA StoredCounts ==
    ASSUME GatewayCounts, NEW policy
    PROVE  /\ DOMAIN StoredAs(policy) = DOMAIN gw
           /\ StoredAs(policy).revision = gw.revision + 1
           /\ StoredAs(policy).version = gw.version + 1
           /\ StoredAs(policy).policy = policy
           /\ StoredAs(policy).global = gw.global
  BY DEF GatewayCounts, StoredAs

\* What happens in the gateway leaves a save of its base, because no change of
\* its policy leaves its version as it was.
LEMMA GatewayMovesOn ==
    ASSUME EditorInv, UNCHANGED save, poll' \in {None, poll}, DOMAIN gw' = DOMAIN gw,
           gw'.revision \in Nat, gw'.version \in Nat,
           gw'.version > gw.version \/ (gw'.version = gw.version /\ gw'.revision = gw.revision)
    PROVE  EditorInv'
  BY DEF EditorInv, GatewayCounts, SaveIsOfItsBase

LEMMA StoringMovesOn ==
    ASSUME EditorInv, UNCHANGED save, poll' \in {None, poll}, NEW policy, gw' = StoredAs(policy)
    PROVE  EditorInv'
  <1>1. GatewayCounts
    BY DEF EditorInv
  <1>2. /\ DOMAIN gw' = DOMAIN gw /\ gw'.revision = gw.revision + 1 /\ gw'.version = gw.version + 1
    BY <1>1, StoredCounts
  <1>3. gw'.revision \in Nat /\ gw'.version \in Nat /\ gw'.version > gw.version
    BY <1>1, <1>2 DEF GatewayCounts
  <1> QED BY <1>2, <1>3, GatewayMovesOn

\* A save that is over, or at a place where it compares nothing, says nothing.
LEMMA SaveAtRest ==
    ASSUME EditorInv, GatewayCounts', save' = Idle \/ DOMAIN save' = SaveFields,
           save'.at \notin {"refetch", "policy", "sent"}
    PROVE  EditorInv'
  BY DEF EditorInv, SaveIsOfItsBase

LEMMA SaveMovesTo ==
    ASSUME EditorInv, save.at # "idle", NEW at
    PROVE  /\ DOMAIN [save EXCEPT !.at = at] = SaveFields
           /\ [save EXCEPT !.at = at].at = at
           /\ [save EXCEPT !.at = at].base = save.base
           /\ [save EXCEPT !.at = at].version = save.version
           /\ [save EXCEPT !.at = at].joined = save.joined
  BY DEF EditorInv, SaveIsOfItsBase, Idle, SaveFields

\* Reading the sandbox and asking for the revision leave what is saved alone.
LEMMA SaveGoesOn ==
    ASSUME EditorInv, ReadSandbox \/ RefetchPolicy
    PROVE  /\ save.at \in {"sandbox", "refetch"} /\ UNCHANGED <<draft, meant>>
           /\ save'.policy = save.policy /\ save'.meant = save.meant
  <1>1. save.at \in {"sandbox", "refetch"} /\ UNCHANGED <<draft, meant>>
    BY DEF ReadSandbox, RefetchPolicy
  <1>2. DOMAIN save = SaveFields
    BY <1>1 DEF EditorInv, SaveIsOfItsBase, Idle
  <1>3. CASE ReadSandbox
    <2>1. save' = [save EXCEPT !.at = "refetch", !.version = gw.version]
      BY <1>3 DEF ReadSandbox
    <2> QED BY <1>1, <1>2, <2>1 DEF SaveFields
  <1>4. CASE RefetchPolicy
    <2> DEFINE joined == ~HasRevision /\ poll # None
    <2>1. save' = [save EXCEPT !.at = "policy", !.joined = joined]
      BY <1>4 DEF RefetchPolicy
    <2> HIDE DEF joined
    <2> QED BY <1>1, <1>2, <2>1 DEF SaveFields
  <1> QED BY <1>3, <1>4

LEMMA InitEditorInv == EditorInit => EditorInv
  BY DEF EditorInit, EditorInv, GatewayCounts, SaveIsOfItsBase, Idle

LEMMA StepEditorInv == EditorInv /\ [EditorNext]_editorVars => EditorInv'
  <1> SUFFICES ASSUME EditorInv, [EditorNext]_editorVars PROVE EditorInv'
    OBVIOUS
  <1>0. Refetched \in {None, poll}
    BY DEF Refetched
  <1>1. CASE UNCHANGED <<gw, save>> /\ poll' \in {None, poll}
    BY <1>1 DEF EditorInv, GatewayCounts, SaveIsOfItsBase
  <1>2. CASE OthersReplace
    BY <1>2, StoringMovesOn DEF OthersReplace
  <1>3. CASE OthersTouch
    <2>1. /\ DOMAIN gw' = DOMAIN gw /\ gw'.version = gw.version + 1 /\ gw'.revision = gw.revision
          /\ gw.version \in Nat /\ gw.revision \in Nat /\ UNCHANGED <<save, poll>>
      BY <1>3 DEF OthersTouch, EditorInv, GatewayCounts
    <2> QED BY <2>1, GatewayMovesOn
  <1>4. CASE SetOrDeleteGlobalPolicy
    <2>1. /\ DOMAIN gw' = DOMAIN gw /\ gw'.version = gw.version /\ gw'.revision = gw.revision
          /\ gw.version \in Nat /\ gw.revision \in Nat /\ UNCHANGED <<save, poll>>
      BY <1>4 DEF SetOrDeleteGlobalPolicy, EditorInv, GatewayCounts
    <2> QED BY <2>1, GatewayMovesOn
  <1>5. CASE Replace
    <2>1. UNCHANGED gw /\ DOMAIN save' = SaveFields /\ save'.at = "sandbox"
      BY <1>5 DEF Replace, SaveFields
    <2> QED BY <2>1, SaveAtRest DEF EditorInv, GatewayCounts
  <1>6. CASE ReadSandbox
    <2>1. /\ UNCHANGED gw /\ DOMAIN save' = SaveFields /\ save'.at = "refetch" /\ save'.version = gw.version
      BY <1>6 DEF ReadSandbox, EditorInv, SaveIsOfItsBase, Idle, SaveFields
    <2> QED BY <2>1 DEF EditorInv, GatewayCounts, SaveIsOfItsBase
  <1>7. CASE RefetchPolicy
    <2>1. /\ UNCHANGED gw /\ save.at = "refetch" /\ poll' = Refetched
          /\ save' = [save EXCEPT !.at = "policy", !.joined = ~HasRevision /\ poll # None]
      BY <1>7 DEF RefetchPolicy
    <2>2. DOMAIN save = SaveFields
      BY <2>1 DEF EditorInv, SaveIsOfItsBase, Idle
    <2>3. /\ DOMAIN save' = SaveFields /\ save'.at = "policy" /\ save'.version = save.version
          /\ save'.joined = (~HasRevision /\ poll # None)
      BY <2>1, <2>2 DEF SaveFields
    <2>4. ~save'.joined => poll' = None
      BY <2>1, <2>3 DEF Refetched
    <2> QED BY <2>1, <2>3, <2>4 DEF EditorInv, GatewayCounts, SaveIsOfItsBase
  <1>8. CASE AnswerPolicy
    <2>1. UNCHANGED <<gw, save>> /\ poll'.revision = gw.revision
      BY <1>8 DEF AnswerPolicy
    <2> QED BY <2>1 DEF EditorInv, GatewayCounts, SaveIsOfItsBase
  <1>9. CASE PolicyArrives
    <2>1. UNCHANGED gw /\ poll # None /\ poll' = None
      BY <1>9 DEF PolicyArrives
    <2>2. CASE save.at # "policy"
      BY <1>1, <1>9, <2>1, <2>2 DEF PolicyArrives
    <2>3. CASE save.at = "policy" /\ poll.revision = save.base
      <3>1. save' = [save EXCEPT !.at = "sent"]
        BY <1>9, <2>3 DEF PolicyArrives, RevisionNow
      <3>2. /\ DOMAIN save' = SaveFields /\ save'.at = "sent" /\ save'.joined = save.joined
            /\ save'.base = save.base /\ save'.version = save.version
        BY <2>3, <3>1, SaveMovesTo
      <3> QED BY <2>1, <2>3, <3>2 DEF EditorInv, GatewayCounts, SaveIsOfItsBase
    <2>4. CASE save.at = "policy" /\ poll.revision # save.base
      <3>1. save' = Idle
        BY <1>9, <2>4 DEF PolicyArrives, RevisionNow
      <3> QED BY <2>1, <3>1, SaveAtRest DEF EditorInv, GatewayCounts, Idle
    <2> QED BY <2>2, <2>3, <2>4
  <1>10. CASE PolicyReadFails
    <2>1. UNCHANGED gw /\ poll' = None /\ save' \in {save, Idle}
      BY <1>10 DEF PolicyReadFails
    <2>2. CASE save' = Idle
      BY <2>1, <2>2, SaveAtRest DEF EditorInv, GatewayCounts, Idle
    <2> QED BY <1>1, <2>1, <2>2
  <1>11. CASE SandboxReadFails \/ Replaced \/ NotReplaced
    <2>1. UNCHANGED gw /\ save' = Idle
      BY <1>11 DEF SandboxReadFails, Replaced, NotReplaced
    <2> QED BY <2>1, SaveAtRest DEF EditorInv, GatewayCounts, Idle
  <1>12. CASE UpdateSandboxPolicy
    <2>1. PICK at \in {"stored", "refused"} : save' = [save EXCEPT !.at = at]
      BY <1>12 DEF UpdateSandboxPolicy
    <2>2. DOMAIN save' = SaveFields /\ save'.at = at
      BY <1>12, <2>1, SaveMovesTo DEF UpdateSandboxPolicy
    <2>3. GatewayCounts'
      <3>1. UNCHANGED gw \/ \E policy : gw' = StoredAs(policy)
        BY <1>12 DEF UpdateSandboxPolicy
      <3>2. CASE UNCHANGED gw
        BY <3>2 DEF EditorInv, GatewayCounts
      <3>3. ASSUME NEW policy, gw' = StoredAs(policy) PROVE GatewayCounts'
        BY <3>3, StoredCounts DEF EditorInv, GatewayCounts
      <3> QED BY <3>1, <3>2, <3>3
    <2> QED BY <2>2, <2>3, SaveAtRest
  <1>13. CASE RequestFails
    <2>1. UNCHANGED gw /\ save' = [save EXCEPT !.at = "refused"] /\ save.at # "idle"
      BY <1>13 DEF RequestFails
    <2>2. DOMAIN save' = SaveFields /\ save'.at = "refused"
      BY <2>1, SaveMovesTo
    <2> QED BY <2>1, <2>2, SaveAtRest DEF EditorInv, GatewayCounts
  <1>14. CASE MergeSandboxPolicy
    <2>1. UNCHANGED save /\ (UNCHANGED gw \/ \E policy : gw' = StoredAs(policy))
      BY <1>14 DEF MergeSandboxPolicy
    <2>2. poll' \in {None, poll}
      BY <1>0, <1>14 DEF MergeSandboxPolicy
    <2>3. CASE UNCHANGED gw
      BY <1>1, <2>1, <2>2, <2>3
    <2>4. ASSUME NEW policy, gw' = StoredAs(policy) PROVE EditorInv'
      BY <2>1, <2>2, <2>4, StoringMovesOn
    <2> QED BY <2>1, <2>3, <2>4
  <1>15. CASE \/ PollEffective \/ StartEditing \/ Type \/ Choose \/ KeepDocument
              \/ DiscardDocument \/ Cancel
    BY <1>1, <1>15 DEF PollEffective, StartEditing, Type, Choose, KeepDocument, DiscardDocument, Cancel
  <1>16. CASE \/ RemoveRule \/ AddEndpoint \/ AskRemoval \/ AskL7Rule \/ CloseDialog
              \/ ConfirmRemoval \/ SubmitL7Rule
    BY <1>1, <1>16 DEF RemoveRule, AddEndpoint, AskRemoval, AskL7Rule, CloseDialog, ConfirmRemoval, SubmitL7Rule
  <1>17. CASE UNCHANGED editorVars
    BY <1>1, <1>17 DEF editorVars
  <1> QED
    BY <1>2, <1>3, <1>4, <1>5, <1>6, <1>7, <1>8, <1>9, <1>10, <1>11, <1>12, <1>13, <1>14, <1>15, <1>16, <1>17
       DEF EditorNext

LEMMA EditorInvariant == EditorSpec => []EditorInv
  BY InitEditorInv, StepEditorInv, PTL DEF EditorSpec

\* Whatever others write between any two of the reads and the request, for any
\* policies, texts and number of steps, a document replaces the revision that
\* it was started from, or that its editor was told of and chose to replace,
\* unless the page held no revision and its check of the policy joined a read
\* that was already under way (PolicyRuleEditor/index.tsx, replaceDocument).
THEOREM DocumentsReplaceTheirOwn == EditorSpec => NoLostUpdate
  <1>1. EditorInv /\ [EditorNext]_editorVars => (Stores /\ ~save.joined => gw.revision = save.base)
    <2> SUFFICES ASSUME EditorInv, [EditorNext]_editorVars, Stores, ~save.joined PROVE gw.revision = save.base
      OBVIOUS
    <2>1. save.at = "sent" /\ save'.at = "stored"
      BY DEF Stores
    <2>2. save.version = gw.version
      <3>1. CASE UpdateSandboxPolicy
        <4>1. ASSUME save' = [save EXCEPT !.at = "refused"] PROVE FALSE
          BY <2>1, <4>1, SaveMovesTo
        <4> QED BY <3>1, <4>1 DEF UpdateSandboxPolicy
      <3>2. CASE RequestFails
        BY <2>1, <3>2, SaveMovesTo DEF RequestFails
      <3>3. CASE \/ Replace \/ ReadSandbox \/ SandboxReadFails \/ RefetchPolicy \/ Replaced \/ NotReplaced
        BY <2>1, <3>3 DEF Replace, Busy, ReadSandbox, SandboxReadFails, RefetchPolicy, Replaced, NotReplaced
      <3>4. CASE UNCHANGED save
        BY <2>1, <3>4
      <3>5. \/ UpdateSandboxPolicy \/ RequestFails \/ UNCHANGED save
            \/ Replace \/ ReadSandbox \/ SandboxReadFails \/ RefetchPolicy \/ Replaced \/ NotReplaced
        BY <2>1 DEF EditorNext, editorVars, OthersReplace, OthersTouch, SetOrDeleteGlobalPolicy, AnswerPolicy,
               PolicyArrives, PolicyReadFails, PollEffective,
               StartEditing, Type, Choose, KeepDocument, DiscardDocument, Cancel, RemoveRule, AddEndpoint, AskRemoval,
               AskL7Rule, CloseDialog, ConfirmRemoval, SubmitL7Rule, MergeSandboxPolicy
      <3> QED BY <3>1, <3>2, <3>3, <3>4, <3>5
    <2> QED BY <2>1, <2>2 DEF EditorInv, SaveIsOfItsBase
  <1>2. EditorSpec => [][EditorNext]_editorVars
    BY PTL DEF EditorSpec
  <1> QED BY <1>1, <1>2, EditorInvariant, PTL DEF NoLostUpdate

-----------------------------------------------------------------------------
(***************************************************************************)
(* Lists: some of the places of a list, from the first on.                 *)
(***************************************************************************)

\* A set of numbers that is not empty has a least one.
LEMMA Least ==
    ASSUME NEW T, T \subseteq Nat, T # {}
    PROVE  \E x \in T : \A y \in T : ~(y < x)
  <1> DEFINE R == {ss \in Nat \X Nat : ss[1] < ss[2]}
  <1>1. IsWellFoundedOn(R, Nat)
    BY NatLessThanWellFounded, Zenon DEF OpToRel
  <1>2. \A x, y \in Nat : <<y, x>> \in R <=> y < x
    OBVIOUS
  <1> HIDE DEF R
  <1>3. PICK x \in T : \A y \in T : ~(<<y, x>> \in R)
    BY <1>1, WFMin
  <1> QED BY <1>2, <1>3

\* So a set that has 0 and the successor of each of its numbers has them all.
LEMMA Induction ==
    ASSUME NEW S, 0 \in S, \A n \in Nat : n \in S => n + 1 \in S
    PROVE  \A n \in Nat : n \in S
  <1> SUFFICES ASSUME \E n \in Nat : n \notin S PROVE FALSE
    OBVIOUS
  <1>1. PICK x \in Nat \ S : \A y \in Nat \ S : ~(y < x)
    <2>1. Nat \ S # {} /\ Nat \ S \subseteq Nat
      OBVIOUS
    <2> QED BY <2>1, Least
  <1>2. x # 0 /\ x - 1 \in Nat /\ x - 1 \in S
    BY <1>1
  <1> QED BY <1>1, <1>2

HasOrder(places) == \E h \in [1 .. Cardinality(places) -> places] : Enumerates(h, places)

\* One more place, after all others, comes last.
LEMMA OneMorePlace ==
    ASSUME NEW m \in Nat, NEW places \in SUBSET (1 .. m + 1), m + 1 \in places,
           HasOrder(places \ {m + 1})
    PROVE  HasOrder(places)
  <1> DEFINE others == places \ {m + 1}
             c == Cardinality(others)
  <1>1. IsFiniteSet(places) /\ IsFiniteSet(others)
    <2>1. IsFiniteSet(1 .. m + 1)
      BY FS_Interval
    <2> QED BY <2>1, FS_Subset
  <1>2. c \in Nat /\ Cardinality(places) = c + 1
    <2>1. Cardinality(others) \in Nat /\ Cardinality(others \cup {m + 1}) = Cardinality(others) + 1
      BY <1>1, FS_AddElement, FS_CardinalityType
    <2>2. others \cup {m + 1} = places
      OBVIOUS
    <2> QED BY <2>1, <2>2
  <1>3. PICK h \in [1 .. c -> others] : Enumerates(h, others)
    BY DEF HasOrder
  <1> DEFINE g == [k \in 1 .. c + 1 |-> IF k = c + 1 THEN m + 1 ELSE h[k]]
  <1> HIDE DEF c
  <1>4. /\ \A k \in 1 .. c : g[k] = h[k] /\ h[k] \in others /\ h[k] < m + 1
        /\ g[c + 1] = m + 1 /\ DOMAIN g = 1 .. c + 1 /\ DOMAIN h = 1 .. c
    <2>1. \A k \in 1 .. c : k \in 1 .. c + 1 /\ k # c + 1
      BY <1>2
    <2>2. c + 1 \in 1 .. c + 1
      BY <1>2
    <2>3. \A k \in 1 .. c : h[k] \in others /\ h[k] < m + 1
      <3>1. \A p \in others : p < m + 1
        OBVIOUS
      <3> HIDE DEF others
      <3> QED BY <1>3, <3>1
    <2> QED BY <1>3, <2>1, <2>2, <2>3
  <1>5. g \in [1 .. c + 1 -> places]
    BY <1>2, <1>4
  <1> HIDE DEF g
  <1>6. \A i, j \in 1 .. c + 1 : i < j => g[i] < g[j]
    <2> SUFFICES ASSUME NEW i \in 1 .. c + 1, NEW j \in 1 .. c + 1, i < j PROVE g[i] < g[j]
      OBVIOUS
    <2>1. i \in 1 .. c
      BY <1>2
    <2>2. CASE j = c + 1
      BY <1>4, <2>1, <2>2
    <2>3. CASE j \in 1 .. c
      <3>1. h[i] < h[j]
        BY <1>3, <1>4, <2>1, <2>3 DEF Enumerates
      <3> QED BY <1>4, <2>1, <2>3, <3>1
    <2> QED BY <1>2, <2>2, <2>3
  <1>7. \A p \in places : \E i \in 1 .. c + 1 : g[i] = p
    <2> SUFFICES ASSUME NEW p \in places, p # m + 1 PROVE \E i \in 1 .. c + 1 : g[i] = p
      BY <1>2, <1>4
    <2>1. PICK i \in 1 .. c : h[i] = p
      BY <1>3, <1>4 DEF Enumerates
    <2>2. i \in 1 .. c + 1 /\ g[i] = p
      BY <1>2, <1>4, <2>1
    <2> QED BY <2>2
  <1> QED BY <1>2, <1>4, <1>5, <1>6, <1>7 DEF HasOrder, Enumerates

\* The places of a list have an order, and InOrder is one.
LEMMA PlacesInOrder ==
    ASSUME NEW n \in Nat, NEW places \in SUBSET (1 .. n)
    PROVE  /\ Cardinality(places) \in Nat
           /\ InOrder(places) \in [1 .. Cardinality(places) -> places]
           /\ Enumerates(InOrder(places), places)
  <1> DEFINE M == {m \in Nat : \A some \in SUBSET (1 .. m) : HasOrder(some)}
  <1>1. 0 \in M
    <2> SUFFICES HasOrder({})
      <3>1. SUBSET (1 .. 0) = {{}}
        OBVIOUS
      <3> QED BY <3>1
    <2>1. Cardinality({}) = 0
      BY FS_EmptySet
    <2>2. 1 .. 0 = {}
      OBVIOUS
    <2>3. [k \in {} |-> 0] \in [{} -> {}] /\ Enumerates([k \in {} |-> 0], {})
      BY DEF Enumerates
    <2> QED BY <2>1, <2>2, <2>3 DEF HasOrder
  <1>2. ASSUME NEW m \in Nat, m \in M PROVE m + 1 \in M
    <2> SUFFICES ASSUME NEW some \in SUBSET (1 .. m + 1) PROVE HasOrder(some)
      OBVIOUS
    <2>1. CASE m + 1 \in some
      <3>1. some \ {m + 1} \in SUBSET (1 .. m)
        OBVIOUS
      <3>2. HasOrder(some \ {m + 1})
        BY <1>2, <3>1
      <3> QED BY <2>1, <3>2, OneMorePlace
    <2>2. CASE m + 1 \notin some
      <3>1. some \in SUBSET (1 .. m)
        BY <2>2
      <3> QED BY <1>2, <3>1
    <2> QED BY <2>1, <2>2
  <1>3. n \in M
    <2> HIDE DEF M
    <2> QED BY <1>1, <1>2, Induction
  <1>4. HasOrder(places)
    BY <1>3
  <1>5. Cardinality(places) \in Nat
    <2>1. IsFiniteSet(1 .. n)
      BY FS_Interval
    <2>2. IsFiniteSet(places)
      BY <2>1, FS_Subset
    <2> QED BY <2>2, FS_CardinalityType
  <1> QED BY <1>4, <1>5 DEF HasOrder, InOrder

\* There is only one such order.
LEMMA OneOrder ==
    ASSUME NEW c \in Nat, NEW d \in Nat, NEW places, places \subseteq Nat,
           NEW h \in [1 .. c -> places], NEW g \in [1 .. d -> places],
           Enumerates(h, places), Enumerates(g, places)
    PROVE  c = d /\ \A k \in 1 .. c : h[k] = g[k]
  <1>1. /\ \A i, j \in 1 .. c : i < j => h[i] < h[j]
        /\ \A i, j \in 1 .. d : i < j => g[i] < g[j]
        /\ \A i \in 1 .. c : h[i] \in Nat /\ \E j \in 1 .. d : g[j] = h[i]
        /\ \A j \in 1 .. d : g[j] \in Nat /\ \E i \in 1 .. c : h[i] = g[j]
    BY DEF Enumerates
  <1> DEFINE T == {k \in 1 .. c : k \notin 1 .. d \/ h[k] # g[k]}
  <1>2. T = {}
    <2> SUFFICES ASSUME T # {} PROVE FALSE
      OBVIOUS
    <2>1. PICK k \in T : \A j \in T : ~(j < k)
      <3>1. T \subseteq Nat
        OBVIOUS
      <3> HIDE DEF T
      <3> QED BY <3>1, Least
    <2>2. \A j \in 1 .. c : j < k => j \in 1 .. d /\ h[j] = g[j]
      BY <2>1
    <2>3. k \in 1 .. c
      OBVIOUS
    <2>4. CASE k \in 1 .. d
      <3>1. h[k] # g[k]
        BY <2>4
      <3>2. PICK m \in 1 .. d : g[m] = h[k]
        BY <1>1, <2>3
      <3>3. PICK l \in 1 .. c : h[l] = g[k]
        BY <1>1, <2>4
      <3> HIDE DEF T
      <3>4. ~(m < k)
        BY <1>1, <2>2, <2>3, <3>2
      <3>5. ~(l < k)
        BY <1>1, <2>2, <2>3, <2>4, <3>3
      <3>6. k < m /\ k < l
        BY <2>3, <3>1, <3>2, <3>3, <3>4, <3>5
      <3>7. g[k] < g[m] /\ h[k] < h[l]
        BY <1>1, <2>3, <2>4, <3>6
      <3> QED BY <1>1, <2>3, <2>4, <3>2, <3>3, <3>7
    <2>5. CASE k \notin 1 .. d
      <3>1. PICK m \in 1 .. d : g[m] = h[k]
        BY <1>1, <2>3
      <3> HIDE DEF T
      <3>2. m < k /\ m \in 1 .. c
        BY <2>3, <2>5
      <3>3. h[m] = g[m] /\ h[m] < h[k]
        BY <1>1, <2>2, <2>3, <3>2
      <3> QED BY <1>1, <2>3, <3>1, <3>3
    <2> QED BY <2>4, <2>5
  <1>3. \A k \in 1 .. c : k \in 1 .. d /\ h[k] = g[k]
    BY <1>2
  <1> HIDE DEF T
  <1>4. ~(c < d)
    <2> SUFFICES ASSUME c < d PROVE FALSE
      OBVIOUS
    <2>1. c + 1 \in 1 .. d
      OBVIOUS
    <2>2. PICK i \in 1 .. c : h[i] = g[c + 1]
      BY <1>1, <2>1
    <2>3. i < c + 1 /\ i \in 1 .. d /\ g[i] = g[c + 1]
      BY <1>3, <2>2
    <2>4. g[i] < g[c + 1] /\ g[i] \in Nat
      BY <1>1, <2>1, <2>3
    <2> QED BY <2>3, <2>4
  <1>5. ~(d < c)
    <2> SUFFICES ASSUME d < c PROVE FALSE
      OBVIOUS
    <2>1. c \in 1 .. c /\ c \notin 1 .. d
      OBVIOUS
    <2> QED BY <1>3, <2>1
  <1> QED BY <1>3, <1>4, <1>5

\* Of places in order, some in order.
PlacesAt(h, some) == {h[i] : i \in some}

LEMMA OrderOfSome ==
    ASSUME NEW c \in Nat, NEW d \in Nat, NEW places \in SUBSET Nat, NEW some \in SUBSET (1 .. c),
           NEW h \in [1 .. c -> places], NEW g \in [1 .. d -> some],
           Enumerates(h, places), Enumerates(g, some)
    PROVE  \E f \in [1 .. d -> PlacesAt(h, some)] :
              Enumerates(f, PlacesAt(h, some)) /\ \A k \in 1 .. d : f[k] = h[g[k]]
  <1> DEFINE all == PlacesAt(h, some)
  <1> DEFINE f == [k \in 1 .. d |-> h[g[k]]]
  <1>1. \A k \in 1 .. d : f[k] = h[g[k]] /\ g[k] \in some /\ g[k] \in 1 .. c
    OBVIOUS
  <1>2. DOMAIN f = 1 .. d /\ f \in [1 .. d -> all]
    BY <1>1 DEF PlacesAt
  <1> HIDE DEF f
  <1>3. \A i, j \in 1 .. d : i < j => f[i] < f[j]
    BY <1>1 DEF Enumerates
  <1>4. \A p \in all : \E k \in 1 .. d : f[k] = p
    <2> SUFFICES ASSUME NEW i \in some PROVE \E k \in 1 .. d : f[k] = h[i]
      BY DEF PlacesAt
    <2>1. PICK k \in 1 .. d : g[k] = i
      BY DEF Enumerates
    <2> QED BY <1>1, <2>1
  <1> HIDE DEF all
  <1>5. f \in [1 .. d -> all] /\ Enumerates(f, all)
    BY <1>2, <1>3, <1>4 DEF Enumerates
  <1> QED BY <1>1, <1>5 DEF all

\* What the editor calls a list has a length and its members at 1, 2, ...
LEMMA ListIs ==
    ASSUME NEW s, IsList(s)
    PROVE  /\ Len(s) \in Nat /\ DOMAIN s = 1 .. Len(s)
           /\ s = [i \in 1 .. Len(s) |-> s[i]]
  BY DEF IsList

LEMMA IsAList ==
    ASSUME NEW n \in Nat, NEW s, s = [i \in 1 .. n |-> s[i]]
    PROVE  IsList(s) /\ Len(s) = n /\ DOMAIN s = 1 .. n
  <1>1. DOMAIN s = 1 .. n
    OBVIOUS
  <1>2. s \in [1 .. n -> {s[i] : i \in DOMAIN s}]
    BY <1>1
  <1> QED BY <1>1, <1>2 DEF IsList

LEMMA OnlyIsAList ==
    ASSUME NEW s, IsList(s), NEW places \in SUBSET DOMAIN s
    PROVE  /\ IsList(Only(s, places)) /\ DOMAIN Only(s, places) = 1 .. Cardinality(places)
           /\ Cardinality(places) \in Nat
           /\ InOrder(places) \in [1 .. Cardinality(places) -> places]
           /\ Enumerates(InOrder(places), places)
           /\ \A k \in 1 .. Cardinality(places) : Only(s, places)[k] = s[InOrder(places)[k]]
           /\ Only(s, places) = <<>> <=> places = {}
  <1> DEFINE o == Only(s, places)
             c == Cardinality(places)
             h == InOrder(places)
  <1>1. Len(s) \in Nat /\ places \in SUBSET (1 .. Len(s))
    BY ListIs
  <1>2. c \in Nat /\ h \in [1 .. c -> places] /\ Enumerates(h, places)
    BY <1>1, PlacesInOrder
  <1>3. o = [k \in 1 .. c |-> s[h[k]]]
    BY DEF Only
  <1> HIDE DEF h, c, o
  <1>4. DOMAIN o = 1 .. c /\ \A k \in 1 .. c : o[k] = s[h[k]]
    BY <1>3
  <1>5. IsList(o) /\ Len(o) = c
    BY <1>2, <1>3, <1>4, IsAList
  <1>6. o = <<>> <=> places = {}
    <2>1. ASSUME places = {} PROVE o = <<>>
      <3>1. c = 0
        BY <2>1, FS_EmptySet DEF c
      <3> QED BY <1>3, <1>5, <3>1 DEF IsList
    <2>2. ASSUME NEW p \in places PROVE o # <<>>
      <3>1. PICK i \in DOMAIN h : h[i] = p
        BY <1>2 DEF Enumerates
      <3>2. i \in DOMAIN o
        BY <1>2, <1>4, <3>1
      <3> QED BY <3>2
    <2> QED BY <2>1, <2>2
  <1> QED BY <1>2, <1>4, <1>5, <1>6 DEF o, c, h

-----------------------------------------------------------------------------
(***************************************************************************)
(* Endpoints and their ports.                                              *)
(***************************************************************************)
HasPorts(e) == e.ports # <<>> \/ e.port > 0

LEMMA EndpointPortsAre ==
    ASSUME NEW e, IsEndpoint(e)
    PROVE  /\ IsList(EndpointPorts(e))
           /\ \A i \in DOMAIN EndpointPorts(e) : EndpointPorts(e)[i] \in Nat
           /\ HasPorts(e) <=> PortSet(e) # {}
           /\ EndpointPorts(e) = <<>> <=> PortSet(e) = {}
  <1> DEFINE ports == EndpointPorts(e)
  <1>1. e.ports \in Seq(Nat) /\ e.port \in Nat
    BY DEF IsEndpoint
  <1>2. ports \in Seq(Nat) /\ (HasPorts(e) <=> ports # <<>>)
    BY <1>1 DEF EndpointPorts, HasPorts
  <1> HIDE DEF ports
  <1>3. /\ Len(ports) \in Nat /\ DOMAIN ports = 1 .. Len(ports)
        /\ ports = [i \in 1 .. Len(ports) |-> ports[i]]
        /\ \A i \in DOMAIN ports : ports[i] \in Nat
    BY <1>2
  <1>4. IsList(ports)
    BY <1>3, IsAList
  <1>5. ports = <<>> <=> {ports[i] : i \in DOMAIN ports} = {}
    <2>1. ASSUME ports # <<>> PROVE 1 \in DOMAIN ports
      <3>1. Len(ports) # 0
        BY <1>2, <2>1
      <3> QED BY <1>3, <3>1
    <2>2. DOMAIN <<>> = {}
      OBVIOUS
    <2>3. CASE ports = <<>>
      BY <2>2, <2>3
    <2>4. CASE ports # <<>>
      BY <2>1, <2>4
    <2> QED BY <2>3, <2>4
  <1> QED BY <1>2, <1>3, <1>4, <1>5 DEF ports, PortSet

\* Taking a port from an endpoint takes that port and no other.
LEMMA WithoutPortIs ==
    ASSUME NEW e, IsEndpoint(e), NEW port
    PROVE  /\ IsEndpoint(WithoutPort(e, port)) /\ WithoutPort(e, port).host = e.host
           /\ PortSet(WithoutPort(e, port)) = PortSet(e) \ {port}
  <1> DEFINE ports == EndpointPorts(e)
             stay == {i \in DOMAIN ports : ports[i] # port}
             kept == Only(ports, stay)
             w == WithoutPort(e, port)
             h == InOrder(stay)
             c == Cardinality(stay)
  <1>1. IsList(ports) /\ (\A i \in DOMAIN ports : ports[i] \in Nat) /\ stay \in SUBSET DOMAIN ports
    BY EndpointPortsAre
  <1>2. w = [e EXCEPT !.port = FirstOf(kept, 0), !.ports = kept]
    BY DEF WithoutPort
  <1>3. PortSet(e) = {ports[i] : i \in DOMAIN ports}
    BY DEF PortSet
  <1>4. \A i : i \in stay <=> i \in DOMAIN ports /\ ports[i] # port
    OBVIOUS
  <1> HIDE DEF ports, stay
  <1>5. /\ IsList(kept) /\ DOMAIN kept = 1 .. c /\ c \in Nat
        /\ h \in [1 .. c -> stay] /\ Enumerates(h, stay)
        /\ \A k \in 1 .. c : kept[k] = ports[h[k]]
        /\ kept = <<>> <=> stay = {}
    BY <1>1, OnlyIsAList
  <1> HIDE DEF kept, w, h, c
  <1>6. {kept[k] : k \in DOMAIN kept} = {ports[i] : i \in stay}
    <2>1. ASSUME NEW k \in DOMAIN kept PROVE kept[k] \in {ports[i] : i \in stay}
      BY <1>5
    <2>2. ASSUME NEW i \in stay PROVE \E k \in DOMAIN kept : kept[k] = ports[i]
      <3>1. PICK k \in DOMAIN h : h[k] = i
        BY <1>5 DEF Enumerates
      <3> QED BY <1>5, <3>1
    <2> QED BY <2>1, <2>2
  <1>7. {ports[i] : i \in stay} = PortSet(e) \ {port}
    BY <1>3, <1>4
  <1>8. kept \in Seq(Nat)
    <2>1. \A k \in DOMAIN kept : kept[k] \in Nat
      BY <1>1, <1>4, <1>5
    <2>2. Len(kept) \in Nat /\ DOMAIN kept = 1 .. Len(kept) /\ kept = [i \in 1 .. Len(kept) |-> kept[i]]
      BY <1>5, ListIs
    <2>3. kept \in [1 .. Len(kept) -> Nat]
      BY <2>1, <2>2
    <2> QED BY <2>2, <2>3
  <1>9. FirstOf(kept, 0) \in Nat /\ (kept = <<>> => FirstOf(kept, 0) = 0)
    BY <1>8 DEF FirstOf
  <1>10. {"host", "port", "ports"} \subseteq DOMAIN e
    BY DEF IsEndpoint
  <1>11. /\ DOMAIN w = DOMAIN e /\ w.host = e.host
         /\ w.port = FirstOf(kept, 0) /\ w.ports = kept
         /\ \A f \in DOMAIN e \ {"port", "ports"} : w[f] = e[f]
    BY <1>2, <1>10
  <1>15. /\ w.protocol = e.protocol /\ w.fields = e.fields /\ w.tls = e.tls /\ w.enforcement = e.enforcement
         /\ w.access = e.access /\ w.rules = e.rules /\ w.denyRules = e.denyRules /\ w.mcp = e.mcp
    BY <1>11 DEF IsEndpoint
  <1>12. IsEndpoint(w)
    BY <1>8, <1>9, <1>11, <1>15 DEF IsEndpoint
  <1>13. EndpointPorts(w) = kept
    BY <1>9, <1>11 DEF EndpointPorts
  <1>14. PortSet(w) = {kept[k] : k \in DOMAIN kept}
    BY <1>13 DEF PortSet
  <1> QED BY <1>6, <1>7, <1>11, <1>12, <1>14 DEF w

\* The ports that an endpoint keeps when those gone are taken from a host.
Keeps(e, host, gone) == IF LowerCase[e.host] = LowerCase[host] THEN PortSet(e) \ gone ELSE PortSet(e)

\* What the gateway makes of an endpoint when it removes a host and a port.
Taken(e, host, port) ==
    IF LowerCase[e.host] = LowerCase[host] /\ port \in PortSet(e) THEN WithoutPort(e, port) ELSE e

LEMMA TakenIs ==
    ASSUME NEW e, IsEndpoint(e), NEW host, NEW port
    PROVE  /\ IsEndpoint(Taken(e, host, port)) /\ Taken(e, host, port).host = e.host
           /\ PortSet(Taken(e, host, port)) = Keeps(e, host, {port})
  BY WithoutPortIs DEF Taken, Keeps

\* Those that stay: what has lost nothing, and what keeps something.
Stay(endpoints, host, gone) ==
    {j \in DOMAIN endpoints : LET kept == Keeps(endpoints[j], host, gone) IN kept = PortSet(endpoints[j]) \/ kept # {}}

\* A list of endpoints is what is left of another when ports have been taken
\* from a host.
IsLeft(left, endpoints, host, gone) ==
    /\ IsList(left) /\ \A k \in DOMAIN left : IsEndpoint(left[k])
    /\ \E h \in [1 .. Len(left) -> Stay(endpoints, host, gone)] :
          /\ Enumerates(h, Stay(endpoints, host, gone))
          /\ \A k \in 1 .. Len(left) : /\ left[k].host = endpoints[h[k]].host
                                       /\ PortSet(left[k]) = Keeps(endpoints[h[k]], host, gone)

AllTaken(left, host, port) == [i \in DOMAIN left |-> Taken(left[i], host, port)]

\* The endpoints that the gateway leaves when it removes a host and a port.
NotEmptied(left, host, port) ==
    {i \in DOMAIN left : LowerCase[left[i].host] = LowerCase[host] /\ port \in PortSet(left[i])
                            => PortSet(Taken(left[i], host, port)) # {}}

\* One port more is taken, and the endpoints that have lost their last are
\* dropped.
LEMMA OneMoreTaken ==
    ASSUME NEW endpoints, IsList(endpoints), NEW left, NEW host, NEW gone, NEW port,
           IsLeft(left, endpoints, host, gone)
    PROVE  IsLeft(Only(AllTaken(left, host, port), NotEmptied(left, host, port)), endpoints, host, gone \cup {port})
  <1> DEFINE c == Len(left)
             after == AllTaken(left, host, port)
             some == NotEmptied(left, host, port)
             gone2 == gone \cup {port}
             places == Stay(endpoints, host, gone)
             o == Only(after, some)
             g == InOrder(some)
             d == Cardinality(some)
  <1>1. /\ c \in Nat /\ DOMAIN left = 1 .. c
        /\ \A k \in 1 .. c : IsEndpoint(left[k])
    BY ListIs DEF IsLeft
  <1>2. PICK h \in [1 .. c -> places] :
            /\ Enumerates(h, places)
            /\ \A k \in 1 .. c : /\ left[k].host = endpoints[h[k]].host
                                 /\ PortSet(left[k]) = Keeps(endpoints[h[k]], host, gone)
    BY DEF IsLeft
  <1>3. DOMAIN after = 1 .. c /\ \A k \in 1 .. c : after[k] = Taken(left[k], host, port)
    BY <1>1 DEF AllTaken
  <1>4. IsList(after)
    <2>1. after = [i \in 1 .. c |-> after[i]]
      BY <1>1 DEF AllTaken
    <2> HIDE DEF after, c
    <2> QED BY <1>1, <2>1, IsAList
  <1> HIDE DEF after, c, gone2, places
  <1>5. ASSUME NEW k \in 1 .. c
        PROVE  /\ IsEndpoint(after[k]) /\ after[k].host = endpoints[h[k]].host
               /\ PortSet(after[k]) = Keeps(endpoints[h[k]], host, gone2)
    <2>1. /\ IsEndpoint(after[k]) /\ after[k].host = left[k].host
          /\ PortSet(after[k]) = Keeps(left[k], host, {port})
      BY <1>1, <1>3, TakenIs
    <2>2. Keeps(left[k], host, {port}) = Keeps(endpoints[h[k]], host, gone2)
      BY <1>2 DEF Keeps, gone2
    <2> QED BY <1>2, <2>1, <2>2
  <1>6. ASSUME NEW i \in 1 .. c PROVE i \in some <=> h[i] \in Stay(endpoints, host, gone2)
    <2> DEFINE e == endpoints[h[i]]
               kept == Keeps(e, host, gone)
    <2>1. /\ h[i] \in DOMAIN endpoints /\ (kept = PortSet(e) \/ kept # {})
          /\ LowerCase[left[i].host] = LowerCase[host] <=> LowerCase[e.host] = LowerCase[host]
          /\ PortSet(left[i]) = kept /\ PortSet(after[i]) = Keeps(e, host, gone2)
      BY <1>2, <1>5 DEF places, Stay
    <2>2. i \in some <=> (LowerCase[e.host] = LowerCase[host] /\ port \in kept => Keeps(e, host, gone2) # {})
      BY <1>1, <1>3, <2>1 DEF NotEmptied
    <2>3. Keeps(e, host, gone2) = IF LowerCase[e.host] = LowerCase[host] THEN kept \ {port} ELSE kept
      BY DEF Keeps, gone2
    <2>4. kept \subseteq PortSet(e)
      BY DEF Keeps
    <2>5. h[i] \in Stay(endpoints, host, gone2) <=> (Keeps(e, host, gone2) = PortSet(e) \/ Keeps(e, host, gone2) # {})
      BY <2>1 DEF Stay
    <2> HIDE DEF e, kept
    <2> QED BY <2>1, <2>2, <2>3, <2>4, <2>5
  <1>7. some \in SUBSET DOMAIN after /\ some \in SUBSET (1 .. c)
    BY <1>1, <1>3 DEF NotEmptied
  <1> HIDE DEF some
  <1>8. /\ IsList(o) /\ DOMAIN o = 1 .. d /\ d \in Nat
        /\ g \in [1 .. d -> some] /\ Enumerates(g, some)
        /\ \A k \in 1 .. d : o[k] = after[g[k]]
    BY <1>4, <1>7, OnlyIsAList
  <1>9. Len(o) = d
    BY <1>8, ListIs
  <1> HIDE DEF o, g, d
  <1>10. places \subseteq Nat
    <2>1. DOMAIN endpoints = 1 .. Len(endpoints) /\ Len(endpoints) \in Nat
      BY ListIs
    <2> QED BY <2>1 DEF places, Stay
  <1>11. PlacesAt(h, some) = Stay(endpoints, host, gone2)
    <2>1. ASSUME NEW i \in some PROVE h[i] \in Stay(endpoints, host, gone2)
      BY <1>6, <1>7
    <2>2. ASSUME NEW j \in Stay(endpoints, host, gone2) PROVE \E i \in some : h[i] = j
      <3>1. j \in places
        BY DEF Stay, Keeps, gone2, places
      <3>2. PICK i \in DOMAIN h : h[i] = j
        BY <1>2, <3>1 DEF Enumerates
      <3>3. i \in 1 .. c
        BY <1>2
      <3> QED BY <1>6, <3>2, <3>3
    <2> QED BY <2>1, <2>2 DEF PlacesAt
  <1>12. PICK f \in [1 .. d -> Stay(endpoints, host, gone2)] :
            Enumerates(f, Stay(endpoints, host, gone2)) /\ \A k \in 1 .. d : f[k] = h[g[k]]
    <2>1. c \in Nat /\ d \in Nat /\ places \in SUBSET Nat /\ some \in SUBSET (1 .. c)
      BY <1>1, <1>7, <1>8, <1>10
    <2>2. \E f \in [1 .. d -> PlacesAt(h, some)] :
              Enumerates(f, PlacesAt(h, some)) /\ \A k \in 1 .. d : f[k] = h[g[k]]
      BY <1>2, <1>8, <2>1, OrderOfSome
    <2> QED BY <1>11, <2>2
  <1>13. \A k \in 1 .. d : /\ IsEndpoint(o[k]) /\ o[k].host = endpoints[f[k]].host
                           /\ PortSet(o[k]) = Keeps(endpoints[f[k]], host, gone2)
    BY <1>5, <1>7, <1>8, <1>12
  <1>14. IsLeft(o, endpoints, host, gone2)
    BY <1>8, <1>9, <1>12, <1>13 DEF IsLeft
  <1> QED BY <1>14 DEF o, some, after, gone2

-----------------------------------------------------------------------------
(***************************************************************************)
(* The gateway's merge: its operations keep policies what they are.        *)
(***************************************************************************)

\* The operations of a merge are done one after the other.
LEMMA MergedAllIs ==
    ASSUME NEW policy, NEW ops, Len(ops) \in Nat
    PROVE  \E f : /\ f[0] = policy
                  /\ \A i \in 1 .. Len(ops) : f[i] = Merged(f[i - 1], PolicyMergeOperation(ops[i]))
                  /\ MergedAll(policy, ops) = f[Len(ops)]
  <1> DEFINE n == Len(ops)
             Body(f, i) == IF i = 0 THEN policy ELSE Merged(f[i - 1], PolicyMergeOperation(ops[i]))
             Upto(m, g) == \A i \in 0 .. m : g[i] = Body(g, i)
             M == {m \in Nat : \E g : Upto(m, g)}
  <1>1. 0 \in M
    <2>1. Upto(0, [i \in {0} |-> policy])
      OBVIOUS
    <2> QED BY <2>1
  <1>2. ASSUME NEW m \in Nat, m \in M
        PROVE  m + 1 \in M
    <2>1. PICK g : Upto(m, g)
      BY <1>2
    <2> DEFINE h == [i \in 0 .. m + 1 |-> IF i <= m THEN g[i] ELSE Body(g, m + 1)]
    <2>2. ASSUME NEW i \in 0 .. m + 1
          PROVE  h[i] = Body(h, i)
      <3>1. CASE i = m + 1
        <4>1. h[i] = Body(g, m + 1) /\ h[m] = g[m] /\ i # 0 /\ i - 1 = m
          BY <3>1
        <4> HIDE DEF h
        <4> QED BY <3>1, <4>1
      <3>2. CASE i <= m
        <4>1. h[i] = g[i] /\ i \in 0 .. m /\ (i # 0 => h[i - 1] = g[i - 1])
          BY <3>2
        <4>2. g[i] = Body(g, i)
          BY <2>1, <4>1
        <4> HIDE DEF h
        <4> QED BY <4>1, <4>2
      <3> QED BY <3>1, <3>2
    <2>3. Upto(m + 1, h)
      BY <2>2
    <2> HIDE DEF h, Upto
    <2> QED BY <2>3
  <1>3. n \in M
    <2> HIDE DEF M, n
    <2>1. n \in Nat
      BY DEF n
    <2> QED BY <1>1, <1>2, <2>1, Induction
  <1>4. PICK g : Upto(n, g)
    BY <1>3
  <1> DEFINE f == [i \in 0 .. n |-> g[i]]
             done == CHOOSE h : h = [i \in 0 .. n |-> Body(h, i)]
  <1>5. f = [i \in 0 .. n |-> Body(f, i)]
    <2>1. ASSUME NEW i \in 0 .. n
          PROVE  g[i] = Body(f, i)
      <3>1. g[i] = Body(g, i) /\ (i # 0 => i - 1 \in 0 .. n /\ f[i - 1] = g[i - 1])
        BY <1>4
      <3> HIDE DEF f, n
      <3> QED BY <3>1
    <2> HIDE DEF Body
    <2> QED BY <2>1
  <1>6. done = [i \in 0 .. n |-> Body(done, i)]
    <2> HIDE DEF f, Body
    <2> QED BY <1>5
  <1>7. MergedAll(policy, ops) = done[n]
    BY DEF MergedAll
  <1> HIDE DEF done
  <1>8. done[0] = policy /\ \A i \in 1 .. n : done[i] = Merged(done[i - 1], PolicyMergeOperation(ops[i]))
    <2>1. \A i \in 0 .. n : done[i] = Body(done, i)
      BY <1>6
    <2>2. n \in Nat
      OBVIOUS
    <2> HIDE DEF n
    <2> QED BY <2>1, <2>2
  <1> QED BY <1>7, <1>8

LEMMA PolicyIsSomething ==
    ASSUME NEW p, IsPolicy(p)
    PROVE  p # None
  BY DEF IsPolicy, None

\* What of a rule is under a key.
EndpointsOf(policy, key) ==
    IF key \in DOMAIN policy.networkPolicies THEN policy.networkPolicies[key].endpoints ELSE <<>>

LEMMA EndpointsAre ==
    ASSUME NEW p, IsPolicy(p), NEW key
    PROVE  /\ IsList(EndpointsOf(p, key))
           /\ \A i \in DOMAIN EndpointsOf(p, key) : IsEndpoint(EndpointsOf(p, key)[i])
  <1>1. IsList(<<>>) /\ DOMAIN <<>> = {}
    BY DEF IsList
  <1>2. CASE key \in DOMAIN p.networkPolicies
    BY <1>2 DEF IsPolicy, IsRule, EndpointsOf
  <1>3. CASE key \notin DOMAIN p.networkPolicies
    BY <1>1, <1>3 DEF EndpointsOf
  <1> QED BY <1>2, <1>3

LEMMA WithRuleIs ==
    ASSUME NEW p, IsPolicy(p), NEW key, NEW rule, IsRule(rule)
    PROVE  /\ IsPolicy(WithRule(p, key, rule)) /\ EndpointsOf(WithRule(p, key, rule), key) = rule.endpoints
           /\ key \in DOMAIN WithRule(p, key, rule).networkPolicies
  <1> DEFINE q == WithRule(p, key, rule)
             rules == [k \in DOMAIN p.networkPolicies \union {key} |-> IF k = key THEN rule ELSE p.networkPolicies[k]]
  <1>1. /\ DOMAIN q = DOMAIN p /\ q.networkPolicies = rules
        /\ q.filesystem = p.filesystem /\ q.landlock = p.landlock /\ q.process = p.process
        /\ q.networkMiddlewares = p.networkMiddlewares
    BY DEF IsPolicy, WithRule
  <1>2. /\ DOMAIN rules = DOMAIN p.networkPolicies \union {key} /\ rules[key] = rule
        /\ \A k \in DOMAIN p.networkPolicies : k # key => rules[k] = p.networkPolicies[k]
        /\ IsMap(rules)
    BY DEF IsMap
  <1> HIDE DEF q, rules
  <1>3. \A k \in DOMAIN rules : IsRule(rules[k])
    BY <1>2 DEF IsPolicy
  <1> QED BY <1>1, <1>2, <1>3 DEF IsPolicy, EndpointsOf, q

LEMMA WithoutRuleIs ==
    ASSUME NEW p, IsPolicy(p), NEW key
    PROVE  /\ IsPolicy(WithoutRule(p, key)) /\ EndpointsOf(WithoutRule(p, key), key) = <<>>
           /\ key \notin DOMAIN WithoutRule(p, key).networkPolicies
  <1> DEFINE q == WithoutRule(p, key)
             rules == [k \in DOMAIN p.networkPolicies \ {key} |-> p.networkPolicies[k]]
  <1>1. /\ DOMAIN q = DOMAIN p /\ q.networkPolicies = rules
        /\ q.filesystem = p.filesystem /\ q.landlock = p.landlock /\ q.process = p.process
        /\ q.networkMiddlewares = p.networkMiddlewares
    BY DEF IsPolicy, WithoutRule
  <1>2. /\ DOMAIN rules = DOMAIN p.networkPolicies \ {key}
        /\ \A k \in DOMAIN rules : rules[k] = p.networkPolicies[k]
        /\ IsMap(rules)
    BY DEF IsMap
  <1> HIDE DEF q, rules
  <1>3. \A k \in DOMAIN rules : IsRule(rules[k])
    BY <1>2 DEF IsPolicy
  <1> QED BY <1>1, <1>2, <1>3 DEF IsPolicy, EndpointsOf, q

\* A rule with other endpoints is a rule.
LEMMA RuleWith ==
    ASSUME NEW rule, IsRule(rule), NEW endpoints, IsList(endpoints),
           \A i \in DOMAIN endpoints : IsEndpoint(endpoints[i])
    PROVE  /\ IsRule([rule EXCEPT !.endpoints = endpoints])
           /\ [rule EXCEPT !.endpoints = endpoints].endpoints = endpoints
  BY DEF IsRule

\* There is a rule under a key just when there are endpoints under it.
GoneWhenEmpty(policy, key) == key \in DOMAIN policy.networkPolicies <=> EndpointsOf(policy, key) # <<>>

\* A removal takes a port from every endpoint of its host, and drops those
\* that it took their last from; with the last of them it drops the rule.
LEMMA RemovedIs ==
    ASSUME NEW p, IsPolicy(p), NEW op
    PROVE  LET left == EndpointsOf(p, op.ruleName) IN
           /\ IsPolicy(RemoveEndpoint(p, op))
           /\ EndpointsOf(RemoveEndpoint(p, op), op.ruleName)
                 = Only(AllTaken(left, op.host, op.port), NotEmptied(left, op.host, op.port))
           /\ GoneWhenEmpty(p, op.ruleName) => GoneWhenEmpty(RemoveEndpoint(p, op), op.ruleName)
  <1> DEFINE key == op.ruleName
             rule == p.networkPolicies[key]
             eps == EndpointsOf(p, key)
             after == AllTaken(eps, op.host, op.port)
             some == NotEmptied(eps, op.host, op.port)
             left == Only(after, some)
  <1>1. IsList(eps) /\ \A i \in DOMAIN eps : IsEndpoint(eps[i])
    BY EndpointsAre
  <1>2. IsList(after) /\ DOMAIN after = DOMAIN eps /\ \A i \in DOMAIN after : IsEndpoint(after[i])
    <2>1. Len(eps) \in Nat /\ DOMAIN eps = 1 .. Len(eps)
      BY <1>1, ListIs
    <2>2. DOMAIN after = DOMAIN eps /\ \A i \in DOMAIN eps : after[i] = Taken(eps[i], op.host, op.port)
      BY DEF AllTaken
    <2>3. after = [i \in 1 .. Len(eps) |-> after[i]]
      BY <2>1 DEF AllTaken
    <2> HIDE DEF after, eps
    <2>4. ASSUME NEW i \in DOMAIN after PROVE IsEndpoint(after[i])
      <3>1. IsEndpoint(eps[i]) /\ after[i] = Taken(eps[i], op.host, op.port)
        BY <1>1, <2>2
      <3>2. IsEndpoint(Taken(eps[i], op.host, op.port))
        BY <3>1, TakenIs
      <3> QED BY <3>1, <3>2
    <2>5. IsList(after)
      BY <2>1, <2>3, IsAList
    <2> QED BY <2>2, <2>4, <2>5
  <1>3. some \in SUBSET DOMAIN after
    BY <1>2 DEF NotEmptied
  <1> HIDE DEF some, after, eps
  <1>4. /\ IsList(left) /\ \A i \in DOMAIN left : IsEndpoint(left[i])
        /\ left = <<>> <=> some = {}
    <2>1. /\ IsList(left) /\ DOMAIN left = 1 .. Cardinality(some)
          /\ InOrder(some) \in [1 .. Cardinality(some) -> some]
          /\ \A k \in 1 .. Cardinality(some) : left[k] = after[InOrder(some)[k]]
          /\ left = <<>> <=> some = {}
      BY <1>2, <1>3, OnlyIsAList
    <2> HIDE DEF left
    <2> QED BY <1>2, <1>3, <2>1
  <1>5. CASE key \notin DOMAIN p.networkPolicies
    <2>1. RemoveEndpoint(p, op) = p
      BY <1>5 DEF RemoveEndpoint
    <2>2. eps = <<>>
      BY <1>5 DEF EndpointsOf, eps
    <2>3. some = {}
      BY <1>2, <1>3, <2>2
    <2> QED BY <1>4, <2>1, <2>2, <2>3 DEF eps, after, some
  <1>6. CASE key \in DOMAIN p.networkPolicies
    <2>1. IsRule(rule) /\ eps = rule.endpoints
      BY <1>6 DEF IsPolicy, EndpointsOf, eps
    <2>2. RemoveEndpoint(p, op) = IF left = <<>> /\ eps # <<>> THEN WithoutRule(p, key)
                                  ELSE WithRule(p, key, [rule EXCEPT !.endpoints = left])
      <3> DEFINE Hit(e) == LowerCase[e.host] = LowerCase[op.host] /\ op.port \in PortSet(e)
                 taken == [i \in DOMAIN eps |-> IF Hit(eps[i]) THEN WithoutPort(eps[i], op.port) ELSE eps[i]]
                 stay == {i \in DOMAIN taken : Hit(eps[i]) => PortSet(taken[i]) # {}}
      <3>1. taken = after
        BY DEF after, AllTaken, Taken
      <3>2. stay = some
        <4>1. DOMAIN taken = DOMAIN eps /\ \A i \in DOMAIN eps : taken[i] = Taken(eps[i], op.host, op.port)
          BY DEF Taken
        <4> HIDE DEF taken
        <4> QED BY <4>1 DEF some, NotEmptied
      <3>3. RemoveEndpoint(p, op) = IF Only(taken, stay) = <<>> /\ eps # <<>> THEN WithoutRule(p, key)
                                    ELSE WithRule(p, key, [rule EXCEPT !.endpoints = Only(taken, stay)])
        BY <1>6, <2>1 DEF RemoveEndpoint
      <3> HIDE DEF taken, stay
      <3> QED BY <3>1, <3>2, <3>3
    <2> HIDE DEF left
    <2>3. CASE left = <<>> /\ eps # <<>>
      BY <2>2, <2>3, WithoutRuleIs DEF left, some, after, eps, GoneWhenEmpty
    <2>4. CASE ~(left = <<>> /\ eps # <<>>)
      <3> DEFINE new == [rule EXCEPT !.endpoints = left]
      <3>1. IsRule(new) /\ new.endpoints = left
        BY <1>4, <2>1, RuleWith
      <3>2. RemoveEndpoint(p, op) = WithRule(p, key, new)
        BY <2>2, <2>4
      <3> HIDE DEF new
      <3>3. /\ IsPolicy(RemoveEndpoint(p, op)) /\ EndpointsOf(RemoveEndpoint(p, op), key) = left
            /\ key \in DOMAIN RemoveEndpoint(p, op).networkPolicies
        BY <3>1, <3>2, WithRuleIs
      <3>4. GoneWhenEmpty(p, key) => GoneWhenEmpty(RemoveEndpoint(p, op), key)
        BY <1>6, <2>4, <3>3 DEF GoneWhenEmpty, eps
      <3> QED BY <3>3, <3>4 DEF left, some, after, eps
    <2> QED BY <2>3, <2>4
  <1> QED BY <1>5, <1>6

\* The conversions between the gateway's message and the browser's leave an
\* endpoint its host and its ports.
LEMMA CarriedMatcher ==
    ASSUME NEW m, IsMatcher(m)
    PROVE  L7Rule(m) = m /\ L7DenyRule(m) = m
  <1>1. m.fields \intersect CarriedInMatch = m.fields
    BY DEF IsMatcher, CarriedInMatch
  <1>2. L7QueryMap(m.params) = m.params
    BY DEF IsMatcher, IsMap, L7QueryMap
  <1>3. m = [method |-> m.method, path |-> m.path, fields |-> m.fields, params |-> m.params]
    BY DEF IsMatcher, IsMap
  <1> QED BY <1>1, <1>2, <1>3 DEF L7Rule, L7DenyRule

LEMMA CarriedMatchers ==
    ASSUME NEW s, AreMatchers(s)
    PROVE  SeqMap(L7Rule, s) = s /\ SeqMap(L7DenyRule, s) = s
  <1>1. \A i \in DOMAIN s : L7Rule(s[i]) = s[i] /\ L7DenyRule(s[i]) = s[i]
    <2>1. ASSUME NEW i \in DOMAIN s PROVE L7Rule(s[i]) = s[i] /\ L7DenyRule(s[i]) = s[i]
      BY CarriedMatcher DEF AreMatchers
    <2> QED BY <2>1
  <1>2. s = [i \in DOMAIN s |-> s[i]]
    BY ListIs DEF AreMatchers
  <1>3. SeqMap(L7Rule, s) = [i \in DOMAIN s |-> L7Rule(s[i])] /\ SeqMap(L7DenyRule, s) = [i \in DOMAIN s |-> L7DenyRule(s[i])]
    BY DEF SeqMap
  <1> QED BY <1>1, <1>2, <1>3

LEMMA CarriedOptions ==
    ASSUME NEW mcp, IsOptional(mcp), mcp.set => IsList(mcp.value.versions)
    PROVE  /\ IsOptional(McpOptions(mcp)) /\ McpOptions(mcp).set = mcp.set
           /\ mcp.set => /\ McpOptions(mcp).value.options = mcp.value.options
                         /\ McpOptions(mcp).value.versions = mcp.value.versions
  <1>1. CASE mcp = Absent
    <2>1. ~mcp.set /\ McpOptions(mcp) = Absent
      BY <1>1 DEF McpOptions, Absent
    <2> QED BY <1>1, <2>1 DEF IsOptional
  <1>2. CASE mcp = Present(mcp.value)
    <2> DEFINE o == [options |-> mcp.value.options, versions |-> mcp.value.versions]
    <2>1. mcp.set = TRUE
      BY <1>2 DEF Present
    <2>2. McpOptions(mcp) = Present(o)
      BY <2>1 DEF McpOptions
    <2>3. o.options = mcp.value.options /\ o.versions = mcp.value.versions
      OBVIOUS
    <2> HIDE DEF o
    <2>4. Present(o).set = TRUE /\ Present(o).value = o
      BY DEF Present
    <2>5. IsOptional(Present(o))
      BY <2>4 DEF IsOptional
    <2> QED BY <2>1, <2>2, <2>3, <2>4, <2>5
  <1> QED BY <1>1, <1>2 DEF IsOptional

LEMMA CarriedEndpoint ==
    ASSUME NEW e, IsEndpoint(e)
    PROVE  /\ IsEndpoint(PolicyNetworkEndpoint(e)) /\ PolicyNetworkEndpoint(e).host = e.host
           /\ EndpointPorts(PolicyNetworkEndpoint(e)) = EndpointPorts(e)
           /\ PortSet(PolicyNetworkEndpoint(e)) = PortSet(e)
  <1> DEFINE w == PolicyNetworkEndpoint(e)
  <1>1. SeqMap(L7Rule, e.rules) = e.rules /\ SeqMap(L7DenyRule, e.denyRules) = e.denyRules
    BY CarriedMatchers DEF IsEndpoint
  <1>2. e.fields \intersect CarriedFields = e.fields
    BY DEF IsEndpoint, CarriedFields
  <1>3. /\ DOMAIN w = {"host", "path", "protocol", "fields", "port", "ports", "tls", "enforcement", "access", "rules",
                       "denyRules", "maxBodyBytes", "mcp", "marks"}
        /\ w.host = e.host /\ w.protocol = e.protocol /\ w.fields = e.fields
        /\ w.port = e.port /\ w.ports = e.ports /\ w.tls = e.tls /\ w.enforcement = e.enforcement /\ w.access = e.access
        /\ w.rules = e.rules /\ w.denyRules = e.denyRules /\ w.mcp = McpOptions(e.mcp)
    BY <1>1, <1>2 DEF PolicyNetworkEndpoint
  <1> HIDE DEF w
  <1>4. IsOptional(w.mcp) /\ (w.mcp.set => IsList(w.mcp.value.versions))
    BY <1>3, CarriedOptions DEF IsEndpoint
  <1>5. IsEndpoint(w) /\ EndpointPorts(w) = EndpointPorts(e)
    BY <1>3, <1>4 DEF IsEndpoint, EndpointPorts
  <1>6. PortSet(w) = PortSet(e)
    BY <1>5 DEF PortSet
  <1> QED BY <1>3, <1>5, <1>6 DEF w

LEMMA CarriedRule ==
    ASSUME NEW r, IsRule(r)
    PROVE  /\ IsRule(NetworkPolicyRule(r))
           /\ DOMAIN NetworkPolicyRule(r).endpoints = DOMAIN r.endpoints
           /\ \A i \in DOMAIN r.endpoints :
                 NetworkPolicyRule(r).endpoints[i] = PolicyNetworkEndpoint(r.endpoints[i])
  <1> DEFINE w == NetworkPolicyRule(r)
             eps == r.endpoints
  <1>1. IsList(eps) /\ \A i \in DOMAIN eps : IsEndpoint(eps[i])
    BY DEF IsRule
  <1>2. DOMAIN w = {"name", "endpoints", "binaries"} /\ w.endpoints = [i \in DOMAIN eps |-> PolicyNetworkEndpoint(eps[i])]
    BY DEF NetworkPolicyRule, SeqMap
  <1>3. Len(eps) \in Nat /\ DOMAIN eps = 1 .. Len(eps)
    BY <1>1, ListIs
  <1> HIDE DEF w, eps
  <1>4. DOMAIN w.endpoints = DOMAIN eps /\ \A i \in DOMAIN eps : w.endpoints[i] = PolicyNetworkEndpoint(eps[i])
    BY <1>2
  <1>5. IsList(w.endpoints)
    <2>1. w.endpoints = [i \in 1 .. Len(eps) |-> w.endpoints[i]]
      BY <1>2, <1>3
    <2> QED BY <1>3, <2>1, IsAList
  <1>6. ASSUME NEW i \in DOMAIN eps PROVE IsEndpoint(w.endpoints[i])
    BY <1>1, <1>4, CarriedEndpoint
  <1>7. IsRule(w)
    BY <1>2, <1>4, <1>5, <1>6 DEF IsRule
  <1> QED BY <1>4, <1>7 DEF w, eps

LEMMA CarriedPolicy ==
    ASSUME NEW p, IsPolicy(p)
    PROVE  /\ IsPolicy(SandboxPolicy(p))
           /\ DOMAIN SandboxPolicy(p).networkPolicies = DOMAIN p.networkPolicies
           /\ \A key \in DOMAIN p.networkPolicies :
                 SandboxPolicy(p).networkPolicies[key] = NetworkPolicyRule(p.networkPolicies[key])
  <1> DEFINE w == SandboxPolicy(p)
             rules == p.networkPolicies
  <1>1. \A key \in DOMAIN rules : IsRule(rules[key])
    BY DEF IsPolicy
  <1>2. /\ DOMAIN w = {"version", "filesystem", "landlock", "process", "unknown", "networkPolicies", "networkMiddlewares"}
        /\ w.networkPolicies = [key \in DOMAIN rules |-> NetworkPolicyRule(rules[key])]
        /\ w.networkMiddlewares = [key \in DOMAIN p.networkMiddlewares |-> MiddlewareConfig(p.networkMiddlewares[key])]
        /\ w.filesystem = Section(p.filesystem) /\ w.landlock = Section(p.landlock) /\ w.process = Section(p.process)
    BY DEF SandboxPolicy
  <1> HIDE DEF w, rules
  <1>3. /\ DOMAIN w.networkPolicies = DOMAIN rules /\ IsMap(w.networkPolicies)
        /\ \A key \in DOMAIN rules : w.networkPolicies[key] = NetworkPolicyRule(rules[key])
    BY <1>2 DEF IsMap
  <1>6. w.filesystem = p.filesystem /\ w.landlock = p.landlock /\ w.process = p.process
    BY <1>2 DEF IsPolicy, IsOptional, Section, Present, Absent
  <1>7. /\ DOMAIN w.networkMiddlewares = DOMAIN p.networkMiddlewares /\ IsMap(w.networkMiddlewares)
        /\ \A key \in DOMAIN p.networkMiddlewares : w.networkMiddlewares[key] = MiddlewareConfig(p.networkMiddlewares[key])
    BY <1>2 DEF IsMap
  <1>8. \A key \in DOMAIN p.networkMiddlewares : IsMiddleware(MiddlewareConfig(p.networkMiddlewares[key]))
    BY DEF MiddlewareConfig, IsMiddleware
  <1>4. ASSUME NEW key \in DOMAIN rules PROVE IsRule(w.networkPolicies[key])
    BY <1>1, <1>3, CarriedRule
  <1>5. IsPolicy(w)
    BY <1>2, <1>3, <1>4, <1>6, <1>7, <1>8 DEF IsPolicy
  <1> QED BY <1>3, <1>5 DEF w, rules

\* One list after the other.
Members(s) == {s[i] : i \in DOMAIN s}

LEMMA BothLists ==
    ASSUME NEW s, NEW t, IsList(s), IsList(t)
    PROVE  IsList(s \o t) /\ \A i \in DOMAIN (s \o t) : (s \o t)[i] \in Members(s) \union Members(t)
  <1> DEFINE T == Members(s) \union Members(t)
             u == s \o t
  <1>1. s \in Seq(T) /\ t \in Seq(T)
    <2>1. /\ Len(s) \in Nat /\ DOMAIN s = 1 .. Len(s) /\ s = [i \in 1 .. Len(s) |-> s[i]]
          /\ Len(t) \in Nat /\ DOMAIN t = 1 .. Len(t) /\ t = [i \in 1 .. Len(t) |-> t[i]]
      BY ListIs
    <2>2. (\A i \in 1 .. Len(s) : s[i] \in T) /\ (\A i \in 1 .. Len(t) : t[i] \in T)
      BY <2>1 DEF Members
    <2> HIDE DEF T
    <2>3. s \in [1 .. Len(s) -> T] /\ t \in [1 .. Len(t) -> T]
      BY <2>1, <2>2
    <2> QED BY <2>1, <2>3
  <1> HIDE DEF T
  <1>2. u \in Seq(T)
    BY <1>1
  <1> HIDE DEF u
  <1>3. Len(u) \in Nat /\ u = [i \in 1 .. Len(u) |-> u[i]] /\ \A i \in DOMAIN u : u[i] \in T
    BY <1>2
  <1>4. IsList(u)
    BY <1>3, IsAList
  <1> QED BY <1>3, <1>4 DEF u, T

LEMMA MoreMatchers ==
    ASSUME NEW s, AreMatchers(s), NEW t, AreMatchers(t)
    PROVE  AreMatchers(s \o t)
  <1>1. IsList(s \o t) /\ \A i \in DOMAIN (s \o t) : (s \o t)[i] \in Members(s) \union Members(t)
    BY BothLists DEF AreMatchers
  <1>2. \A m \in Members(s) \union Members(t) : IsMatcher(m)
    BY DEF AreMatchers, Members
  <1> QED BY <1>1, <1>2 DEF AreMatchers

LEMMA AddedIs ==
    ASSUME NEW p, IsPolicy(p), NEW op, IsRule(op.rule)
    PROVE  IsPolicy(AddRule(p, op))
  <1> DEFINE key == op.ruleName
             rule == p.networkPolicies[key]
             both == rule.endpoints \o op.rule.endpoints
  <1>1. CASE key \notin DOMAIN p.networkPolicies
    BY <1>1, WithRuleIs DEF AddRule
  <1>2. CASE key \in DOMAIN p.networkPolicies
    <2>1. IsRule(rule)
      BY <1>2 DEF IsPolicy
    <2>2. IsList(both) /\ \A i \in DOMAIN both : IsEndpoint(both[i])
      <3>1. IsList(both) /\ \A i \in DOMAIN both : both[i] \in Members(rule.endpoints) \union Members(op.rule.endpoints)
        BY <2>1, BothLists DEF IsRule
      <3>2. \A e \in Members(rule.endpoints) \union Members(op.rule.endpoints) : IsEndpoint(e)
        BY <2>1 DEF Members, IsRule
      <3> QED BY <3>1, <3>2
    <2>3. AddRule(p, op) = WithRule(p, key, [rule EXCEPT !.endpoints = both])
      BY <1>2 DEF AddRule
    <2> HIDE DEF both, rule
    <2> DEFINE new == [rule EXCEPT !.endpoints = both]
    <2>4. IsRule(new)
      BY <2>1, <2>2, RuleWith
    <2> HIDE DEF new
    <2> QED BY <2>3, <2>4, WithRuleIs DEF new
  <1> QED BY <1>1, <1>2

LEMMA AppendedIs ==
    ASSUME NEW p, IsPolicy(p), NEW target, MayAppend(p, target),
           NEW allow, AreMatchers(allow), NEW deny, AreMatchers(deny)
    PROVE  IsPolicy(Appended(p, target, allow, deny))
  <1> DEFINE key == target.ruleName
             rule == p.networkPolicies[key]
             i == CHOOSE n \in Selected(rule, target) : TRUE
             eps == rule.endpoints
             e == eps[i]
             appended == [e EXCEPT !.rules = @ \o allow, !.denyRules = @ \o deny]
             new == [rule EXCEPT !.endpoints[i] = appended]
  <1>1. key \in DOMAIN p.networkPolicies /\ IsRule(rule)
    BY DEF MayAppend, IsPolicy
  <1>2. i \in DOMAIN eps
    <2>1. Selected(rule, target) # {}
      <3>1. Cardinality(Selected(rule, target)) = 1
        BY DEF MayAppend
      <3>2. Cardinality({}) = 0
        BY FS_EmptySet
      <3> QED BY <3>1, <3>2
    <2>2. Selected(rule, target) \subseteq DOMAIN eps
      BY DEF Selected
    <2> HIDE DEF rule
    <2> QED BY <2>1, <2>2
  <1>3. Appended(p, target, allow, deny) = WithRule(p, key, new)
    BY DEF Appended
  <1> HIDE DEF i, rule
  <1>4. IsList(eps) /\ (\A k \in DOMAIN eps : IsEndpoint(eps[k])) /\ "endpoints" \in DOMAIN rule
    BY <1>1 DEF IsRule
  <1>5. IsEndpoint(appended)
    <2>1. IsEndpoint(e)
      BY <1>2, <1>4
    <2> HIDE DEF e
    <2>2. /\ DOMAIN appended = DOMAIN e /\ appended.rules = e.rules \o allow /\ appended.denyRules = e.denyRules \o deny
          /\ \A f \in DOMAIN e \ {"rules", "denyRules"} : appended[f] = e[f]
      BY <2>1 DEF IsEndpoint
    <2>3. /\ appended.protocol = e.protocol /\ appended.fields = e.fields /\ appended.tls = e.tls
          /\ appended.port = e.port /\ appended.ports = e.ports
          /\ appended.enforcement = e.enforcement /\ appended.access = e.access /\ appended.mcp = e.mcp
      BY <2>1, <2>2 DEF IsEndpoint
    <2> HIDE DEF appended
    <2>4. AreMatchers(e.rules \o allow) /\ AreMatchers(e.denyRules \o deny)
      BY <2>1, MoreMatchers DEF IsEndpoint
    <2> QED BY <2>1, <2>2, <2>3, <2>4 DEF IsEndpoint
  <1> HIDE DEF appended
  <1>6. /\ DOMAIN new = DOMAIN rule /\ new.endpoints = [eps EXCEPT ![i] = appended]
        /\ DOMAIN new.endpoints = DOMAIN eps
        /\ \A k \in DOMAIN eps : new.endpoints[k] = IF k = i THEN appended ELSE eps[k]
    BY <1>2, <1>4
  <1> HIDE DEF new
  <1>7. IsList(new.endpoints)
    <2>1. Len(eps) \in Nat /\ DOMAIN eps = 1 .. Len(eps)
      BY <1>4, ListIs
    <2>2. new.endpoints = [k \in 1 .. Len(eps) |-> new.endpoints[k]]
      BY <1>6, <2>1
    <2> HIDE DEF eps
    <2> QED BY <2>1, <2>2, IsAList
  <1>8. \A k \in DOMAIN eps : IsEndpoint(new.endpoints[k])
    BY <1>4, <1>5, <1>6
  <1>9. IsRule(new)
    BY <1>1, <1>6, <1>7, <1>8 DEF IsRule
  <1> QED BY <1>1, <1>3, <1>9, WithRuleIs

Kinds == {"addRule", "removeRule", "removeEndpoint", "addAllowRules", "addDenyRules"}

IsOperation(op) ==
    /\ op.kind \in Kinds
    /\ op.kind = "addRule" => IsRule(op.rule)
    /\ op.kind = "addAllowRules" => AreMatchers(op.rules)
    /\ op.kind = "addDenyRules" => AreMatchers(op.denyRules)

\* What an operation makes of a policy is a policy, if it is not refused.
LEMMA MergedIs ==
    ASSUME NEW p, p = None \/ IsPolicy(p), NEW op, IsOperation(op)
    PROVE  Merged(p, PolicyMergeOperation(op)) = None \/ IsPolicy(Merged(p, PolicyMergeOperation(op)))
  <1> DEFINE o == PolicyMergeOperation(op)
  <1>1. CASE p = None
    BY <1>1 DEF Merged
  <1> SUFFICES ASSUME IsPolicy(p), p # None PROVE Merged(p, o) = None \/ IsPolicy(Merged(p, o))
    BY <1>1
  <1>2. CASE op.kind = "addRule"
    <2>1. o.kind = "addRule" /\ o.rule = NetworkPolicyRule(op.rule)
      BY <1>2 DEF PolicyMergeOperation
    <2> HIDE DEF o
    <2>2. Merged(p, o) = AddRule(p, o)
      BY <2>1 DEF Merged
    <2>3. IsRule(o.rule)
      BY <1>2, <2>1, CarriedRule DEF IsOperation
    <2> QED BY <2>2, <2>3, AddedIs
  <1>3. CASE op.kind = "removeRule"
    <2>1. o.kind = "removeRule"
      BY <1>3 DEF PolicyMergeOperation
    <2> HIDE DEF o
    <2>2. Merged(p, o) = None \/ Merged(p, o) = WithoutRule(p, o.ruleName)
      BY <2>1 DEF Merged
    <2> QED BY <2>2, WithoutRuleIs
  <1>4. CASE op.kind = "removeEndpoint"
    <2>1. o.kind = "removeEndpoint"
      BY <1>4 DEF PolicyMergeOperation
    <2> HIDE DEF o
    <2>2. Merged(p, o) = RemoveEndpoint(p, o)
      BY <2>1 DEF Merged
    <2> QED BY <2>2, RemovedIs
  <1>5. CASE op.kind = "addAllowRules"
    <2>1. o.kind = "addAllowRules" /\ o.rules = SeqMap(L7Rule, op.rules)
      BY <1>5 DEF PolicyMergeOperation
    <2> HIDE DEF o
    <2>2. Merged(p, o) = IF MayAppend(p, o.target) THEN Appended(p, o.target, o.rules, <<>>) ELSE None
      BY <2>1 DEF Merged
    <2>3. AreMatchers(o.rules)
      BY <1>5, <2>1, CarriedMatchers DEF IsOperation
    <2>4. AreMatchers(<<>>)
      BY DEF AreMatchers, IsList
    <2> QED BY <2>2, <2>3, <2>4, AppendedIs
  <1>6. CASE op.kind = "addDenyRules"
    <2>1. o.kind = "addDenyRules" /\ o.denyRules = SeqMap(L7DenyRule, op.denyRules)
      BY <1>6 DEF PolicyMergeOperation
    <2> HIDE DEF o
    <2>2. Merged(p, o) = IF MayAppend(p, o.target) THEN Appended(p, o.target, <<>>, o.denyRules) ELSE None
      BY <2>1 DEF Merged
    <2>3. AreMatchers(o.denyRules)
      BY <1>6, <2>1, CarriedMatchers DEF IsOperation
    <2>4. AreMatchers(<<>>)
      BY DEF AreMatchers, IsList
    <2> QED BY <2>2, <2>3, <2>4, AppendedIs
  <1> QED BY <1>2, <1>3, <1>4, <1>5, <1>6 DEF Kinds, IsOperation

LEMMA AllMergedIs ==
    ASSUME NEW p, IsPolicy(p), NEW ops, Len(ops) \in Nat,
           \A i \in 1 .. Len(ops) : IsOperation(ops[i])
    PROVE  MergedAll(p, ops) = None \/ IsPolicy(MergedAll(p, ops))
  <1>1. PICK f : /\ f[0] = p
                 /\ \A i \in 1 .. Len(ops) : f[i] = Merged(f[i - 1], PolicyMergeOperation(ops[i]))
                 /\ MergedAll(p, ops) = f[Len(ops)]
    BY MergedAllIs
  <1> DEFINE M == {m \in Nat : m <= Len(ops) => f[m] = None \/ IsPolicy(f[m])}
  <1>2. 0 \in M
    BY <1>1
  <1>3. ASSUME NEW m \in Nat, m \in M PROVE m + 1 \in M
    <2> SUFFICES ASSUME m + 1 <= Len(ops) PROVE f[m + 1] = None \/ IsPolicy(f[m + 1])
      OBVIOUS
    <2>1. f[m] = None \/ IsPolicy(f[m])
      BY <1>3
    <2>2. m + 1 \in 1 .. Len(ops) /\ f[m + 1] = Merged(f[m], PolicyMergeOperation(ops[m + 1]))
      BY <1>1
    <2> HIDE DEF M
    <2> QED BY <2>1, <2>2, MergedIs
  <1>4. Len(ops) \in M
    <2> HIDE DEF M
    <2> QED BY <1>2, <1>3, Induction
  <1> QED BY <1>1, <1>4

-----------------------------------------------------------------------------
(***************************************************************************)
(* A removal of an endpoint, as it is asked about and as it is done.       *)
(***************************************************************************)
PortsTo(e, m) == {EndpointPorts(e)[i] : i \in 1 .. m}

\* With all the ports of an endpoint taken from a rule's host, the rule's
\* endpoints have the ports that the question said they keep, and the rule is
\* gone when none of them is left.
LEMMA RemovalLeaves ==
    ASSUME NEW p, IsPolicy(p), NEW key \in DOMAIN p.networkPolicies, NEW rule,
           rule = MarshalSDKPolicy(p).networkPolicies[key],
           NEW j \in DOMAIN rule.endpoints, EndpointPorts(rule.endpoints[j]) # <<>>,
           NEW ops, ops = RemoveEndpointOperations(key, rule.endpoints[j])
    PROVE  LET e == rule.endpoints[j] IN
           /\ IsLeft(EndpointsOf(MergedAll(p, ops), key), rule.endpoints, e.host, PortSet(e))
           /\ GoneWhenEmpty(MergedAll(p, ops), key)
  <1> DEFINE eps == rule.endpoints
             e == eps[j]
             host == e.host
             ports == EndpointPorts(e)
             n == Len(ports)
             raw == p.networkPolicies[key].endpoints
  <1>1. /\ IsList(raw) /\ \A i \in DOMAIN raw : IsEndpoint(raw[i])
        /\ IsList(eps) /\ \A i \in DOMAIN eps : IsEndpoint(eps[i])
        /\ DOMAIN eps = DOMAIN raw
        /\ \A i \in DOMAIN raw : eps[i] = PolicyNetworkEndpoint(raw[i])
    <2>1. IsRule(p.networkPolicies[key])
      BY DEF IsPolicy
    <2>2. rule = NetworkPolicyRule(p.networkPolicies[key])
      BY CarriedPolicy DEF MarshalSDKPolicy
    <2>3. IsRule(rule)
      BY <2>1, <2>2, CarriedRule
    <2>4. DOMAIN eps = DOMAIN raw /\ \A i \in DOMAIN raw : eps[i] = PolicyNetworkEndpoint(raw[i])
      BY <2>1, <2>2, CarriedRule
    <2> QED BY <2>1, <2>3, <2>4 DEF IsRule
  <1>2. IsEndpoint(e)
    BY <1>1
  <1>3. /\ n \in Nat /\ n > 0 /\ DOMAIN ports = 1 .. n /\ PortSet(e) = PortsTo(e, n)
    <2>1. IsList(ports) /\ (ports = <<>> <=> PortSet(e) = {})
      BY <1>2, EndpointPortsAre
    <2>2. n \in Nat /\ DOMAIN ports = 1 .. n
      BY <2>1, ListIs
    <2>3. PortSet(e) = PortsTo(e, n)
      BY <2>2 DEF PortSet, PortsTo
    <2>4. n > 0
      <3>1. PortSet(e) # {}
        BY <2>1
      <3>2. PICK q : q \in PortSet(e)
        BY <3>1
      <3>3. \E i \in 1 .. n : TRUE
        BY <2>3, <3>2 DEF PortsTo
      <3> QED BY <2>2, <3>3
    <2> QED BY <2>2, <2>3, <2>4
  <1>4. /\ DOMAIN ops = 1 .. n /\ Len(ops) = n
        /\ \A i \in 1 .. n : ops[i] = [kind |-> "removeEndpoint", ruleName |-> key, host |-> host, port |-> ports[i]]
    <2>1. ops = [i \in 1 .. n |-> [kind |-> "removeEndpoint", ruleName |-> key, host |-> host, port |-> ports[i]]]
      BY <1>3 DEF RemoveEndpointOperations
    <2> HIDE DEF host, ports, n
    <2>2. DOMAIN ops = 1 .. n
      BY <2>1
    <2>3. ops = [i \in 1 .. n |-> ops[i]]
      BY <2>1
    <2>4. Len(ops) = n
      BY <1>3, <2>3, IsAList
    <2> QED BY <2>1, <2>2, <2>4
  <1>5. PICK f : /\ f[0] = p
                 /\ \A i \in 1 .. n : f[i] = Merged(f[i - 1], PolicyMergeOperation(ops[i]))
                 /\ MergedAll(p, ops) = f[n]
    <2>1. Len(ops) \in Nat
      BY <1>3, <1>4
    <2> HIDE DEF n
    <2> QED BY <1>4, <2>1, MergedAllIs
  <1> HIDE DEF eps, host, ports, n, raw
  <1> DEFINE Holds(m) == /\ IsPolicy(f[m])
                         /\ IsLeft(EndpointsOf(f[m], key), eps, host, PortsTo(e, m))
                         /\ GoneWhenEmpty(f[m], key)
             M == {m \in Nat : m <= n => Holds(m)}
  <1>6. 0 \in M
    <2> DEFINE all == DOMAIN eps
               h == [k \in all |-> k]
    <2>1. EndpointsOf(p, key) = raw
      BY DEF EndpointsOf, raw
    <2>2. all = 1 .. Len(raw) /\ Len(raw) \in Nat /\ DOMAIN raw = all
      BY <1>1, ListIs
    <2>3. PortsTo(e, 0) = {}
      BY DEF PortsTo
    <2>4. Stay(eps, host, {}) = all
      BY DEF Stay, Keeps
    <2>5. h \in [1 .. Len(raw) -> all] /\ Enumerates(h, all) /\ \A k \in 1 .. Len(raw) : h[k] = k
      <3> HIDE DEF all
      <3>1. \A k \in all : h[k] = k
        OBVIOUS
      <3>2. DOMAIN h = all
        OBVIOUS
      <3>3. h \in [all -> all]
        OBVIOUS
      <3> HIDE DEF h
      <3> QED BY <2>2, <3>1, <3>2, <3>3 DEF Enumerates
    <2>6. ASSUME NEW k \in 1 .. Len(raw)
          PROVE  raw[k].host = eps[k].host /\ PortSet(raw[k]) = Keeps(eps[k], host, {})
      <3>1. IsEndpoint(raw[k]) /\ eps[k] = PolicyNetworkEndpoint(raw[k])
        BY <1>1, <2>2
      <3>2. eps[k].host = raw[k].host /\ PortSet(eps[k]) = PortSet(raw[k])
        BY <3>1, CarriedEndpoint
      <3> QED BY <3>2 DEF Keeps
    <2>7. IsLeft(raw, eps, host, {})
      <3> HIDE DEF all, h
      <3>1. \A k \in 1 .. Len(raw) : raw[k].host = eps[h[k]].host /\ PortSet(raw[k]) = Keeps(eps[h[k]], host, {})
        BY <2>5, <2>6
      <3> QED BY <1>1, <2>2, <2>4, <2>5, <3>1 DEF IsLeft
    <2>8. Holds(0)
      <3> HIDE DEF h, all
      <3>1. IsPolicy(f[0])
        BY <1>5
      <3>2. IsLeft(EndpointsOf(f[0], key), eps, host, PortsTo(e, 0))
        BY <1>5, <2>1, <2>3, <2>7
      <3>3. GoneWhenEmpty(f[0], key)
        <4>1. j \in DOMAIN raw
          BY <1>1 DEF eps
        <4>2. raw # <<>>
          BY <4>1
        <4> QED BY <1>5, <2>1, <4>2 DEF GoneWhenEmpty
      <3> QED BY <3>1, <3>2, <3>3
    <2> HIDE DEF Holds
    <2> QED BY <2>8
  <1>7. ASSUME NEW m \in Nat, m \in M PROVE m + 1 \in M
    <2> SUFFICES ASSUME m + 1 <= n PROVE Holds(m + 1)
      OBVIOUS
    <2>1. Holds(m)
      BY <1>3, <1>7
    <2>2. IsLeft(EndpointsOf(f[m], key), eps, host, PortsTo(e, m)) /\ GoneWhenEmpty(f[m], key)
      BY <2>1
    <2> DEFINE op == PolicyMergeOperation(ops[m + 1])
               port == ports[m + 1]
               left == EndpointsOf(f[m], key)
               taken == Only(AllTaken(left, host, port), NotEmptied(left, host, port))
    <2>3. m + 1 \in 1 .. n /\ f[m + 1] = Merged(f[m], op)
      BY <1>3, <1>5
    <2>4. op.kind = "removeEndpoint" /\ op.ruleName = key /\ op.host = host /\ op.port = port
      <3>1. ops[m + 1] = [kind |-> "removeEndpoint", ruleName |-> key, host |-> host, port |-> port]
        BY <1>4, <2>3
      <3> HIDE DEF port
      <3> QED BY <3>1 DEF PolicyMergeOperation
    <2>5. IsPolicy(f[m]) /\ f[m] # None
      BY <2>1, PolicyIsSomething
    <2> HIDE DEF op, port, Holds, M
    <2>6. f[m + 1] = RemoveEndpoint(f[m], op)
      BY <2>3, <2>4, <2>5 DEF Merged
    <2>7. IsPolicy(f[m + 1]) /\ EndpointsOf(f[m + 1], key) = taken /\ GoneWhenEmpty(f[m + 1], key)
      BY <2>2, <2>4, <2>5, <2>6, RemovedIs
    <2>8. PortsTo(e, m + 1) = PortsTo(e, m) \cup {port}
      <3>1. 1 .. m + 1 = 1 .. m \cup {m + 1}
        OBVIOUS
      <3> QED BY <3>1 DEF PortsTo, port, ports
    <2>9. IsLeft(EndpointsOf(f[m + 1], key), eps, host, PortsTo(e, m + 1))
      BY <1>1, <2>2, <2>7, <2>8, OneMoreTaken
    <2> QED BY <2>7, <2>9 DEF Holds
  <1>8. n \in M
    <2> HIDE DEF M
    <2> QED BY <1>3, <1>6, <1>7, Induction
  <1>9. IsLeft(EndpointsOf(f[n], key), eps, host, PortsTo(e, n)) /\ GoneWhenEmpty(f[n], key)
    BY <1>3, <1>8
  <1> QED BY <1>3, <1>5, <1>9 DEF eps, host

\* Two lists of as many members that agree on each.
LEMMA SameMembers ==
    ASSUME NEW s, NEW t, NEW n, s = [i \in 1 .. n |-> s[i]], t = [i \in 1 .. n |-> t[i]],
           \A i \in 1 .. n : s[i] = t[i]
    PROVE  s = t
  OBVIOUS

PortsOf(endpoints) == SeqMap(PortSet, endpoints)

\* So the endpoints that are left, with their ports, are those of the question
\* that stay, in their order, and none is left when the question said that the
\* rule goes.
LEMMA RemovalIsTheEffect ==
    ASSUME NEW rule, IsRule(rule), NEW j \in DOMAIN rule.endpoints, EndpointPorts(rule.endpoints[j]) # <<>>, NEW left,
           IsLeft(left, rule.endpoints, rule.endpoints[j].host, PortSet(rule.endpoints[j])),
           NEW effect, effect = EndpointRemovalEffect(rule, rule.endpoints[j])
    PROVE  /\ PortsOf(left) = Only(effect.remainingPorts, effect.kept)
           /\ effect.removesRule <=> left = <<>>
  <1> DEFINE eps == rule.endpoints
             e == eps[j]
             removed == [i \in DOMAIN eps |-> IF LowerCase[eps[i].host] = LowerCase[e.host]
                                              THEN PortSet(eps[i]) \intersect PortSet(e) ELSE {}]
             keeps == [i \in DOMAIN eps |-> PortSet(eps[i]) \ removed[i]]
             some == {i \in DOMAIN eps : removed[i] = {} \/ keeps[i] # {}}
             c == Len(left)
             d == Cardinality(some)
             g == InOrder(some)
             o == Only(keeps, some)
             mapped == SeqMap(PortSet, left)
  <1>1. IsList(eps) /\ Len(eps) \in Nat /\ DOMAIN eps = 1 .. Len(eps) /\ IsEndpoint(e)
    BY ListIs DEF IsRule
  <1>2. DOMAIN keeps = DOMAIN eps /\ \A i \in DOMAIN eps : keeps[i] = Keeps(eps[i], e.host, PortSet(e))
    BY DEF Keeps
  <1>3. IsList(keeps)
    <2>1. keeps = [i \in 1 .. Len(eps) |-> keeps[i]]
      BY <1>1
    <2> HIDE DEF eps, keeps
    <2> QED BY <1>1, <2>1, IsAList
  <1>4. some = Stay(eps, e.host, PortSet(e))
    <2>1. ASSUME NEW i \in DOMAIN eps PROVE removed[i] = {} <=> keeps[i] = PortSet(eps[i])
      OBVIOUS
    <2> HIDE DEF removed, keeps
    <2> QED BY <1>2, <2>1 DEF Stay
  <1>15. effect.remainingPorts = keeps /\ effect.kept = some
         /\ (effect.removesRule <=> some = {} /\ \E i \in DOMAIN eps : removed[i] # {})
    BY DEF EndpointRemovalEffect, Effect
  <1>16. removed[j] # {}
    <2>1. PortSet(e) # {}
      BY <1>1, EndpointPortsAre
    <2> QED BY <2>1
  <1>5. some \in SUBSET DOMAIN keeps /\ some \subseteq Nat
    BY <1>1, <1>2
  <1> HIDE DEF removed, keeps
  <1>6. c \in Nat /\ DOMAIN left = 1 .. c
    BY ListIs DEF IsLeft
  <1>7. mapped = [k \in 1 .. c |-> PortSet(left[k])]
    BY <1>6 DEF SeqMap
  <1> HIDE DEF some, mapped, c, eps, e
  <1>8. /\ d \in Nat /\ g \in [1 .. d -> some] /\ Enumerates(g, some) /\ DOMAIN o = 1 .. d
        /\ \A k \in 1 .. d : o[k] = keeps[g[k]]
        /\ IsList(o) /\ (o = <<>> <=> some = {})
    BY <1>3, <1>5, OnlyIsAList
  <1>9. PICK h \in [1 .. c -> some] :
            Enumerates(h, some) /\ \A k \in 1 .. c : PortSet(left[k]) = Keeps(eps[h[k]], e.host, PortSet(e))
    BY <1>4 DEF IsLeft, c, eps, e
  <1> HIDE DEF d, g, o
  <1>10. c = d /\ \A k \in 1 .. c : h[k] = g[k]
    BY <1>5, <1>6, <1>8, <1>9, OneOrder
  <1>11. ASSUME NEW k \in 1 .. d PROVE mapped[k] = o[k]
    <2>1. mapped[k] = Keeps(eps[h[k]], e.host, PortSet(e))
      BY <1>7, <1>9, <1>10
    <2>2. h[k] = g[k] /\ g[k] \in DOMAIN eps
      BY <1>2, <1>5, <1>8, <1>10
    <2>3. o[k] = Keeps(eps[g[k]], e.host, PortSet(e))
      BY <1>2, <1>8, <2>2
    <2> QED BY <2>1, <2>2, <2>3
  <1>12. mapped = [k \in 1 .. d |-> mapped[k]]
    BY <1>7, <1>10
  <1>13. o = [k \in 1 .. d |-> o[k]]
    <2>1. o = [k \in 1 .. Len(o) |-> o[k]] /\ DOMAIN o = 1 .. Len(o)
      BY <1>8, ListIs
    <2> QED BY <1>8, <2>1
  <1>14. mapped = o
    BY <1>11, <1>12, <1>13, SameMembers
  <1>17. left = <<>> <=> some = {}
    <2>1. left = <<>> <=> c = 0
      BY <1>6 DEF IsLeft, IsList, c
    <2>2. o = <<>> <=> d = 0
      BY <1>8, ListIs DEF IsList
    <2> QED BY <1>8, <1>10, <2>1, <2>2
  <1>18. effect.removesRule <=> some = {}
    <2>1. j \in DOMAIN eps
      BY DEF eps
    <2> QED BY <1>15, <1>16, <2>1
  <1> QED BY <1>14, <1>15, <1>17, <1>18 DEF mapped, o, PortsOf

-----------------------------------------------------------------------------
(***************************************************************************)
(* A policy that is written to a file and read back: what of it is the     *)
(* same, piece by piece.                                                   *)
(***************************************************************************)

\* Names.
LEMMA NamesBack ==
    ASSUME NEW names, NEW set, set \subseteq ToApi(names, DOMAIN names)
    PROVE  ToApi(names, ToFile(names, set)) = set
  BY DEF ToApi, ToFile

\* Modes that have a name.
LEMMA ModeBack ==
    ASSUME NEW mode, IsList(mode), \A i, j \in DOMAIN mode : mode[i] = mode[j] => i = j,
           \A i \in DOMAIN mode : mode[i] # "unknown",
           NEW number \in Nat, WriteMode(mode, number) # "unknown"
    PROVE  NumberOf(mode, WriteMode(mode, number)) = number
  <1>1. Len(mode) \in Nat /\ DOMAIN mode = 1 .. Len(mode)
    BY ListIs
  <1>2. number + 1 \in DOMAIN mode /\ WriteMode(mode, number) = mode[number + 1]
    BY DEF WriteMode
  <1>3. number \in 0 .. (Len(mode) - 1)
    BY <1>1, <1>2
  <1>4. \A n \in 0 .. (Len(mode) - 1) : mode[n + 1] = mode[number + 1] => n = number
    <2>1. ASSUME NEW n \in 0 .. (Len(mode) - 1), mode[n + 1] = mode[number + 1] PROVE n = number
      <3>1. n + 1 \in DOMAIN mode
        BY <1>1
      <3>2. n + 1 = number + 1
        BY <1>2, <2>1, <3>1
      <3> QED BY <3>2
    <2> QED BY <2>1
  <1>5. NumberOf(mode, WriteMode(mode, number)) = CHOOSE n \in 0 .. (Len(mode) - 1) : mode[n + 1] = mode[number + 1]
    BY <1>2 DEF NumberOf
  <1> QED BY <1>3, <1>4, <1>5

LEMMA ModesAre ==
    /\ IsList(TlsMode) /\ \A i \in DOMAIN TlsMode : TlsMode[i] # "unknown"
    /\ \A i, j \in DOMAIN TlsMode : TlsMode[i] = TlsMode[j] => i = j
    /\ IsList(EnforcementMode) /\ \A i \in DOMAIN EnforcementMode : EnforcementMode[i] # "unknown"
    /\ \A i, j \in DOMAIN EnforcementMode : EnforcementMode[i] = EnforcementMode[j] => i = j
    /\ IsList(AccessPreset) /\ \A i \in DOMAIN AccessPreset : AccessPreset[i] # "unknown"
    /\ \A i, j \in DOMAIN AccessPreset : AccessPreset[i] = AccessPreset[j] => i = j
  <1>1. /\ DOMAIN TlsMode = 1 .. 4 /\ TlsMode[1] = "" /\ TlsMode[2] = "skip" /\ TlsMode[3] = "terminate"
        /\ TlsMode[4] = "passthrough" /\ TlsMode = [i \in 1 .. 4 |-> TlsMode[i]]
    BY DEF TlsMode
  <1>2. /\ DOMAIN EnforcementMode = 1 .. 3 /\ EnforcementMode[1] = "" /\ EnforcementMode[2] = "enforce"
        /\ EnforcementMode[3] = "audit" /\ EnforcementMode = [i \in 1 .. 3 |-> EnforcementMode[i]]
    BY DEF EnforcementMode
  <1>3. /\ DOMAIN AccessPreset = 1 .. 4 /\ AccessPreset[1] = "" /\ AccessPreset[2] = "read-only"
        /\ AccessPreset[3] = "read-write" /\ AccessPreset[4] = "full" /\ AccessPreset = [i \in 1 .. 4 |-> AccessPreset[i]]
    BY DEF AccessPreset
  <1>4. IsList(TlsMode) /\ IsList(EnforcementMode) /\ IsList(AccessPreset)
    BY <1>1, <1>2, <1>3, IsAList
  <1>5. 1 .. 4 = {1, 2, 3, 4} /\ 1 .. 3 = {1, 2, 3}
    OBVIOUS
  <1>6. /\ \A i \in DOMAIN TlsMode : TlsMode[i] # "unknown"
        /\ \A i, j \in DOMAIN TlsMode : TlsMode[i] = TlsMode[j] => i = j
    BY <1>1, <1>5
  <1>7. /\ \A i \in DOMAIN EnforcementMode : EnforcementMode[i] # "unknown"
        /\ \A i, j \in DOMAIN EnforcementMode : EnforcementMode[i] = EnforcementMode[j] => i = j
    BY <1>2, <1>5
  <1>8. /\ \A i \in DOMAIN AccessPreset : AccessPreset[i] # "unknown"
        /\ \A i, j \in DOMAIN AccessPreset : AccessPreset[i] = AccessPreset[j] => i = j
    BY <1>3, <1>5
  <1> QED BY <1>4, <1>6, <1>7, <1>8

\* The known revisions among those that are given.
LEMMA CanonicalNames ==
    ASSUME NEW versions, IsList(versions)
    PROVE  /\ IsList(CanonicalMcpVersions(versions))
           /\ Members(CanonicalMcpVersions(versions)) = Members(versions) \intersect Names(McpVersions)
  <1> DEFINE places == {i \in DOMAIN McpVersions : \E j \in DOMAIN versions : versions[j] = McpVersions[i]}
             o == Only(McpVersions, places)
             h == InOrder(places)
             c == Cardinality(places)
  <1>1. CanonicalMcpVersions(versions) = o
    BY DEF CanonicalMcpVersions
  <1>2. DOMAIN McpVersions = 1 .. 3 /\ McpVersions = [i \in 1 .. 3 |-> McpVersions[i]]
    BY DEF McpVersions
  <1>3. IsList(McpVersions)
    BY <1>2, IsAList
  <1>4. places \in SUBSET DOMAIN McpVersions
    OBVIOUS
  <1>5. Members(versions) \intersect Names(McpVersions) = {McpVersions[i] : i \in places}
    BY DEF Members, Names
  <1> HIDE DEF places
  <1>6. /\ IsList(o) /\ DOMAIN o = 1 .. c /\ h \in [1 .. c -> places] /\ Enumerates(h, places)
        /\ \A k \in 1 .. c : o[k] = McpVersions[h[k]]
    BY <1>3, <1>4, OnlyIsAList
  <1> HIDE DEF o, h, c
  <1>7. Members(o) = {McpVersions[i] : i \in places}
    <2>1. ASSUME NEW k \in DOMAIN o PROVE o[k] \in {McpVersions[i] : i \in places}
      BY <1>6
    <2>2. ASSUME NEW i \in places PROVE \E k \in DOMAIN o : o[k] = McpVersions[i]
      <3>1. PICK k \in DOMAIN h : h[k] = i
        BY <1>6 DEF Enumerates
      <3> QED BY <1>6, <3>1
    <2> QED BY <2>1, <2>2 DEF Members
  <1> QED BY <1>1, <1>5, <1>6, <1>7

-----------------------------------------------------------------------------
\* The dotted keys of parameters.
Flattens(g, path) == g[0] = <<>> /\ \A i \in 1 .. Len(path) : g[i] = g[i - 1] \o path[i]

LEMMA FlattenIs ==
    ASSUME NEW path, NEW n \in Nat, Len(path) = n, NEW g, Flattens(g, path)
    PROVE  FlattenKey(path) = g[n]
  <1> DEFINE Body(f, i) == IF i = 0 THEN <<>> ELSE f[i - 1] \o path[i]
             h == [i \in 0 .. n |-> g[i]]
             f == CHOOSE f : f = [i \in 0 .. n |-> Body(f, i)]
  <1>8. g[0] = <<>> /\ \A i \in 1 .. n : g[i] = g[i - 1] \o path[i]
    BY DEF Flattens
  <1>1. h = [i \in 0 .. n |-> Body(h, i)]
    <2>1. ASSUME NEW i \in 0 .. n PROVE g[i] = Body(h, i)
      <3>1. CASE i = 0
        BY <1>8, <3>1
      <3>2. CASE i # 0
        <4>1. i \in 1 .. n /\ i - 1 \in 0 .. n
          BY <3>2
        <4>2. h[i - 1] = g[i - 1]
          BY <4>1
        <4> HIDE DEF h
        <4> QED BY <1>8, <3>2, <4>1, <4>2
      <3> QED BY <3>1, <3>2
    <2> HIDE DEF Body
    <2> QED BY <2>1
  <1>2. f = [i \in 0 .. n |-> Body(f, i)]
    <2> HIDE DEF h, Body
    <2> QED BY <1>1
  <1>3. FlattenKey(path) = f[n]
    BY DEF FlattenKey
  <1> HIDE DEF f
  <1>4. \A i \in 0 .. n : f[i] = Body(f, i)
    <2> HIDE DEF Body
    <2> QED BY <1>2
  <1> DEFINE M == {m \in Nat : m <= n => f[m] = g[m]}
  <1>5. 0 \in M
    BY <1>4, <1>8
  <1>6. ASSUME NEW m \in Nat, m \in M PROVE m + 1 \in M
    <2> SUFFICES ASSUME m + 1 <= n PROVE f[m + 1] = g[m + 1]
      OBVIOUS
    <2> DEFINE j == m + 1
    <2>1. j \in 1 .. n /\ j \in 0 .. n /\ j # 0 /\ j - 1 = m /\ f[m] = g[m]
      BY <1>6
    <2> HIDE DEF j, M
    <2>2. f[j] = f[m] \o path[j]
      BY <1>4, <2>1
    <2>3. g[j] = g[m] \o path[j]
      BY <1>8, <2>1
    <2> QED BY <2>1, <2>2, <2>3 DEF j
  <1>7. n \in M
    <2> HIDE DEF M
    <2> QED BY <1>5, <1>6, Induction
  <1> QED BY <1>3, <1>7

StepsOf(k) == [i \in DOMAIN k |-> <<k[i]>>]

LEMMA FlattenOne ==
    ASSUME NEW k, IsList(k)
    PROVE  FlattenKey(<<k>>) = k
  <1> DEFINE g == [i \in 0 .. 1 |-> IF i = 0 THEN <<>> ELSE k]
             path == <<k>>
  <1>1. k \in Seq({k[i] : i \in DOMAIN k})
    BY DEF IsList
  <1>2. <<>> \o k = k
    BY <1>1
  <1>3. Len(path) = 1 /\ path[1] = k
    OBVIOUS
  <1>4. g[0] = <<>> /\ g[1] = k
    OBVIOUS
  <1> HIDE DEF g, path
  <1>5. Flattens(g, path)
    <2>1. ASSUME NEW i \in 1 .. 1 PROVE g[i] = g[i - 1] \o path[i]
      <3>1. i = 1 /\ i - 1 = 0
        OBVIOUS
      <3> QED BY <1>2, <1>3, <1>4, <3>1
    <2> QED BY <1>3, <1>4, <2>1 DEF Flattens
  <1>6. FlattenKey(path) = g[1]
    BY <1>3, <1>5, FlattenIs
  <1> QED BY <1>4, <1>6 DEF path

LEMMA FlattenSteps ==
    ASSUME NEW k, IsList(k)
    PROVE  FlattenKey(StepsOf(k)) = k
  <1> DEFINE n == Len(k)
             path == StepsOf(k)
             T == {k[i] : i \in DOMAIN k}
             g == [i \in 0 .. n |-> SubSeq(k, 1, i)]
  <1>1. n \in Nat /\ DOMAIN k = 1 .. n /\ k \in Seq(T)
    BY ListIs DEF IsList
  <1>2. path = [i \in 1 .. n |-> <<k[i]>>]
    BY <1>1 DEF StepsOf
  <1> HIDE DEF path, T, n
  <1>3. Len(path) = n /\ \A i \in 1 .. n : path[i] = <<k[i]>>
    <2>1. path = [i \in 1 .. n |-> path[i]]
      BY <1>2
    <2> QED BY <1>1, <1>2, <2>1, IsAList
  <1>4. g[0] = <<>> /\ g[n] = k
    BY <1>1 DEF n
  <1>5. ASSUME NEW i \in 1 .. n PROVE g[i] = g[i - 1] \o path[i]
    <2>1. i \in 0 .. n /\ i - 1 \in 0 .. n
      BY <1>1
    <2>2. SubSeq(k, 1, i) = SubSeq(k, 1, i - 1) \o <<k[i]>>
      BY <1>1 DEF n
    <2> QED BY <1>3, <2>1, <2>2
  <1> HIDE DEF g
  <1>7. Flattens(g, path)
    BY <1>3, <1>4, <1>5 DEF Flattens
  <1>6. FlattenKey(path) = g[n]
    BY <1>1, <1>3, <1>7, FlattenIs
  <1> QED BY <1>4, <1>6 DEF path

-----------------------------------------------------------------------------
\* Parameters, as they are nested and flattened again.
IsParams(params) == IsMap(params) /\ \A k \in DOMAIN params : IsList(k) /\ k # <<>>

\* A document says the parameters, each of them once.
Says(doc, params) ==
    /\ \A p \in DOMAIN doc : doc[p] = params[FlattenKey(p)]
    /\ {FlattenKey(p) : p \in DOMAIN doc} = DOMAIN params
    /\ \A p, q \in DOMAIN doc : FlattenKey(p) = FlattenKey(q) => p = q

LEMMA FlattenedIs ==
    ASSUME NEW doc, NEW params, Says(doc, params), IsMap(params)
    PROVE  FlattenParams(doc) = params
  <1> DEFINE Is(k, p) == FlattenKey(p) = k /\ \A q \in DOMAIN doc \ {p} : FlattenKey(q) = k => SortsLater(p, q)
             keys == {FlattenKey(p) : p \in DOMAIN doc}
  <1>1. FlattenParams(doc) = [k \in keys |-> doc[CHOOSE p \in DOMAIN doc : Is(k, p)]]
    BY DEF FlattenParams
  <1>2. keys = DOMAIN params
    BY DEF Says
  <1>3. ASSUME NEW k \in keys PROVE doc[CHOOSE p \in DOMAIN doc : Is(k, p)] = params[k]
    <2> DEFINE chosen == CHOOSE p \in DOMAIN doc : Is(k, p)
    <2>1. PICK p \in DOMAIN doc : FlattenKey(p) = k
      OBVIOUS
    <2>2. Is(k, p)
      BY <2>1 DEF Says
    <2>3. chosen \in DOMAIN doc /\ Is(k, chosen)
      <3> HIDE DEF Is
      <3> QED BY <2>2
    <2> HIDE DEF chosen
    <2>4. doc[chosen] = params[k]
      BY <2>3 DEF Says
    <2> QED BY <2>4 DEF chosen
  <1> HIDE DEF Is, keys
  <1>4. params = [k \in DOMAIN params |-> params[k]]
    BY DEF IsMap
  <1> QED BY <1>1, <1>2, <1>3, <1>4

LEMMA FlatSays ==
    ASSUME NEW params, IsParams(params)
    PROVE  Says(FlatParams(params), params)
  <1> DEFINE doc == FlatParams(params)
  <1>1. \A k \in DOMAIN params : FlattenKey(<<k>>) = k /\ <<k>>[1] = k
    BY FlattenOne DEF IsParams
  <1>2. DOMAIN doc = {<<k>> : k \in DOMAIN params} /\ \A p \in DOMAIN doc : doc[p] = params[p[1]]
    BY DEF FlatParams
  <1> HIDE DEF doc
  <1>3. \A p \in DOMAIN doc : \E k \in DOMAIN params : p = <<k>>
    BY <1>2
  <1>4. \A k \in DOMAIN params : <<k>> \in DOMAIN doc
    BY <1>2
  <1>5. \A p \in DOMAIN doc : FlattenKey(p) \in DOMAIN params /\ p = <<FlattenKey(p)>> /\ doc[p] = params[FlattenKey(p)]
    <2>1. ASSUME NEW p \in DOMAIN doc
          PROVE  FlattenKey(p) \in DOMAIN params /\ p = <<FlattenKey(p)>> /\ doc[p] = params[FlattenKey(p)]
      <3>1. PICK k \in DOMAIN params : p = <<k>>
        BY <1>3
      <3>2. FlattenKey(p) = k /\ p[1] = k
        BY <1>1, <3>1
      <3> QED BY <1>2, <3>1, <3>2
    <2> QED BY <2>1
  <1>6. {FlattenKey(p) : p \in DOMAIN doc} = DOMAIN params
    <2>1. ASSUME NEW k \in DOMAIN params PROVE \E p \in DOMAIN doc : FlattenKey(p) = k
      <3>1. <<k>> \in DOMAIN doc /\ FlattenKey(<<k>>) = k
        BY <1>1, <1>4
      <3> QED BY <3>1
    <2> QED BY <1>5, <2>1
  <1>7. \A p, q \in DOMAIN doc : FlattenKey(p) = FlattenKey(q) => p = q
    <2>1. ASSUME NEW p \in DOMAIN doc, NEW q \in DOMAIN doc, FlattenKey(p) = FlattenKey(q) PROVE p = q
      <3>1. p = <<FlattenKey(p)>> /\ q = <<FlattenKey(q)>>
        BY <1>5
      <3> QED BY <2>1, <3>1
    <2> QED BY <2>1
  <1>8. Says(doc, params)
    BY <1>5, <1>6, <1>7 DEF Says
  <1> QED BY <1>8 DEF doc

LEMMA NestSays ==
    ASSUME NEW params, IsParams(params)
    PROVE  Says(NestParams(params), params)
  <1>1. CASE \E p, q \in DOMAIN params : IsProperPrefix(p, q)
    <2>1. NestParams(params) = FlatParams(params)
      BY <1>1 DEF NestParams, FlatParams
    <2> QED BY <2>1, FlatSays
  <1>2. CASE ~\E p, q \in DOMAIN params : IsProperPrefix(p, q)
    <2> DEFINE doc == NestParams(params)
    <2>1. \A k \in DOMAIN params : FlattenKey(StepsOf(k)) = k
      BY FlattenSteps DEF IsParams
    <2>2. doc = [p \in {StepsOf(k) : k \in DOMAIN params} |-> params[FlattenKey(p)]]
      BY <1>2 DEF NestParams, StepsOf
    <2> HIDE DEF doc
    <2>3. DOMAIN doc = {StepsOf(k) : k \in DOMAIN params} /\ \A p \in DOMAIN doc : doc[p] = params[FlattenKey(p)]
      BY <2>2
    <2>4. \A p \in DOMAIN doc : FlattenKey(p) \in DOMAIN params /\ p = StepsOf(FlattenKey(p))
      <3>1. ASSUME NEW p \in DOMAIN doc PROVE FlattenKey(p) \in DOMAIN params /\ p = StepsOf(FlattenKey(p))
        <4>1. PICK k \in DOMAIN params : p = StepsOf(k)
          BY <2>3
        <4> QED BY <2>1, <4>1
      <3> QED BY <3>1
    <2>5. \A k \in DOMAIN params : StepsOf(k) \in DOMAIN doc
      BY <2>3
    <2>6. {FlattenKey(p) : p \in DOMAIN doc} = DOMAIN params
      BY <2>1, <2>4, <2>5
    <2>7. \A p, q \in DOMAIN doc : FlattenKey(p) = FlattenKey(q) => p = q
      <3>1. ASSUME NEW p \in DOMAIN doc, NEW q \in DOMAIN doc, FlattenKey(p) = FlattenKey(q) PROVE p = q
        <4>1. p = StepsOf(FlattenKey(p)) /\ q = StepsOf(FlattenKey(q))
          BY <2>4
        <4> QED BY <3>1, <4>1
      <3> QED BY <3>1
    <2>8. Says(doc, params)
      BY <2>3, <2>6, <2>7 DEF Says
    <2> QED BY <2>8 DEF doc
  <1> QED BY <1>1, <1>2

\* A tool is read as the parameter it was written for, unless one is nested
\* below its name.
ToolKey == <<"name">>
ToolPath == <<ToolKey>>

LEMMA OthersAre ==
    ASSUME NEW m, IsMatcher(m)
    PROVE  /\ IsParams(OtherParams(m.params)) /\ DOMAIN OtherParams(m.params) = DOMAIN m.params \ {ToolKey}
           /\ \A k \in DOMAIN OtherParams(m.params) : OtherParams(m.params)[k] = m.params[k]
  BY DEF OtherParams, IsMap, IsMatcher, IsParams, ToolKey

LEMMA NoOtherTool ==
    ASSUME NEW m, IsMatcher(m), ToolKey \in DOMAIN m.params, ~NestsBelowName(m)
    PROVE  \A p \in DOMAIN NestParams(OtherParams(m.params)) : p[1] # ToolKey
  <1> DEFINE others == OtherParams(m.params)
  <1>1. /\ DOMAIN others = DOMAIN m.params \ {ToolKey} /\ IsMap(others)
        /\ \A k \in DOMAIN others : IsList(k) /\ k # <<>>
    BY OthersAre DEF IsParams, IsMap
  <1>2. \A k \in DOMAIN others : k[1] # "name"
    BY <1>1 DEF NestsBelowName, ToolKey
  <1> HIDE DEF others
  <1>3. CASE \E p, q \in DOMAIN others : IsProperPrefix(p, q)
    <2>1. DOMAIN NestParams(others) = {<<k>> : k \in DOMAIN others}
      BY <1>3 DEF NestParams
    <2>2. \A k \in DOMAIN others : <<k>>[1] = k /\ k # ToolKey
      BY <1>1
    <2>3. \A p \in DOMAIN NestParams(others) : p[1] # ToolKey
      BY <2>1, <2>2
    <2> QED BY <2>3 DEF others
  <1>4. CASE ~\E p, q \in DOMAIN others : IsProperPrefix(p, q)
    <2>1. DOMAIN NestParams(others) = {StepsOf(k) : k \in DOMAIN others}
      BY <1>4 DEF NestParams, StepsOf
    <2>2. ASSUME NEW k \in DOMAIN others PROVE StepsOf(k)[1] # ToolKey
      <3>1. Len(k) \in Nat /\ DOMAIN k = 1 .. Len(k) /\ k \in Seq({k[i] : i \in DOMAIN k})
        BY <1>1, ListIs DEF IsList
      <3>2. 1 \in DOMAIN k
        BY <1>1, <3>1
      <3>3. StepsOf(k)[1] = <<k[1]>>
        BY <3>2 DEF StepsOf
      <3>4. <<k[1]>>[1] # ToolKey[1]
        BY <1>2 DEF ToolKey
      <3> QED BY <3>3, <3>4
    <2>3. \A p \in DOMAIN NestParams(others) : p[1] # ToolKey
      BY <2>1, <2>2
    <2> QED BY <2>3 DEF others
  <1> QED BY <1>3, <1>4

LEMMA ToolSays ==
    ASSUME NEW m, IsMatcher(m), ToolKey \in DOMAIN m.params,
           NEW doc, Says(doc, OtherParams(m.params)),
           NEW all, all = [p \in DOMAIN doc \union {ToolPath} |-> IF p = ToolPath THEN m.params[ToolKey] ELSE doc[p]]
    PROVE  Says(all, m.params)
  <1> DEFINE others == OtherParams(m.params)
  <1>1. DOMAIN others = DOMAIN m.params \ {ToolKey} /\ \A k \in DOMAIN others : others[k] = m.params[k]
    BY OthersAre
  <1>2. FlattenKey(ToolPath) = ToolKey
    BY FlattenOne DEF IsMatcher, ToolPath
  <1> HIDE DEF others
  <1>3. /\ \A p \in DOMAIN doc : doc[p] = others[FlattenKey(p)] /\ FlattenKey(p) \in DOMAIN others
        /\ \A k \in DOMAIN others : \E p \in DOMAIN doc : FlattenKey(p) = k
        /\ \A p, q \in DOMAIN doc : FlattenKey(p) = FlattenKey(q) => p = q
    BY DEF Says, others
  <1>4. ToolPath \notin DOMAIN doc
    BY <1>1, <1>2, <1>3
  <1>5. DOMAIN all = DOMAIN doc \union {ToolPath} /\ all[ToolPath] = m.params[ToolKey] /\ \A p \in DOMAIN doc : all[p] = doc[p]
    BY <1>4
  <1>6. \A p \in DOMAIN all : all[p] = m.params[FlattenKey(p)]
    BY <1>1, <1>2, <1>3, <1>5
  <1>7. {FlattenKey(p) : p \in DOMAIN all} = DOMAIN m.params
    <2>1. ASSUME NEW p \in DOMAIN all PROVE FlattenKey(p) \in DOMAIN m.params
      BY <1>1, <1>2, <1>3, <1>5
    <2>2. ASSUME NEW k \in DOMAIN m.params PROVE \E p \in DOMAIN all : FlattenKey(p) = k
      BY <1>1, <1>2, <1>3, <1>5
    <2> QED BY <2>1, <2>2
  <1>8. \A p, q \in DOMAIN all : FlattenKey(p) = FlattenKey(q) => p = q
    BY <1>1, <1>2, <1>3, <1>5
  <1> QED BY <1>6, <1>7, <1>8 DEF Says

LEMMA ParamsBack ==
    ASSUME NEW m, IsMatcher(m), NEW protocol, NEW all
    PROVE  LET r == ReadMatch(WriteMatch(m, protocol, all)) IN
           \/ r.params = m.params
           \/ /\ protocol = "mcp" /\ ToolKey \in DOMAIN m.params /\ NestsBelowName(m)
              /\ r.params = OtherParams(m.params)
  <1> DEFINE w == WriteMatch(m, protocol, all)
  <1>1. IsParams(m.params) /\ IsMap(m.params)
    BY DEF IsMatcher, IsParams
  <1>2. ReadMatch(w).params = FlattenParams(WithTool(w))
    BY DEF ReadMatch
  <1>3. CASE ~(protocol = "mcp" /\ ToolKey \in DOMAIN m.params)
    <2>1. w.tool = Absent
      BY <1>3 DEF WriteMatch, ToolKey
    <2>2. w.params = IF protocol = "mcp" THEN NestParams(m.params) ELSE FlatParams(m.params)
      <3> DEFINE others == [k \in DOMAIN m.params |-> m.params[k]]
      <3>1. w.params = IF protocol = "mcp" THEN NestParams(others) ELSE FlatParams(others)
        BY <1>3 DEF WriteMatch, ToolKey
      <3>2. others = m.params
        BY <1>1 DEF IsMap
      <3> HIDE DEF w, others
      <3> QED BY <3>1, <3>2
    <2> HIDE DEF w
    <2>3. WithTool(w) = w.params
      BY <2>1 DEF WithTool, Absent
    <2>4. Says(w.params, m.params)
      BY <1>1, <2>2, NestSays, FlatSays
    <2> QED BY <1>1, <1>2, <2>3, <2>4, FlattenedIs DEF w
  <1>4. CASE protocol = "mcp" /\ ToolKey \in DOMAIN m.params
    <2> DEFINE others == OtherParams(m.params)
               doc == NestParams(others)
    <2>1. w.tool = Present(m.params[ToolKey]) /\ w.params = doc
      BY <1>4 DEF WriteMatch, ToolKey, OtherParams
    <2>2. w.tool.set /\ w.tool.value = m.params[ToolKey]
      BY <2>1 DEF Present
    <2>3. IsParams(others) /\ Says(doc, others)
      BY OthersAre, NestSays
    <2>4. ~NestsBelowName(m) => \A p \in DOMAIN doc : p[1] # ToolKey
      BY <1>4, NoOtherTool
    <2> HIDE DEF doc, w, others
    <2>5. CASE \A p \in DOMAIN doc : p[1] # ToolKey
      <3>1. WithTool(w) = [p \in DOMAIN doc \union {ToolPath} |-> IF p = ToolPath THEN m.params[ToolKey] ELSE doc[p]]
        BY <2>1, <2>2, <2>5 DEF WithTool, ToolPath, ToolKey
      <3>2. Says(WithTool(w), m.params)
        BY <1>4, <2>3, <3>1, ToolSays DEF others
      <3> QED BY <1>1, <1>2, <3>2, FlattenedIs DEF w
    <2>6. CASE ~\A p \in DOMAIN doc : p[1] # ToolKey
      <3>1. WithTool(w) = doc
        BY <2>1, <2>6 DEF WithTool, ToolKey
      <3>2. ReadMatch(w).params = others
        BY <1>2, <2>3, <3>1, FlattenedIs DEF IsParams
      <3> QED BY <1>4, <2>4, <2>6, <3>2 DEF w, others
    <2> QED BY <2>5, <2>6
  <1> QED BY <1>3, <1>4

\* What is read back is keyed by lists.
LEMMA KeysBack ==
    ASSUME NEW m, IsMatcher(m), NEW protocol, NEW all
    PROVE  IsParams(ReadMatch(WriteMatch(m, protocol, all)).params)
  <1> DEFINE w == WriteMatch(m, protocol, all)
             has == protocol = "mcp" /\ ToolKey \in DOMAIN m.params
             others == [k \in (IF has THEN DOMAIN m.params \ {ToolKey} ELSE DOMAIN m.params) |-> m.params[k]]
             keys == {FlattenKey(p) : p \in DOMAIN WithTool(w)}
             r == ReadMatch(w).params
  <1>1. IsParams(others)
    BY DEF IsParams, IsMap, IsMatcher
  <1>2. w.params = IF protocol = "mcp" THEN NestParams(others) ELSE FlatParams(others)
    BY DEF WriteMatch, ToolKey
  <1>3. DOMAIN r = keys /\ IsMap(r)
    BY DEF ReadMatch, FlattenParams, IsMap
  <1> HIDE DEF w, others, r
  <1>4. Says(w.params, others)
    BY <1>1, <1>2, NestSays, FlatSays
  <1>5. \A p \in DOMAIN WithTool(w) : p \in DOMAIN w.params \/ p = ToolPath
    BY DEF WithTool, ToolPath, ToolKey
  <1>6. FlattenKey(ToolPath) = ToolKey /\ IsList(ToolKey) /\ ToolKey # <<>>
    <2>1. IsList(ToolKey) /\ ToolKey # <<>>
      BY DEF IsList, ToolKey
    <2> QED BY <2>1, FlattenOne DEF ToolPath
  <1>7. \A p \in DOMAIN w.params : FlattenKey(p) \in DOMAIN others
    BY <1>4 DEF Says
  <1>8. ASSUME NEW k \in keys PROVE IsList(k) /\ k # <<>>
    <2>1. PICK p \in DOMAIN WithTool(w) : k = FlattenKey(p)
      OBVIOUS
    <2> QED BY <1>1, <1>5, <1>6, <1>7, <2>1 DEF IsParams
  <1> QED BY <1>3, <1>8 DEF r, w, IsParams

\* What a matcher means where the options are these, as far as a file says it.
MatchMeaning(m, protocol, options) ==
    IF protocol = "mcp" THEN LooseMatch([m EXCEPT !.method = McpMethod(m, options)]) ELSE m

MatchFields == {"method", "path", "fields", "params"}

LEMMA MatchMeaningIs ==
    ASSUME NEW m, IsMap(m), DOMAIN m = MatchFields, NEW options
    PROVE  LET n == MatchMeaning(m, "mcp", options)
               method == McpMethod(m, options)
           IN /\ DOMAIN n = MatchFields /\ IsMap(n) /\ n.path = m.path /\ n.fields = m.fields
              /\ n.method = IF NestsBelowName(m) /\ method \in {"", "tools/call"} THEN "*" ELSE method
              /\ n.params = IF NestsBelowName(m) THEN OtherParams(m.params) ELSE m.params
  <1> DEFINE method == McpMethod(m, options)
             said == [m EXCEPT !.method = method]
             n == MatchMeaning(m, "mcp", options)
  <1>1. /\ DOMAIN said = MatchFields /\ IsMap(said) /\ said.method = method
        /\ said.path = m.path /\ said.fields = m.fields /\ said.params = m.params
    BY DEF IsMap, MatchFields
  <1>2. n = LooseMatch(said)
    BY DEF MatchMeaning
  <1> HIDE DEF said, method, n
  <1>3. NestsBelowName(said) <=> NestsBelowName(m)
    BY <1>1 DEF NestsBelowName
  <1>4. CASE ~NestsBelowName(m)
    <2>1. n = said
      BY <1>2, <1>3, <1>4 DEF LooseMatch
    <2> QED BY <1>1, <1>4, <2>1 DEF n, method
  <1>5. CASE NestsBelowName(m)
    <2> DEFINE others == OtherParams(said.params)
               loose == IF said.method \in {"", "tools/call"} THEN "*" ELSE said.method
    <2>1. n = [said EXCEPT !.method = loose, !.params = others]
      BY <1>2, <1>3, <1>5 DEF LooseMatch
    <2> HIDE DEF others, loose
    <2>2. /\ DOMAIN n = MatchFields /\ IsMap(n) /\ n.method = loose /\ n.params = others
          /\ n.path = said.path /\ n.fields = said.fields
      BY <1>1, <2>1 DEF IsMap, MatchFields
    <2> QED BY <1>1, <1>5, <2>2 DEF n, method, loose, others
  <1> QED BY <1>4, <1>5

AllowsAll(options) == "allowAllKnownMcpMethods=true" \in options

LEMMA MatchIs ==
    ASSUME NEW m, IsMatcher(m), NEW protocol, NEW all
    PROVE  LET r == ReadMatch(WriteMatch(m, protocol, all)) IN
           /\ DOMAIN r = {"method", "path", "fields", "params"} /\ IsMap(r)
           /\ r.path = m.path /\ r.fields = m.fields
           /\ r.method = (IF protocol = "mcp" /\ (IF ToolKey \in DOMAIN m.params THEN m.method = "tools/call" /\ all
                                                  ELSE m.method = "*")
                          THEN "" ELSE m.method)
  <1> DEFINE w == WriteMatch(m, protocol, all)
             r == ReadMatch(w)
  <1>1. /\ w.path = m.path /\ w.fields = ToFile(RenamedInMatch, m.fields)
        /\ w.method = (IF protocol = "mcp" /\ (IF ToolKey \in DOMAIN m.params THEN m.method = "tools/call" /\ all
                                               ELSE m.method = "*")
                       THEN "" ELSE m.method)
    BY DEF WriteMatch, ToolKey
  <1> HIDE DEF w
  <1>2. /\ DOMAIN r = {"method", "path", "fields", "params"} /\ IsMap(r)
        /\ r.path = w.path /\ r.method = w.method /\ r.fields = ToApi(RenamedInMatch, w.fields)
    BY DEF ReadMatch, IsMap
  <1> HIDE DEF r
  <1>3. ToApi(RenamedInMatch, ToFile(RenamedInMatch, m.fields)) = m.fields
    BY NamesBack DEF IsMatcher
  <1> QED BY <1>1, <1>2, <1>3 DEF r, w

LEMMA MatchBack ==
    ASSUME NEW m, NEW protocol, IsMatcher(m), NEW all
    PROVE  LET r == ReadMatch(WriteMatch(m, protocol, all)) IN
           /\ IsMatcher(r)
           /\ \A options : (protocol = "mcp" => (all <=> AllowsAll(options))) =>
                  MatchMeaning(r, protocol, options) = MatchMeaning(m, protocol, options)
  <1> DEFINE r == ReadMatch(WriteMatch(m, protocol, all))
  <1>1. IsMap(m) /\ DOMAIN m = MatchFields
    BY DEF IsMatcher, MatchFields
  <1>2. /\ DOMAIN r = MatchFields /\ IsMap(r)
        /\ r.path = m.path /\ r.fields = m.fields
        /\ r.method = (IF protocol = "mcp" /\ (IF ToolKey \in DOMAIN m.params THEN m.method = "tools/call" /\ all
                                               ELSE m.method = "*")
                       THEN "" ELSE m.method)
    BY MatchIs DEF MatchFields
  <1>3. IsParams(r.params)
    BY KeysBack
  <1>4. \/ r.params = m.params
        \/ /\ protocol = "mcp" /\ ToolKey \in DOMAIN m.params /\ NestsBelowName(m)
           /\ r.params = OtherParams(m.params)
    BY ParamsBack
  <1> HIDE DEF r
  <1>5. IsMatcher(r)
    BY <1>1, <1>2, <1>3 DEF IsMatcher, IsParams, MatchFields
  <1>6. ASSUME NEW options, protocol = "mcp" => (all <=> AllowsAll(options))
        PROVE  MatchMeaning(r, protocol, options) = MatchMeaning(m, protocol, options)
    <2>1. CASE protocol # "mcp"
      <3>1. \A f \in DOMAIN m : r[f] = m[f]
        BY <1>1, <1>2, <1>4, <2>1 DEF MatchFields
      <3>2. r = m
        BY <1>1, <1>2, <3>1 DEF IsMap
      <3> QED BY <3>2
    <2>2. CASE protocol = "mcp"
      <3> DEFINE x == MatchMeaning(r, "mcp", options)
                 y == MatchMeaning(m, "mcp", options)
      <3>1. /\ DOMAIN x = MatchFields /\ IsMap(x) /\ x.path = r.path /\ x.fields = r.fields
            /\ x.method = IF NestsBelowName(r) /\ McpMethod(r, options) \in {"", "tools/call"} THEN "*" ELSE McpMethod(r, options)
            /\ x.params = IF NestsBelowName(r) THEN OtherParams(r.params) ELSE r.params
        BY <1>2, MatchMeaningIs
      <3>2. /\ DOMAIN y = MatchFields /\ IsMap(y) /\ y.path = m.path /\ y.fields = m.fields
            /\ y.method = IF NestsBelowName(m) /\ McpMethod(m, options) \in {"", "tools/call"} THEN "*" ELSE McpMethod(m, options)
            /\ y.params = IF NestsBelowName(m) THEN OtherParams(m.params) ELSE m.params
        BY <1>1, MatchMeaningIs
      <3> HIDE DEF x, y
      <3>3. x.method = y.method /\ x.params = y.params
        <4>1. CASE r.params = m.params
          <5>1. McpMethod(r, options) = McpMethod(m, options)
            BY <1>2, <1>6, <2>2, <4>1 DEF McpMethod, AllowsAll, ToolKey
          <5>2. NestsBelowName(r) <=> NestsBelowName(m)
            BY <4>1 DEF NestsBelowName
          <5> QED BY <3>1, <3>2, <4>1, <5>1, <5>2
        <4>2. CASE ToolKey \in DOMAIN m.params /\ NestsBelowName(m) /\ r.params = OtherParams(m.params)
          <5> DEFINE others == OtherParams(m.params)
          <5>1. DOMAIN others = DOMAIN m.params \ {ToolKey} /\ IsMap(others)
            BY OthersAre DEF IsParams
          <5>2. NestsBelowName(r)
            BY <4>2, <5>1 DEF NestsBelowName, ToolKey
          <5>3. OtherParams(others) = others
            <6> HIDE DEF others
            <6> QED BY <5>1 DEF OtherParams, IsMap, ToolKey
          <5>4. McpMethod(r, options) = IF r.method # "" THEN r.method ELSE "*"
            BY <4>2, <5>1 DEF McpMethod, ToolKey
          <5>5. McpMethod(m, options) = IF m.method # "" THEN m.method ELSE IF all THEN "tools/call" ELSE ""
            BY <1>6, <2>2, <4>2 DEF McpMethod, AllowsAll, ToolKey
          <5>6. r.method = IF m.method = "tools/call" /\ all THEN "" ELSE m.method
            BY <1>2, <2>2, <4>2
          <5>7. x.method = IF McpMethod(r, options) \in {"", "tools/call"} THEN "*" ELSE McpMethod(r, options)
            BY <3>1, <5>2
          <5>8. y.method = IF McpMethod(m, options) \in {"", "tools/call"} THEN "*" ELSE McpMethod(m, options)
            BY <3>2, <4>2
          <5> HIDE DEF others
          <5>9. x.method = y.method
            BY <5>4, <5>5, <5>6, <5>7, <5>8
          <5> QED BY <3>1, <3>2, <4>2, <5>2, <5>3, <5>9 DEF others
        <4> QED BY <1>4, <4>1, <4>2
      <3>4. \A f \in MatchFields : x[f] = y[f]
        BY <1>2, <3>1, <3>2, <3>3 DEF MatchFields
      <3>5. x = y
        BY <3>1, <3>2, <3>4 DEF IsMap
      <3> QED BY <2>2, <3>5 DEF x, y
    <2> QED BY <2>1, <2>2
  <1> QED BY <1>5, <1>6 DEF r

-----------------------------------------------------------------------------
\* Endpoints, and what they mean.
EndpointFields ==
    {"host", "path", "protocol", "fields", "port", "ports", "tls", "enforcement", "access", "rules",
     "denyRules", "maxBodyBytes", "mcp", "marks"}

OptionsOf(e) == IF e.mcp.set THEN e.mcp.value.options ELSE {}
VersionsOf(e) == IF e.mcp.set THEN Members(e.mcp.value.versions) ELSE {}
McpMeaning(e) ==
    IF e.protocol = "mcp"
    THEN [options |-> OptionsOf(e), versions |-> IF VersionsOf(e) = {} THEN {DefaultMcpVersion} ELSE VersionsOf(e)]
    ELSE Absent
PortsMeaning(e) == IF e.ports # <<>> THEN e.ports ELSE <<e.port>>
MatchesMeaning(s, protocol, options) == [i \in DOMAIN s |-> MatchMeaning(s[i], protocol, options)]

MeansTheSame(d, e) ==
    /\ DOMAIN d = EndpointFields /\ DOMAIN e = EndpointFields
    /\ d.host = e.host /\ d.path = e.path /\ d.protocol = e.protocol /\ d.fields = e.fields
    /\ d.tls = e.tls /\ d.enforcement = e.enforcement /\ d.access = e.access /\ d.maxBodyBytes = e.maxBodyBytes
    /\ PortsMeaning(d) = PortsMeaning(e) /\ McpMeaning(d) = McpMeaning(e)
    /\ MatchesMeaning(d.rules, d.protocol, OptionsOf(d)) = MatchesMeaning(e.rules, e.protocol, OptionsOf(e))
    /\ MatchesMeaning(d.denyRules, d.protocol, OptionsOf(d)) = MatchesMeaning(e.denyRules, e.protocol, OptionsOf(e))

MeaningAt(e, f) ==
    CASE f = "port" -> 0
      [] f = "ports" -> PortsMeaning(e)
      [] f = "marks" -> {}
      [] f = "rules" -> MatchesMeaning(e.rules, e.protocol, OptionsOf(e))
      [] f = "denyRules" -> MatchesMeaning(e.denyRules, e.protocol, OptionsOf(e))
      [] f = "mcp" -> McpMeaning(e)
      [] OTHER -> e[f]

MeaningInFile(e) == LooseEndpoint(MeaningOfEndpoint(e))

LEMMA MeaningIs ==
    ASSUME NEW e, DOMAIN e = EndpointFields
    PROVE  /\ DOMAIN MeaningInFile(e) = EndpointFields /\ IsMap(MeaningInFile(e))
           /\ \A f \in EndpointFields : MeaningInFile(e)[f] = MeaningAt(e, f)
  <1> DEFINE Said(m) == IF e.protocol = "mcp" THEN [m EXCEPT !.method = McpMethod(m, OptionsOf(e))] ELSE m
             rules == [i \in DOMAIN e.rules |-> Said(e.rules[i])]
             deny == [i \in DOMAIN e.denyRules |-> Said(e.denyRules[i])]
             ports == PortsMeaning(e)
             mcp == McpMeaning(e)
             d == MeaningOfEndpoint(e)
             loose == MeaningInFile(e)
             looseRules == MatchesMeaning(e.rules, e.protocol, OptionsOf(e))
             looseDeny == MatchesMeaning(e.denyRules, e.protocol, OptionsOf(e))
  <1>1. d = [e EXCEPT !.port = 0, !.ports = ports, !.marks = {}, !.rules = rules, !.denyRules = deny, !.mcp = mcp]
    BY DEF MeaningOfEndpoint, SeqMap, OptionsOf, VersionsOf, Members, PortsMeaning, McpMeaning
  <1>2. CASE e.protocol # "mcp"
    <2>1. rules = looseRules /\ deny = looseDeny
      BY <1>2 DEF MatchesMeaning, MatchMeaning
    <2> HIDE DEF rules, deny, ports, mcp, looseRules, looseDeny, d
    <2>2. /\ DOMAIN d = EndpointFields /\ IsMap(d) /\ d.protocol = e.protocol
          /\ d.port = 0 /\ d.ports = ports /\ d.marks = {} /\ d.rules = rules /\ d.denyRules = deny /\ d.mcp = mcp
          /\ \A f \in EndpointFields \ {"port", "ports", "marks", "rules", "denyRules", "mcp"} : d[f] = e[f]
      BY <1>1 DEF EndpointFields, IsMap
    <2>3. loose = d
      BY <1>2, <2>2 DEF MeaningInFile, LooseEndpoint, d
    <2> QED BY <2>1, <2>2, <2>3 DEF MeaningAt, EndpointFields, looseRules, looseDeny, ports, mcp
  <1>3. CASE e.protocol = "mcp"
    <2>1. SeqMap(LooseMatch, rules) = looseRules /\ SeqMap(LooseMatch, deny) = looseDeny
      BY <1>3 DEF MatchesMeaning, MatchMeaning, SeqMap
    <2> HIDE DEF rules, deny, ports, mcp, looseRules, looseDeny, d
    <2>2. /\ DOMAIN d = EndpointFields /\ IsMap(d) /\ d.protocol = e.protocol
          /\ d.port = 0 /\ d.ports = ports /\ d.marks = {} /\ d.rules = rules /\ d.denyRules = deny /\ d.mcp = mcp
          /\ \A f \in EndpointFields \ {"port", "ports", "marks", "rules", "denyRules", "mcp"} : d[f] = e[f]
      BY <1>1 DEF EndpointFields, IsMap
    <2>3. loose = [d EXCEPT !.rules = looseRules, !.denyRules = looseDeny]
      BY <1>3, <2>1, <2>2 DEF MeaningInFile, LooseEndpoint, d
    <2> HIDE DEF loose
    <2>4. /\ DOMAIN loose = EndpointFields /\ IsMap(loose) /\ loose.rules = looseRules /\ loose.denyRules = looseDeny
          /\ \A f \in EndpointFields \ {"rules", "denyRules"} : loose[f] = d[f]
      BY <2>2, <2>3 DEF EndpointFields, IsMap
    <2> QED BY <2>2, <2>4 DEF MeaningAt, EndpointFields, looseRules, looseDeny, ports, mcp, loose
  <1> QED BY <1>2, <1>3

LEMMA SameMeaning ==
    ASSUME NEW d, NEW e, MeansTheSame(d, e)
    PROVE  MeaningInFile(d) = MeaningInFile(e)
  <1>1. \A f \in EndpointFields \ {"port", "ports", "marks", "rules", "denyRules", "mcp"} : d[f] = e[f]
    BY DEF MeansTheSame, EndpointFields
  <1>2. DOMAIN d = EndpointFields /\ DOMAIN e = EndpointFields
    BY DEF MeansTheSame
  <1>3. ASSUME NEW f \in EndpointFields PROVE MeaningAt(d, f) = MeaningAt(e, f)
    BY <1>1 DEF MeansTheSame, MeaningAt
  <1>4. /\ DOMAIN MeaningInFile(d) = EndpointFields /\ IsMap(MeaningInFile(d))
        /\ DOMAIN MeaningInFile(e) = EndpointFields /\ IsMap(MeaningInFile(e))
        /\ \A f \in EndpointFields : MeaningInFile(d)[f] = MeaningInFile(e)[f]
    BY <1>2, <1>3, MeaningIs
  <1> QED BY <1>4 DEF IsMap

\* The ports that are read are those that are meant.
LEMMA PortsBack ==
    ASSUME NEW e, e.port \in Nat, e.ports \in Seq(Nat),
           NEW w, w.port = (IF Len(e.ports) > 1 THEN 0 ELSE FirstOf(e.ports, e.port)),
           w.ports = (IF Len(e.ports) > 1 THEN e.ports ELSE <<>>)
    PROVE  /\ ReadPorts(w) \in Seq(Nat) /\ FirstOf(ReadPorts(w), 0) \in Nat
           /\ (IF ReadPorts(w) # <<>> THEN ReadPorts(w) ELSE <<FirstOf(ReadPorts(w), 0)>>) = PortsMeaning(e)
  <1>1. CASE Len(e.ports) > 1
    <2>1. ReadPorts(w) = e.ports /\ e.ports # <<>>
      BY <1>1 DEF ReadPorts
    <2> QED BY <2>1 DEF FirstOf, PortsMeaning
  <1>2. CASE Len(e.ports) = 1
    <2>1. e.ports # <<>> /\ e.ports[1] \in Nat /\ e.ports = <<e.ports[1]>>
      BY <1>2
    <2>2. w.ports = <<>> /\ w.port = e.ports[1]
      BY <1>2, <2>1 DEF FirstOf
    <2> QED BY <2>1, <2>2 DEF ReadPorts, FirstOf, PortsMeaning
  <1>3. CASE Len(e.ports) = 0
    <2>1. e.ports = <<>>
      BY <1>3
    <2>2. w.ports = <<>> /\ w.port = e.port
      BY <1>3, <2>1 DEF FirstOf
    <2> QED BY <2>1, <2>2 DEF ReadPorts, FirstOf, PortsMeaning
  <1>4. Len(e.ports) > 1 \/ Len(e.ports) = 1 \/ Len(e.ports) = 0
    <2>1. \A n \in Nat : n > 1 \/ n = 1 \/ n = 0
      OBVIOUS
    <2>2. Len(e.ports) \in Nat
      OBVIOUS
    <2> QED BY <2>1, <2>2
  <1> QED BY <1>1, <1>2, <1>3, <1>4

\* The options and the revisions that are read are those that are meant.
LEMMA McpBack ==
    ASSUME NEW e, IsOptional(e.mcp), e.mcp.set => IsList(e.mcp.value.versions), ~McpViolates(e),
           NEW r, r.protocol = e.protocol,
           NEW w, w.protocol = e.protocol, w.mcp = WriteMcp(e), r.mcp = ReadMcp(w)
    PROVE  /\ IsOptional(r.mcp) /\ (r.mcp.set => IsList(r.mcp.value.versions))
           /\ McpMeaning(r) = McpMeaning(e) /\ (e.protocol = "mcp" => OptionsOf(r) = OptionsOf(e))
           /\ e.protocol = "mcp" => w.mcp.set /\ w.mcp.value.max_body_bytes = e.maxBodyBytes
           /\ e.protocol # "mcp" => ~w.mcp.set
  <1>1. CASE e.protocol # "mcp"
    <2>1. w.mcp = Absent /\ r.mcp = Absent
      BY <1>1 DEF WriteMcp, ReadMcp
    <2>2. Absent.set = FALSE
      BY DEF Absent
    <2> QED BY <1>1, <2>1, <2>2 DEF McpMeaning, IsOptional
  <1>2. CASE e.protocol = "mcp"
    <2> DEFINE given == IF e.mcp.set THEN e.mcp.value.versions ELSE <<>>
               versions == IF given = <<>> THEN <<DefaultMcpVersion>> ELSE CanonicalMcpVersions(given)
               said == [versions |-> Present(versions), options |-> OptionsOf(e), max_body_bytes |-> e.maxBodyBytes]
               back == CanonicalMcpVersions(versions)
               read == [options |-> OptionsOf(e), versions |-> back]
    <2>1. WriteMcp(e) = Present(said)
      BY <1>2 DEF WriteMcp, OptionsOf
    <2>2. IsList(given) /\ Members(given) \subseteq Names(McpVersions)
      <3>1. CASE e.mcp.set
        BY <1>2, <3>1 DEF McpViolates, McpVersionsFine, Members
      <3>2. CASE ~e.mcp.set
        BY <3>2 DEF IsList, Members
      <3> QED BY <3>1, <3>2
    <2>3. DefaultMcpVersion \in Names(McpVersions)
      <3>1. 3 \in DOMAIN McpVersions /\ McpVersions[3] = DefaultMcpVersion
        BY DEF McpVersions, DefaultMcpVersion
      <3> QED BY <3>1 DEF Names
    <2>4. /\ IsList(versions) /\ Members(versions) \subseteq Names(McpVersions)
          /\ Members(versions) = IF Members(given) = {} THEN {DefaultMcpVersion} ELSE Members(given)
      <3> HIDE DEF given
      <3>1. given = <<>> <=> Members(given) = {}
        <4>1. ASSUME given # <<>> PROVE 1 \in DOMAIN given
          BY <2>2, <4>1, ListIs DEF IsList
        <4>2. Members(<<>>) = {}
          BY DEF Members
        <4> QED BY <4>1, <4>2 DEF Members
      <3>2. IsList(<<DefaultMcpVersion>>) /\ Members(<<DefaultMcpVersion>>) = {DefaultMcpVersion}
        BY DEF IsList, Members
      <3>3. IsList(CanonicalMcpVersions(given)) /\ Members(CanonicalMcpVersions(given)) = Members(given)
        BY <2>2, CanonicalNames
      <3> QED BY <2>2, <2>3, <3>1, <3>2, <3>3
    <2> HIDE DEF versions
    <2>5. IsList(back) /\ Members(back) = Members(versions)
      BY <2>4, CanonicalNames
    <2> HIDE DEF said, back
    <2>6. w.mcp.set = TRUE /\ w.mcp.value = said
      BY <2>1 DEF Present
    <2>7. said.versions.set = TRUE /\ said.versions.value = versions /\ said.options = OptionsOf(e)
          /\ said.max_body_bytes = e.maxBodyBytes
      BY DEF said, Present
    <2>8. ReadMcp(w) = Present(read)
      BY <1>2, <2>6, <2>7 DEF ReadMcp, back
    <2>9. read.options = OptionsOf(e) /\ read.versions = back
      OBVIOUS
    <2> HIDE DEF read
    <2>10. r.mcp.set = TRUE /\ r.mcp.value = read /\ IsOptional(r.mcp)
      BY <2>8 DEF Present, IsOptional
    <2>11. OptionsOf(r) = OptionsOf(e) /\ VersionsOf(r) = Members(versions)
      BY <2>5, <2>9, <2>10 DEF OptionsOf, VersionsOf
    <2>12. VersionsOf(e) = Members(given)
      BY DEF VersionsOf, Members
    <2> HIDE DEF given
    <2>13. McpMeaning(r) = McpMeaning(e)
      <3>1. (IF VersionsOf(r) = {} THEN {DefaultMcpVersion} ELSE VersionsOf(r))
                = IF VersionsOf(e) = {} THEN {DefaultMcpVersion} ELSE VersionsOf(e)
        BY <2>4, <2>11, <2>12
      <3> QED BY <2>11, <3>1 DEF McpMeaning
    <2> QED BY <1>2, <2>5, <2>6, <2>7, <2>9, <2>10, <2>11, <2>13
  <1> QED BY <1>1, <1>2

LEMMA MatchesBack ==
    ASSUME NEW s, NEW protocol, AreMatchers(s), NEW all,
           NEW t, DOMAIN t = DOMAIN s, IsMap(t), \A i \in DOMAIN s : t[i] = ReadMatch(WriteMatch(s[i], protocol, all)),
           NEW options, protocol = "mcp" => (all <=> AllowsAll(options))
    PROVE  /\ AreMatchers(t)
           /\ MatchesMeaning(t, protocol, options) = MatchesMeaning(s, protocol, options)
  <1>1. ASSUME NEW i \in DOMAIN s
        PROVE  /\ IsMatcher(t[i])
               /\ MatchMeaning(t[i], protocol, options) = MatchMeaning(s[i], protocol, options)
    <2>1. IsMatcher(s[i]) /\ t[i] = ReadMatch(WriteMatch(s[i], protocol, all))
      BY DEF AreMatchers
    <2> QED BY <2>1, MatchBack
  <1>2. IsList(t)
    <2>1. Len(s) \in Nat /\ DOMAIN s = 1 .. Len(s)
      BY ListIs DEF AreMatchers
    <2>2. t = [i \in 1 .. Len(s) |-> t[i]]
      BY <2>1 DEF IsMap
    <2> QED BY <2>1, <2>2, IsAList
  <1> QED BY <1>1, <1>2 DEF AreMatchers, MatchesMeaning

LEMMA EndpointBack ==
    ASSUME NEW e, IsEndpoint(e), EndpointWrites(e)
    PROVE  LET r == ReadEndpoint(WriteEndpoint(e)) IN
           IsEndpoint(r) /\ MeansTheSame(r, e)
  <1> DEFINE all == e.protocol # "mcp" \/ (e.mcp.set /\ "allowAllKnownMcpMethods=true" \in e.mcp.value.options)
             w == WriteEndpoint(e)
             r == ReadEndpoint(w)
  <1>1. /\ w.host = e.host /\ w.path = e.path /\ w.protocol = e.protocol /\ w.fields = ToFile(Renamed, e.fields)
        /\ w.port = (IF Len(e.ports) > 1 THEN 0 ELSE FirstOf(e.ports, e.port))
        /\ w.ports = (IF Len(e.ports) > 1 THEN e.ports ELSE <<>>)
        /\ w.tls = WriteMode(TlsMode, e.tls) /\ w.enforcement = WriteMode(EnforcementMode, e.enforcement)
        /\ w.access = WriteMode(AccessPreset, e.access)
        /\ w.json_rpc = (IF e.protocol = "mcp" THEN 0 ELSE e.maxBodyBytes) /\ w.mcp = WriteMcp(e)
    BY DEF WriteEndpoint
  <1>2. /\ w.rules = [i \in DOMAIN e.rules |-> WriteMatch(e.rules[i], e.protocol, all)]
        /\ w.deny_rules = [i \in DOMAIN e.denyRules |-> WriteMatch(e.denyRules[i], e.protocol, all)]
    BY DEF WriteEndpoint, SeqMap
  <1> HIDE DEF w
  <1>3. /\ DOMAIN r = EndpointFields
        /\ r.host = w.host /\ r.path = w.path /\ r.protocol = w.protocol /\ r.fields = ToApi(Renamed, w.fields)
        /\ r.port = FirstOf(ReadPorts(w), 0) /\ r.ports = ReadPorts(w)
        /\ r.tls = NumberOf(TlsMode, w.tls) /\ r.enforcement = NumberOf(EnforcementMode, w.enforcement)
        /\ r.access = NumberOf(AccessPreset, w.access)
        /\ r.maxBodyBytes = (IF w.mcp.set THEN w.mcp.value.max_body_bytes ELSE w.json_rpc)
        /\ r.mcp = ReadMcp(w)
    BY DEF ReadEndpoint, EndpointFields
  <1>4. /\ r.rules = [i \in DOMAIN w.rules |-> ReadMatch(w.rules[i])]
        /\ r.denyRules = [i \in DOMAIN w.deny_rules |-> ReadMatch(w.deny_rules[i])]
    BY DEF ReadEndpoint, SeqMap
  <1> HIDE DEF r, all
  <1>5. r.fields = e.fields
    BY <1>1, <1>3, NamesBack DEF IsEndpoint, CarriedFields
  <1>6. r.tls = e.tls /\ r.enforcement = e.enforcement /\ r.access = e.access
    <2>1. e.tls \in Nat /\ e.enforcement \in Nat /\ e.access \in Nat
      BY DEF IsEndpoint
    <2>2. WriteMode(TlsMode, e.tls) # "unknown"
      BY DEF EndpointWrites, IsSupportedTls
    <2>3. WriteMode(EnforcementMode, e.enforcement) # "unknown" /\ WriteMode(AccessPreset, e.access) # "unknown"
      BY DEF EndpointWrites
    <2>4. NumberOf(TlsMode, WriteMode(TlsMode, e.tls)) = e.tls
      BY <2>1, <2>2, ModesAre, ModeBack
    <2>5. NumberOf(EnforcementMode, WriteMode(EnforcementMode, e.enforcement)) = e.enforcement
      BY <2>1, <2>3, ModesAre, ModeBack
    <2>6. NumberOf(AccessPreset, WriteMode(AccessPreset, e.access)) = e.access
      BY <2>1, <2>3, ModesAre, ModeBack
    <2> QED BY <1>1, <1>3, <2>4, <2>5, <2>6
  <1>7. r.ports \in Seq(Nat) /\ r.port \in Nat /\ PortsMeaning(r) = PortsMeaning(e)
    <2>1. e.port \in Nat /\ e.ports \in Seq(Nat)
      BY DEF IsEndpoint
    <2> QED BY <1>1, <1>3, <2>1, PortsBack DEF PortsMeaning
  <1>8. /\ IsOptional(r.mcp) /\ (r.mcp.set => IsList(r.mcp.value.versions))
        /\ McpMeaning(r) = McpMeaning(e) /\ (e.protocol = "mcp" => OptionsOf(r) = OptionsOf(e))
        /\ e.protocol = "mcp" => w.mcp.set /\ w.mcp.value.max_body_bytes = e.maxBodyBytes
        /\ e.protocol # "mcp" => ~w.mcp.set
    <2>1. IsOptional(e.mcp) /\ (e.mcp.set => IsList(e.mcp.value.versions)) /\ ~McpViolates(e)
      BY DEF IsEndpoint, EndpointWrites
    <2> QED BY <1>1, <1>3, <2>1, McpBack
  <1>9. r.maxBodyBytes = e.maxBodyBytes
    BY <1>1, <1>3, <1>8
  <1>10. e.protocol = "mcp" => (all <=> AllowsAll(OptionsOf(e)))
    BY DEF all, AllowsAll, OptionsOf
  <1>11. /\ AreMatchers(r.rules)
         /\ MatchesMeaning(r.rules, e.protocol, OptionsOf(e)) = MatchesMeaning(e.rules, e.protocol, OptionsOf(e))
    <2>1. DOMAIN r.rules = DOMAIN e.rules /\ IsMap(r.rules)
      BY <1>2, <1>4 DEF IsMap
    <2>2. \A i \in DOMAIN e.rules : r.rules[i] = ReadMatch(WriteMatch(e.rules[i], e.protocol, all))
      BY <1>2, <1>4
    <2>3. AreMatchers(e.rules)
      BY DEF IsEndpoint
    <2> QED BY <1>10, <2>1, <2>2, <2>3, MatchesBack
  <1>12. /\ AreMatchers(r.denyRules)
         /\ MatchesMeaning(r.denyRules, e.protocol, OptionsOf(e)) = MatchesMeaning(e.denyRules, e.protocol, OptionsOf(e))
    <2>1. DOMAIN r.denyRules = DOMAIN e.denyRules /\ IsMap(r.denyRules)
      BY <1>2, <1>4 DEF IsMap
    <2>2. \A i \in DOMAIN e.denyRules : r.denyRules[i] = ReadMatch(WriteMatch(e.denyRules[i], e.protocol, all))
      BY <1>2, <1>4
    <2>3. AreMatchers(e.denyRules)
      BY DEF IsEndpoint
    <2> QED BY <1>10, <2>1, <2>2, <2>3, MatchesBack
  <1>13. r.host = e.host /\ r.path = e.path /\ r.protocol = e.protocol
    BY <1>1, <1>3
  <1>14. IsEndpoint(r)
    BY <1>3, <1>5, <1>6, <1>7, <1>8, <1>11, <1>12, <1>13 DEF IsEndpoint, EndpointFields
  <1>15. MeansTheSame(r, e)
    <2>1. MatchesMeaning(r.rules, r.protocol, OptionsOf(r)) = MatchesMeaning(e.rules, e.protocol, OptionsOf(e))
      <3>1. CASE e.protocol = "mcp"
        BY <1>8, <1>11, <1>13, <3>1
      <3>2. CASE e.protocol # "mcp"
        <4>1. MatchesMeaning(r.rules, r.protocol, OptionsOf(r)) = MatchesMeaning(r.rules, e.protocol, OptionsOf(e))
          BY <1>13, <3>2 DEF MatchesMeaning, MatchMeaning
        <4> QED BY <1>11, <4>1
      <3> QED BY <3>1, <3>2
    <2>2. MatchesMeaning(r.denyRules, r.protocol, OptionsOf(r)) = MatchesMeaning(e.denyRules, e.protocol, OptionsOf(e))
      <3>1. CASE e.protocol = "mcp"
        BY <1>8, <1>12, <1>13, <3>1
      <3>2. CASE e.protocol # "mcp"
        <4>1. MatchesMeaning(r.denyRules, r.protocol, OptionsOf(r)) = MatchesMeaning(r.denyRules, e.protocol, OptionsOf(e))
          BY <1>13, <3>2 DEF MatchesMeaning, MatchMeaning
        <4> QED BY <1>12, <4>1
      <3> QED BY <3>1, <3>2
    <2>3. DOMAIN e = EndpointFields
      BY DEF IsEndpoint, EndpointFields
    <2> QED BY <1>3, <1>5, <1>6, <1>7, <1>8, <1>9, <1>13, <2>1, <2>2, <2>3 DEF MeansTheSame
  <1> QED BY <1>14, <1>15 DEF r, w

LEMMA CarriedMeans ==
    ASSUME NEW e, IsEndpoint(e)
    PROVE  MeansTheSame(PolicyNetworkEndpoint(e), e)
  <1> DEFINE w == PolicyNetworkEndpoint(e)
  <1>1. SeqMap(L7Rule, e.rules) = e.rules /\ SeqMap(L7DenyRule, e.denyRules) = e.denyRules
    BY CarriedMatchers DEF IsEndpoint
  <1>2. e.fields \intersect CarriedFields = e.fields
    BY DEF IsEndpoint, CarriedFields
  <1>3. /\ DOMAIN w = EndpointFields
        /\ w.host = e.host /\ w.path = e.path /\ w.protocol = e.protocol /\ w.fields = e.fields
        /\ w.port = e.port /\ w.ports = e.ports /\ w.tls = e.tls /\ w.enforcement = e.enforcement /\ w.access = e.access
        /\ w.rules = e.rules /\ w.denyRules = e.denyRules /\ w.maxBodyBytes = e.maxBodyBytes /\ w.mcp = McpOptions(e.mcp)
    BY <1>1, <1>2 DEF PolicyNetworkEndpoint, EndpointFields
  <1> HIDE DEF w
  <1>4. DOMAIN e = EndpointFields
    BY DEF IsEndpoint, EndpointFields
  <1>5. PortsMeaning(w) = PortsMeaning(e)
    BY <1>3 DEF PortsMeaning
  <1>6. OptionsOf(w) = OptionsOf(e) /\ VersionsOf(w) = VersionsOf(e)
    <2>1. /\ w.mcp.set = e.mcp.set
          /\ e.mcp.set => w.mcp.value.options = e.mcp.value.options /\ w.mcp.value.versions = e.mcp.value.versions
      BY <1>3, CarriedOptions DEF IsEndpoint
    <2> QED BY <2>1 DEF OptionsOf, VersionsOf
  <1>7. McpMeaning(w) = McpMeaning(e)
    BY <1>3, <1>6 DEF McpMeaning
  <1>8. MeansTheSame(w, e)
    BY <1>3, <1>4, <1>5, <1>6, <1>7 DEF MeansTheSame
  <1> QED BY <1>8 DEF w

-----------------------------------------------------------------------------
\* Rules, middlewares and policies, and what they mean.
NameOr(name, key) == IF name = "" THEN key ELSE name
RuleMeaning(rule, key) == [rule EXCEPT !.name = NameOr(rule.name, key), !.endpoints = SeqMap(MeaningInFile, rule.endpoints)]
MiddlewareMeaning(m, key) == [m EXCEPT !.name = NameOr(m.name, key)]
ProcessMeaning(process) == IF process.set THEN process.value ELSE {}

SameRules(q, p) ==
    /\ DOMAIN q.networkPolicies = DOMAIN p.networkPolicies
    /\ \A key \in DOMAIN p.networkPolicies : RuleMeaning(q.networkPolicies[key], key) = RuleMeaning(p.networkPolicies[key], key)
SameMiddlewares(q, p) ==
    /\ DOMAIN q.networkMiddlewares = DOMAIN p.networkMiddlewares
    /\ \A key \in DOMAIN p.networkMiddlewares :
          MiddlewareMeaning(q.networkMiddlewares[key], key) = MiddlewareMeaning(p.networkMiddlewares[key], key)

LEMMA RuleMeans ==
    ASSUME NEW rule, DOMAIN rule = {"name", "endpoints", "binaries"}, NEW key,
           NEW said, said = [rule EXCEPT !.name = NameOr(rule.name, key), !.endpoints = SeqMap(MeaningOfEndpoint, rule.endpoints)]
    PROVE  [said EXCEPT !.endpoints = SeqMap(LooseEndpoint, said.endpoints)] = RuleMeaning(rule, key)
  <1> DEFINE eps == SeqMap(MeaningOfEndpoint, rule.endpoints)
             loose == SeqMap(MeaningInFile, rule.endpoints)
             name == NameOr(rule.name, key)
  <1>1. SeqMap(LooseEndpoint, eps) = loose
    BY DEF SeqMap, MeaningInFile
  <1>2. said = [rule EXCEPT !.name = name, !.endpoints = eps] /\ RuleMeaning(rule, key) = [rule EXCEPT !.name = name, !.endpoints = loose]
    BY DEF RuleMeaning
  <1> HIDE DEF eps, loose, name
  <1>3. said.endpoints = eps
    BY <1>2
  <1>4. [said EXCEPT !.endpoints = loose] = [rule EXCEPT !.name = name, !.endpoints = loose]
    BY <1>2
  <1> QED BY <1>1, <1>2, <1>3, <1>4

LEMMA PoliciesMean ==
    ASSUME NEW p, NEW q, IsPolicy(p), IsPolicy(q), q.filesystem = p.filesystem, ReadLandlock(q.landlock) = ReadLandlock(p.landlock),
           ProcessMeaning(q.process) = ProcessMeaning(p.process), SameRules(q, p), SameMiddlewares(q, p)
    PROVE  Loosely(Meaning(q)) = Loosely(Meaning(p))
  <1> DEFINE Said(rule, key) == [rule EXCEPT !.name = NameOr(rule.name, key), !.endpoints = SeqMap(MeaningOfEndpoint, rule.endpoints)]
             SaidRules(x) == [key \in DOMAIN x.networkPolicies |-> Said(x.networkPolicies[key], key)]
             Rules(x) == [key \in DOMAIN x.networkPolicies |-> RuleMeaning(x.networkPolicies[key], key)]
             Middlewares(x) == [key \in DOMAIN x.networkMiddlewares |-> MiddlewareMeaning(x.networkMiddlewares[key], key)]
  <1>1. ASSUME NEW x, IsPolicy(x)
        PROVE  Loosely(Meaning(x)) = [filesystem |-> x.filesystem, landlock |-> ReadLandlock(x.landlock),
                                      process |-> ProcessMeaning(x.process), rules |-> Rules(x), middlewares |-> Middlewares(x)]
    <2>1. Meaning(x) = [filesystem |-> x.filesystem, landlock |-> ReadLandlock(x.landlock),
                        process |-> ProcessMeaning(x.process), rules |-> SaidRules(x), middlewares |-> Middlewares(x)]
      BY DEF Meaning, ProcessMeaning, MiddlewareMeaning, NameOr
    <2>2. \A key \in DOMAIN x.networkPolicies : DOMAIN x.networkPolicies[key] = {"name", "endpoints", "binaries"}
      BY <1>1 DEF IsPolicy, IsRule
    <2>3. ASSUME NEW key \in DOMAIN x.networkPolicies
          PROVE  [SaidRules(x)[key] EXCEPT !.endpoints = SeqMap(LooseEndpoint, SaidRules(x)[key].endpoints)]
                   = RuleMeaning(x.networkPolicies[key], key)
      <3> DEFINE rule == x.networkPolicies[key]
                 said == Said(rule, key)
      <3>1. SaidRules(x)[key] = said
        OBVIOUS
      <3>2. DOMAIN rule = {"name", "endpoints", "binaries"}
        BY <2>2
      <3> HIDE DEF rule
      <3>3. said = [rule EXCEPT !.name = NameOr(rule.name, key), !.endpoints = SeqMap(MeaningOfEndpoint, rule.endpoints)]
        OBVIOUS
      <3> HIDE DEF said, SaidRules
      <3>4. [said EXCEPT !.endpoints = SeqMap(LooseEndpoint, said.endpoints)] = RuleMeaning(rule, key)
        BY <3>2, <3>3, RuleMeans
      <3> QED BY <3>1, <3>4 DEF rule
    <2> DEFINE said == SaidRules(x)
    <2>4. DOMAIN said = DOMAIN x.networkPolicies
      OBVIOUS
    <2> HIDE DEF said
    <2>5. [key \in DOMAIN said |-> [said[key] EXCEPT !.endpoints = SeqMap(LooseEndpoint, said[key].endpoints)]] = Rules(x)
      BY <2>3, <2>4 DEF said
    <2> DEFINE said_of == [filesystem |-> x.filesystem, landlock |-> ReadLandlock(x.landlock),
                           process |-> ProcessMeaning(x.process), rules |-> said, middlewares |-> Middlewares(x)]
    <2>6. Meaning(x) = said_of
      BY <2>1 DEF said
    <2> HIDE DEF Rules, Middlewares
    <2>7. said_of.rules = said
      OBVIOUS
    <2>8. [said_of EXCEPT !.rules = Rules(x)]
            = [filesystem |-> x.filesystem, landlock |-> ReadLandlock(x.landlock),
               process |-> ProcessMeaning(x.process), rules |-> Rules(x), middlewares |-> Middlewares(x)]
      OBVIOUS
    <2> HIDE DEF said_of
    <2>9. Loosely(said_of) = [said_of EXCEPT !.rules = [key \in DOMAIN said_of.rules |->
              [said_of.rules[key] EXCEPT !.endpoints = SeqMap(LooseEndpoint, said_of.rules[key].endpoints)]]]
      BY DEF Loosely, LooseRule
    <2>10. Loosely(said_of) = [said_of EXCEPT !.rules = Rules(x)]
      BY <2>5, <2>7, <2>9
    <2> QED BY <2>6, <2>8, <2>10
  <1>2. Rules(q) = Rules(p)
    BY DEF SameRules
  <1>3. Middlewares(q) = Middlewares(p)
    BY DEF SameMiddlewares
  <1> HIDE DEF Rules, Middlewares
  <1> QED BY <1>1, <1>2, <1>3

SameEndpoints(d, rule) ==
    /\ DOMAIN d.endpoints = DOMAIN rule.endpoints
    /\ \A i \in DOMAIN rule.endpoints : MeansTheSame(d.endpoints[i], rule.endpoints[i])

LEMMA RulesMean ==
    ASSUME NEW rule, NEW d, NEW key,
           DOMAIN rule = {"name", "endpoints", "binaries"}, DOMAIN d = {"name", "endpoints", "binaries"},
           d.binaries = rule.binaries, NameOr(d.name, key) = NameOr(rule.name, key), SameEndpoints(d, rule)
    PROVE  RuleMeaning(d, key) = RuleMeaning(rule, key)
  <1>1. ASSUME NEW i \in DOMAIN rule.endpoints PROVE MeaningInFile(d.endpoints[i]) = MeaningInFile(rule.endpoints[i])
    <2>1. MeansTheSame(d.endpoints[i], rule.endpoints[i])
      BY DEF SameEndpoints
    <2> QED BY <2>1, SameMeaning
  <1>2. SeqMap(MeaningInFile, d.endpoints) = SeqMap(MeaningInFile, rule.endpoints)
    BY <1>1 DEF SeqMap, SameEndpoints
  <1> QED BY <1>2 DEF RuleMeaning

\* The conversions between the gateway's message and the browser's change
\* nothing that is meant.
LEMMA CarriedPolicyMeans ==
    ASSUME NEW p, IsPolicy(p)
    PROVE  Loosely(Meaning(SandboxPolicy(p))) = Loosely(Meaning(p))
  <1> DEFINE q == SandboxPolicy(p)
  <1>1. q.filesystem = p.filesystem /\ q.landlock = p.landlock /\ q.process = p.process
    BY DEF SandboxPolicy, IsPolicy, IsOptional, Section, Present, Absent
  <1>2. SameRules(q, p)
    <2>1. DOMAIN q.networkPolicies = DOMAIN p.networkPolicies
      BY CarriedPolicy
    <2>2. ASSUME NEW key \in DOMAIN p.networkPolicies
          PROVE  RuleMeaning(q.networkPolicies[key], key) = RuleMeaning(p.networkPolicies[key], key)
      <3> DEFINE rule == p.networkPolicies[key]
                 d == NetworkPolicyRule(rule)
      <3>1. IsRule(rule)
        BY DEF IsPolicy
      <3>2. q.networkPolicies[key] = d
        BY CarriedPolicy
      <3>3. DOMAIN d = {"name", "endpoints", "binaries"} /\ d.name = rule.name /\ d.binaries = rule.binaries
        BY DEF NetworkPolicyRule
      <3> HIDE DEF rule, q
      <3>4. SameEndpoints(d, rule)
        <4>1. /\ DOMAIN d.endpoints = DOMAIN rule.endpoints
              /\ \A i \in DOMAIN rule.endpoints : d.endpoints[i] = PolicyNetworkEndpoint(rule.endpoints[i])
          BY <3>1, CarriedRule
        <4>2. ASSUME NEW i \in DOMAIN rule.endpoints PROVE MeansTheSame(d.endpoints[i], rule.endpoints[i])
          BY <3>1, <4>1, CarriedMeans DEF IsRule
        <4> QED BY <4>1, <4>2 DEF SameEndpoints
      <3> HIDE DEF d
      <3>5. RuleMeaning(d, key) = RuleMeaning(rule, key)
        BY <3>1, <3>3, <3>4, RulesMean DEF IsRule
      <3> QED BY <3>2, <3>5 DEF rule
    <2> QED BY <2>1, <2>2 DEF SameRules
  <1>3. SameMiddlewares(q, p)
    <2>1. q.networkMiddlewares = [key \in DOMAIN p.networkMiddlewares |-> MiddlewareConfig(p.networkMiddlewares[key])]
      BY DEF SandboxPolicy
    <2> HIDE DEF q
    <2>2. ASSUME NEW key \in DOMAIN p.networkMiddlewares
          PROVE  MiddlewareMeaning(MiddlewareConfig(p.networkMiddlewares[key]), key) = MiddlewareMeaning(p.networkMiddlewares[key], key)
      <3> DEFINE m == p.networkMiddlewares[key]
                 d == MiddlewareConfig(m)
      <3>1. DOMAIN m = {"name", "fields"} /\ m.fields \subseteq ToApi(RenamedInMiddleware, DOMAIN RenamedInMiddleware)
        BY DEF IsPolicy, IsMiddleware
      <3>2. DOMAIN d = {"name", "fields"} /\ d.name = m.name /\ d.fields = m.fields
        BY <3>1 DEF MiddlewareConfig
      <3> HIDE DEF m, d
      <3>3. MiddlewareMeaning(d, key) = MiddlewareMeaning(m, key)
        BY <3>1, <3>2 DEF MiddlewareMeaning
      <3> QED BY <3>3 DEF m, d
    <2> QED BY <2>1, <2>2 DEF SameMiddlewares
  <1>5. IsPolicy(q)
    BY CarriedPolicy
  <1> HIDE DEF q
  <1>4. Loosely(Meaning(q)) = Loosely(Meaning(p))
    BY <1>1, <1>2, <1>3, <1>5, PoliciesMean
  <1> QED BY <1>4 DEF q

\* A rule that is written and read back.
LEMMA RuleBack ==
    ASSUME NEW rule, IsRule(rule), AllOf(EndpointWrites, rule.endpoints), NEW key
    PROVE  LET d == ReadRule(key, WriteRule(rule)) IN
           IsRule(d) /\ RuleMeaning(d, key) = RuleMeaning(rule, key)
  <1> DEFINE eps == rule.endpoints
             w == WriteRule(rule)
             d == ReadRule(key, w)
  <1>1. IsList(eps) /\ \A i \in DOMAIN eps : IsEndpoint(eps[i]) /\ EndpointWrites(eps[i])
    BY DEF IsRule, AllOf
  <1>2. w.name = rule.name /\ w.binaries = rule.binaries /\ w.endpoints = [i \in DOMAIN eps |-> WriteEndpoint(eps[i])]
    BY DEF WriteRule, SeqMap
  <1> HIDE DEF w
  <1>3. /\ DOMAIN d = {"name", "endpoints", "binaries"} /\ d.binaries = w.binaries
        /\ d.name = (IF w.name # "" THEN w.name ELSE key)
        /\ d.endpoints = [i \in DOMAIN w.endpoints |-> ReadEndpoint(w.endpoints[i])]
    BY DEF ReadRule, SeqMap
  <1>4. Len(eps) \in Nat /\ DOMAIN eps = 1 .. Len(eps)
    BY <1>1, ListIs
  <1> HIDE DEF eps, d
  <1>5. DOMAIN d.endpoints = DOMAIN eps /\ \A i \in DOMAIN eps : d.endpoints[i] = ReadEndpoint(WriteEndpoint(eps[i]))
    BY <1>2, <1>3
  <1>6. IsList(d.endpoints)
    <2>1. d.endpoints = [i \in 1 .. Len(eps) |-> d.endpoints[i]]
      BY <1>2, <1>3, <1>4
    <2> QED BY <1>4, <2>1, IsAList
  <1>7. ASSUME NEW i \in DOMAIN eps
        PROVE  IsEndpoint(d.endpoints[i]) /\ MeansTheSame(d.endpoints[i], eps[i])
    BY <1>1, <1>5, EndpointBack
  <1>8. IsRule(d)
    BY <1>3, <1>5, <1>6, <1>7 DEF IsRule
  <1>9. RuleMeaning(d, key) = RuleMeaning(rule, key)
    <2>1. SameEndpoints(d, rule)
      BY <1>5, <1>7 DEF SameEndpoints, eps
    <2>2. NameOr(d.name, key) = NameOr(rule.name, key) /\ d.binaries = rule.binaries
      BY <1>2, <1>3 DEF NameOr
    <2>3. DOMAIN rule = {"name", "endpoints", "binaries"} /\ DOMAIN d = {"name", "endpoints", "binaries"}
      BY <1>3 DEF IsRule
    <2> QED BY <2>1, <2>2, <2>3, RulesMean
  <1> QED BY <1>8, <1>9 DEF d, w

LEMMA LandlockBack ==
    ASSUME NEW l, IsOptional(l)
    PROVE  IsOptional(ReadLandlock(l)) /\ ReadLandlock(ReadLandlock(l)) = ReadLandlock(l)
  BY DEF IsOptional, ReadLandlock, Present, Absent

LEMMA MiddlewareBack ==
    ASSUME NEW m, IsMiddleware(m), NEW key
    PROVE  LET d == ReadMiddleware(key, WriteMiddleware(m)) IN
           IsMiddleware(d) /\ MiddlewareMeaning(d, key) = MiddlewareMeaning(m, key)
  <1> DEFINE w == WriteMiddleware(m)
             d == ReadMiddleware(key, w)
  <1>1. w.name = m.name /\ w.fields = ToFile(RenamedInMiddleware, m.fields)
    BY DEF WriteMiddleware
  <1> HIDE DEF w
  <1>2. DOMAIN d = {"name", "fields"} /\ d.name = (IF w.name # "" THEN w.name ELSE key) /\ d.fields = ToApi(RenamedInMiddleware, w.fields)
    BY DEF ReadMiddleware
  <1> HIDE DEF d
  <1>3. DOMAIN m = {"name", "fields"} /\ m.fields \subseteq ToApi(RenamedInMiddleware, DOMAIN RenamedInMiddleware)
    BY DEF IsMiddleware
  <1>4. d.fields = m.fields
    BY <1>1, <1>2, <1>3, NamesBack
  <1>5. NameOr(d.name, key) = NameOr(m.name, key)
    BY <1>1, <1>2 DEF NameOr
  <1>6. IsMiddleware(d) /\ MiddlewareMeaning(d, key) = MiddlewareMeaning(m, key)
    BY <1>2, <1>3, <1>4, <1>5 DEF IsMiddleware, MiddlewareMeaning
  <1> QED BY <1>6 DEF d, w

\* A policy that can be said in a file is read from it as it was meant, but for
\* tools that have parameters nested below `name`.
LEMMA DocumentBack ==
    ASSUME NEW p, IsPolicy(p), PolicyWrites(p)
    PROVE  LET q == PolicyFromDocument(PolicyToDocument(p)) IN
           IsPolicy(q) /\ Loosely(Meaning(q)) = Loosely(Meaning(p))
  <1> DEFINE doc == PolicyToDocument(p)
             q == PolicyFromDocument(doc)
             rules == p.networkPolicies
             mws == p.networkMiddlewares
  <1>1. /\ doc.network_policies = [key \in DOMAIN rules |-> WriteRule(rules[key])]
        /\ doc.network_middlewares = [key \in DOMAIN mws |-> WriteMiddleware(mws[key])]
        /\ doc.filesystem_policy = p.filesystem /\ doc.landlock = ReadLandlock(p.landlock)
        /\ doc.process = IF p.process.set /\ p.process.value = {} THEN Absent ELSE p.process
    BY DEF PolicyToDocument
  <1> HIDE DEF doc
  <1>2. /\ DOMAIN q = {"version", "filesystem", "landlock", "process", "unknown", "networkPolicies", "networkMiddlewares"}
        /\ q.filesystem = doc.filesystem_policy /\ q.landlock = ReadLandlock(doc.landlock) /\ q.process = doc.process
        /\ q.networkPolicies = [key \in DOMAIN doc.network_policies |-> ReadRule(key, doc.network_policies[key])]
        /\ q.networkMiddlewares = [key \in DOMAIN doc.network_middlewares |-> ReadMiddleware(key, doc.network_middlewares[key])]
    BY DEF PolicyFromDocument
  <1> HIDE DEF q
  <1>3. /\ DOMAIN q.networkPolicies = DOMAIN rules /\ IsMap(q.networkPolicies)
        /\ \A key \in DOMAIN rules : q.networkPolicies[key] = ReadRule(key, WriteRule(rules[key]))
    BY <1>1, <1>2 DEF IsMap
  <1>4. /\ DOMAIN q.networkMiddlewares = DOMAIN mws /\ IsMap(q.networkMiddlewares)
        /\ \A key \in DOMAIN mws : q.networkMiddlewares[key] = ReadMiddleware(key, WriteMiddleware(mws[key]))
    BY <1>1, <1>2 DEF IsMap
  <1>5. ASSUME NEW key \in DOMAIN rules
        PROVE  /\ IsRule(q.networkPolicies[key])
               /\ RuleMeaning(q.networkPolicies[key], key) = RuleMeaning(rules[key], key)
    <2>1. IsRule(rules[key]) /\ AllOf(EndpointWrites, rules[key].endpoints)
      BY DEF IsPolicy, PolicyWrites
    <2>2. q.networkPolicies[key] = ReadRule(key, WriteRule(rules[key]))
      BY <1>3
    <2> HIDE DEF rules
    <2> QED BY <2>1, <2>2, RuleBack
  <1>6. ASSUME NEW key \in DOMAIN mws
        PROVE  /\ IsMiddleware(q.networkMiddlewares[key])
               /\ MiddlewareMeaning(q.networkMiddlewares[key], key) = MiddlewareMeaning(mws[key], key)
    <2>1. IsMiddleware(mws[key])
      BY DEF IsPolicy
    <2>2. q.networkMiddlewares[key] = ReadMiddleware(key, WriteMiddleware(mws[key]))
      BY <1>4
    <2> HIDE DEF mws
    <2> QED BY <2>1, <2>2, MiddlewareBack
  <1>7. IsOptional(p.filesystem) /\ IsOptional(p.landlock) /\ IsOptional(p.process)
    BY DEF IsPolicy
  <1>8. q.landlock = ReadLandlock(p.landlock) /\ IsOptional(q.landlock) /\ ReadLandlock(q.landlock) = ReadLandlock(p.landlock)
    BY <1>1, <1>2, <1>7, LandlockBack
  <1>9. IsOptional(q.process) /\ ProcessMeaning(q.process) = ProcessMeaning(p.process)
    <2>1. CASE p.process.set /\ p.process.value = {}
      BY <1>1, <1>2, <2>1 DEF IsOptional, ProcessMeaning, Absent
    <2>2. CASE ~(p.process.set /\ p.process.value = {})
      <3>1. q.process = p.process
        BY <1>1, <1>2, <2>2
      <3> QED BY <1>7, <3>1
    <2> QED BY <2>1, <2>2
  <1>10. IsPolicy(q)
    BY <1>1, <1>2, <1>3, <1>4, <1>5, <1>6, <1>7, <1>8, <1>9 DEF IsPolicy
  <1>11. Loosely(Meaning(q)) = Loosely(Meaning(p))
    <2>1. SameRules(q, p)
      BY <1>3, <1>5 DEF SameRules
    <2>2. SameMiddlewares(q, p)
      BY <1>4, <1>6 DEF SameMiddlewares
    <2> QED BY <1>1, <1>2, <1>8, <1>9, <1>10, <2>1, <2>2, PoliciesMean
  <1> QED BY <1>10, <1>11 DEF q, doc

-----------------------------------------------------------------------------
(***************************************************************************)
(* What the editor holds: policies, and texts that read as policies.       *)
(***************************************************************************)
ReadsAsPolicy(text) == ReadPolicyText(text) # None => IsPolicy(ReadPolicyText(text))
TextMeans(text, meaning) == ReadPolicyText(text) # None => Loosely(Meaning(ReadPolicyText(text))) = Loosely(meaning)

\* What a policy is written as reads as a policy, in either format, and as one
\* that means the same.
LEMMA WrittenReads ==
    ASSUME NEW p, IsPolicy(p), NEW format, PolicyToText(p, format) # None
    PROVE  /\ ReadsAsPolicy(PolicyToText(p, format))
           /\ TextMeans(PolicyToText(p, format), Meaning(p))
  <1> DEFINE t == PolicyToText(p, format)
             doc == PolicyToDocument(p)
  <1>1. CASE format = "json"
    <2>1. t = ApiText(p)
      BY <1>1 DEF PolicyToText
    <2>2. ReadPolicyText(ApiText(p)) = p
      BY DEF ReadPolicyText, ApiText
    <2> QED BY <2>1, <2>2 DEF ReadsAsPolicy, TextMeans
  <1>2. CASE format # "json" /\ PolicyWrites(p)
    <2>1. t = FileText(doc)
      BY <1>2 DEF PolicyToText
    <2>2. IsPolicy(PolicyFromDocument(doc)) /\ Loosely(Meaning(PolicyFromDocument(doc))) = Loosely(Meaning(p))
      BY <1>2, DocumentBack
    <2> HIDE DEF doc
    <2>3. ReadPolicyText(FileText(doc)) = FromDocument(FileText(doc))
      BY DEF ReadPolicyText, FileText
    <2>4. FromDocument(FileText(doc)) = None \/ FromDocument(FileText(doc)) = PolicyFromDocument(doc)
      BY DEF FromDocument, FileText
    <2> QED BY <2>1, <2>2, <2>3, <2>4 DEF ReadsAsPolicy, TextMeans
  <1>3. CASE format # "json" /\ ~PolicyWrites(p)
    BY <1>3 DEF PolicyToText
  <1> QED BY <1>1, <1>2, <1>3

LEMMA DocumentOfReads ==
    ASSUME NEW p, IsPolicy(p), NEW format
    PROVE  ReadsAsPolicy(DocumentOf(p, format)) /\ (TextMeans(DocumentOf(p, format), Meaning(p)))
  <1>1. PolicyToText(p, "json") = ApiText(p)
    BY DEF PolicyToText
  <1>2. ApiText(p) # None
    BY DEF ApiText, None
  <1> QED BY <1>1, <1>2, WrittenReads DEF DocumentOf

\* Where a save has not been answered yet.
Unanswered == {"sandbox", "refetch", "policy", "sent"}

\* The gateway and the page hold policies, and so does an answer on its way;
\* the document is a text that reads as one if as anything, and the policy that
\* is saved is one.
PoliciesAreHeld ==
    /\ IsPolicy(gw.policy)
    /\ DOMAIN shown = {"revision", "policy", "global"} /\ IsPolicy(shown.policy)
    /\ poll # None => IsPolicy(poll.policy)
    /\ draft # None => DOMAIN draft = {"text", "base"} /\ ReadsAsPolicy(draft.text)
    /\ save.at \in Unanswered => IsPolicy(save.policy)

\* The removal of an endpoint that is on its way is the one of the question.
AsAsked(j) ==
    /\ EndpointPorts(merge.rule.endpoints[j]) # <<>>
    /\ merge.ops = RemoveEndpointOperations(merge.key, merge.rule.endpoints[j])
    /\ merge.effect = EndpointRemovalEffect(merge.rule, merge.rule.endpoints[j])

OperationsAre(ops) ==
    /\ Len(ops) \in Nat
    /\ \A i \in 1 .. Len(ops) : IsOperation(ops[i])

MergeIsAsAsked ==
    merge # None =>
        /\ OperationsAre(merge.ops)
        /\ merge.ops[1].kind = "removeEndpoint" => \E j \in DOMAIN merge.rule.endpoints : AsAsked(j)

LEMMA ShownKeeps ==
    ASSUME PoliciesAreHeld, NEW revision, NEW policy, IsPolicy(policy),
           shown' = [shown EXCEPT !.revision = revision, !.policy = policy]
    PROVE  DOMAIN shown' = {"revision", "policy", "global"} /\ IsPolicy(shown'.policy)
  BY DEF PoliciesAreHeld

\* The draft that is made of the policy that is shown.
LEMMA DraftReads ==
    ASSUME PoliciesAreHeld, NEW format, DraftOfShown(format)
    PROVE  draft' # None => DOMAIN draft' = {"text", "base"} /\ ReadsAsPolicy(draft'.text)
  <1>1. DOMAIN draft' = {"text", "base"} /\ draft'.text = DocumentOf(shown.policy, format)
    BY DEF DraftOfShown
  <1>2. ReadsAsPolicy(DocumentOf(shown.policy, format))
    BY DocumentOfReads DEF PoliciesAreHeld
  <1> QED BY <1>1, <1>2

LEMMA DocumentStep ==
    ASSUME PoliciesAreHeld,
           \/ StartEditing \/ Type \/ Choose \/ KeepDocument \/ DiscardDocument \/ Cancel
    PROVE  PoliciesAreHeld'
  <1> SUFFICES draft' # None => DOMAIN draft' = {"text", "base"} /\ ReadsAsPolicy(draft'.text)
    BY DEF PoliciesAreHeld, StartEditing, Type, Choose, KeepDocument, DiscardDocument, Cancel
  <1>1. CASE StartEditing
    BY <1>1, DraftReads DEF StartEditing
  <1>2. CASE Type
    <2>1. PICK text \in Typed : draft' = [draft EXCEPT !.text = text]
      BY <1>2 DEF Type
    <2>2. DOMAIN draft' = {"text", "base"} /\ draft'.text = text
      BY <1>2, <2>1 DEF Type, PoliciesAreHeld
    <2>3. ReadsAsPolicy(text)
      <3>1. ReadPolicyText(text) # None => ReadPolicyText(text) \in InPlay
        BY DEF InPlay
      <3> QED BY <3>1, PoliciesAssumption DEF ReadsAsPolicy
    <2> QED BY <2>2, <2>3
  <1>3. CASE Choose
    <2> DEFINE parsed == ReadPolicyText(draft.text)
               other == IF PolicyTextFormat(draft.text) = "yaml" THEN "json" ELSE "yaml"
               text == PolicyToText(parsed, other)
    <2>1. draft # None /\ parsed # None /\ text # None /\ draft' = [draft EXCEPT !.text = text]
      BY <1>3 DEF Choose
    <2>2. IsPolicy(parsed)
      BY <2>1 DEF PoliciesAreHeld, ReadsAsPolicy
    <2> HIDE DEF parsed, other
    <2>3. ReadsAsPolicy(text)
      BY <2>1, <2>2, WrittenReads
    <2> HIDE DEF text
    <2>4. DOMAIN draft' = {"text", "base"} /\ draft'.text = text
      BY <2>1 DEF PoliciesAreHeld
    <2> QED BY <2>3, <2>4
  <1>4. CASE KeepDocument
    <2>1. draft # None /\ draft' = [draft EXCEPT !.base = shown.revision]
      BY <1>4 DEF KeepDocument
    <2>2. DOMAIN draft' = {"text", "base"} /\ draft'.text = draft.text /\ ReadsAsPolicy(draft.text)
      BY <2>1 DEF PoliciesAreHeld
    <2> QED BY <2>2
  <1>5. CASE DiscardDocument
    BY <1>5, DraftReads DEF DiscardDocument
  <1>6. CASE Cancel
    BY <1>6 DEF Cancel
  <1> QED BY <1>1, <1>2, <1>3, <1>4, <1>5, <1>6

LEMMA StoredPolicy ==
    ASSUME EditorInv, PoliciesAreHeld, NEW policy, IsPolicy(policy), gw' = StoredAs(policy)
    PROVE  IsPolicy(gw'.policy)
  BY StoredCounts DEF EditorInv

LEMMA PoliciesStep ==
    EditorInv /\ PoliciesAreHeld /\ MergeIsAsAsked /\ [EditorNext]_editorVars => PoliciesAreHeld'
  <1> SUFFICES ASSUME EditorInv, PoliciesAreHeld, MergeIsAsAsked, [EditorNext]_editorVars PROVE PoliciesAreHeld'
    OBVIOUS
  <1>0. Refetched \in {None, poll}
    BY DEF Refetched
  <1>1. CASE UNCHANGED <<gw, shown, draft, save>> /\ poll' \in {None, poll}
    BY <1>1 DEF PoliciesAreHeld
  <1>2. CASE OthersReplace
    <2>1. PICK p \in OtherPolicies : gw' = StoredAs(p)
      BY <1>2 DEF OthersReplace
    <2>2. IsPolicy(gw'.policy)
      BY <2>1, PoliciesAssumption, StoredPolicy DEF InPlay
    <2> QED BY <1>2, <2>2 DEF OthersReplace, PoliciesAreHeld
  <1>3. CASE OthersTouch \/ SetOrDeleteGlobalPolicy
    <2>1. gw'.policy = gw.policy /\ UNCHANGED <<shown, poll, draft, save>>
      BY <1>3 DEF OthersTouch, SetOrDeleteGlobalPolicy, EditorInv, GatewayCounts
    <2> QED BY <2>1 DEF PoliciesAreHeld
  <1>4. CASE PollEffective
    <2>1. DOMAIN shown' = {"revision", "policy", "global"} /\ IsPolicy(shown'.policy)
      BY <1>4 DEF PollEffective, PoliciesAreHeld
    <2> QED BY <1>4, <2>1 DEF PollEffective, PoliciesAreHeld
  <1>14. CASE AnswerPolicy
    <2>1. IsPolicy(MarshalSDKPolicy(gw.policy))
      BY CarriedPolicy DEF PoliciesAreHeld, MarshalSDKPolicy
    <2>2. poll'.policy = MarshalSDKPolicy(gw.policy) /\ UNCHANGED <<gw, shown, draft, save>>
      BY <1>14 DEF AnswerPolicy
    <2> QED BY <2>1, <2>2 DEF PoliciesAreHeld
  <1>15. CASE PolicyArrives
    <2>1. /\ poll # None /\ poll' = None /\ UNCHANGED <<gw, draft>>
          /\ shown' = [shown EXCEPT !.revision = poll.revision, !.policy = poll.policy]
          /\ save' = save \/ save' = Idle \/ (save.at = "policy" /\ save' = [save EXCEPT !.at = "sent"])
      BY <1>15 DEF PolicyArrives
    <2>2. DOMAIN shown' = {"revision", "policy", "global"} /\ IsPolicy(shown'.policy)
      BY <2>1, ShownKeeps DEF PoliciesAreHeld
    <2>3. save'.at \in Unanswered => IsPolicy(save'.policy)
      <3>1. CASE save' = save \/ save' = Idle
        BY <3>1 DEF PoliciesAreHeld, Unanswered, Idle
      <3>2. CASE save.at = "policy" /\ save' = [save EXCEPT !.at = "sent"]
        <4>1. IsPolicy(save.policy) /\ DOMAIN save = SaveFields
          BY <3>2 DEF PoliciesAreHeld, Unanswered, EditorInv, SaveIsOfItsBase, Idle
        <4> QED BY <3>2, <4>1 DEF SaveFields
      <3> QED BY <2>1, <3>1, <3>2
    <2> QED BY <2>1, <2>2, <2>3 DEF PoliciesAreHeld
  <1>16. CASE PolicyReadFails
    <2>1. UNCHANGED <<gw, shown, draft>> /\ poll' = None /\ save' \in {save, Idle}
      BY <1>16 DEF PolicyReadFails
    <2> QED BY <2>1 DEF PoliciesAreHeld, Unanswered, Idle
  <1>5. CASE StartEditing \/ Type \/ Choose \/ KeepDocument \/ DiscardDocument \/ Cancel
    BY <1>5, DocumentStep
  <1>6. CASE Replace
    <2>1. draft # None /\ ReadPolicyText(draft.text) # None /\ save'.policy = ReadPolicyText(draft.text)
      BY <1>6 DEF Replace, CannotReplace
    <2>2. IsPolicy(save'.policy)
      BY <2>1 DEF PoliciesAreHeld, ReadsAsPolicy
    <2> QED BY <1>6, <2>2 DEF Replace, PoliciesAreHeld
  <1>7. CASE ReadSandbox \/ RefetchPolicy
    <2>1. save'.policy = save.policy /\ IsPolicy(save.policy)
      BY <1>7, SaveGoesOn DEF PoliciesAreHeld, Unanswered
    <2>2. UNCHANGED <<gw, shown, draft>> /\ poll' \in {None, poll}
      BY <1>0, <1>7 DEF ReadSandbox, RefetchPolicy
    <2> QED BY <2>1, <2>2 DEF PoliciesAreHeld
  <1>9. CASE SandboxReadFails \/ Replaced \/ NotReplaced
    <2>1. save' = Idle /\ UNCHANGED <<gw, shown>> /\ (UNCHANGED draft \/ draft' = None) /\ poll' \in {None, poll}
      BY <1>0, <1>9 DEF SandboxReadFails, Replaced, NotReplaced
    <2> QED BY <2>1 DEF PoliciesAreHeld, Idle, Unanswered
  <1>10. CASE UpdateSandboxPolicy
    <2> DEFINE policy == ParseSDKPolicy(save.policy)
    <2>1. save.at = "sent" /\ UNCHANGED <<shown, poll, draft>>
      BY <1>10 DEF UpdateSandboxPolicy
    <2>2. PICK at \in {"stored", "refused"} : save' = [save EXCEPT !.at = at]
      BY <1>10 DEF UpdateSandboxPolicy
    <2>3. save'.at \notin Unanswered
      BY <2>1, <2>2, SaveMovesTo DEF Unanswered
    <2>4. UNCHANGED gw \/ (policy # None /\ gw' = StoredAs(policy))
      BY <1>10 DEF UpdateSandboxPolicy
    <2>5. policy # None => IsPolicy(policy)
      BY <2>1, CarriedPolicy DEF ParseSDKPolicy, PoliciesAreHeld, Unanswered
    <2> HIDE DEF policy
    <2>6. IsPolicy(gw'.policy)
      BY <2>4, <2>5, StoredPolicy DEF PoliciesAreHeld
    <2> QED BY <2>1, <2>3, <2>6 DEF PoliciesAreHeld
  <1>11. CASE RequestFails
    <2>1. UNCHANGED <<gw, shown, poll, draft>> /\ save'.at = "refused"
      BY <1>11, SaveMovesTo DEF RequestFails
    <2> QED BY <2>1 DEF PoliciesAreHeld, Unanswered
  <1>12. CASE MergeSandboxPolicy
    <2> DEFINE policy == MergedAll(gw.policy, merge.ops)
    <2>1. merge # None /\ UNCHANGED <<shown, draft, save>> /\ poll' \in {None, poll}
      BY <1>0, <1>12 DEF MergeSandboxPolicy
    <2>2. UNCHANGED gw \/ (policy # None /\ gw' = StoredAs(policy))
      BY <1>12 DEF MergeSandboxPolicy
    <2>3. policy = None \/ IsPolicy(policy)
      BY <2>1, AllMergedIs DEF MergeIsAsAsked, OperationsAre, PoliciesAreHeld
    <2> HIDE DEF policy
    <2>4. IsPolicy(gw'.policy)
      BY <2>2, <2>3, StoredPolicy DEF PoliciesAreHeld
    <2> QED BY <2>1, <2>4 DEF PoliciesAreHeld
  <1>13. CASE \/ RemoveRule \/ AddEndpoint \/ AskRemoval \/ AskL7Rule \/ CloseDialog
              \/ ConfirmRemoval \/ SubmitL7Rule \/ UNCHANGED editorVars
    BY <1>1, <1>13 DEF RemoveRule, AddEndpoint, AskRemoval, AskL7Rule, CloseDialog, ConfirmRemoval, SubmitL7Rule, editorVars
  <1> QED
    BY <1>2, <1>3, <1>4, <1>5, <1>6, <1>7, <1>9, <1>10, <1>11, <1>12, <1>13, <1>14, <1>15, <1>16 DEF EditorNext

\* One operation at a time, none of them the removal of an endpoint.
LEMMA SentAlone ==
    ASSUME NEW op, NEW key, IsOperation(op), op.kind # "removeEndpoint",
           SendOperations(<<op>>, key)
    PROVE  MergeIsAsAsked'
  <1>1. merge'.ops = <<op>>
    BY DEF SendOperations
  <1>2. merge'.ops[1] = op /\ Len(merge'.ops) = 1
    BY <1>1
  <1>3. OperationsAre(merge'.ops)
    BY <1>2 DEF OperationsAre
  <1> QED BY <1>2, <1>3 DEF MergeIsAsAsked

\* The rule of a new endpoint.
LEMMA FormIsARule ==
    ASSUME NEW form \in Forms
    PROVE  IsRule(AddEndpointOperation(form)[1].rule)
  <1> DEFINE e == EndpointFromForm(form)
             r == AddEndpointOperation(form)[1].rule
  <1>1. form.port \in Nat /\ form.access \in Nat /\ form.enforcement \in Nat /\ form.fields \subseteq CarriedFields
    BY FormsAssumption
  <1>2. /\ DOMAIN e = {"host", "path", "protocol", "fields", "port", "ports", "tls", "enforcement", "access", "rules",
                       "denyRules", "maxBodyBytes", "mcp", "marks"}
        /\ e.port = form.port /\ e.ports = <<form.port>> /\ e.tls = 0
        /\ e.enforcement \in {0, form.enforcement} /\ e.access \in {0, form.access}
        /\ e.fields \subseteq form.fields /\ e.mcp = Absent /\ e.rules = <<>> /\ e.denyRules = <<>>
    BY DEF EndpointFromForm, SupportedFields
  <1> HIDE DEF e
  <1>8. IsOptional(e.mcp) /\ ~e.mcp.set
    BY <1>2 DEF IsOptional, Absent
  <1>9. AreMatchers(e.rules) /\ AreMatchers(e.denyRules)
    BY <1>2 DEF AreMatchers, IsList
  <1>10. e.ports \in Seq(Nat)
    BY <1>1, <1>2
  <1>3. IsEndpoint(e)
    BY <1>1, <1>2, <1>8, <1>9, <1>10 DEF IsEndpoint, CarriedFields
  <1>4. DOMAIN r = {"name", "endpoints", "binaries"} /\ r.endpoints = <<e>>
    BY DEF AddEndpointOperation, e
  <1> HIDE DEF r
  <1>5. DOMAIN r.endpoints = {1} /\ r.endpoints[1] = e
    BY <1>4
  <1>6. IsList(r.endpoints)
    BY <1>4, <1>5 DEF IsList
  <1>7. IsRule(r)
    BY <1>3, <1>4, <1>5, <1>6 DEF IsRule
  <1> QED BY <1>7 DEF r

\* The matcher of a new request rule.
LEMMA NewMatcher ==
    AreMatchers(<<[method |-> "GET", path |-> "/**", fields |-> {}, params |-> <<>>]>>)
  <1> DEFINE m == [method |-> "GET", path |-> "/**", fields |-> {}, params |-> <<>>]
             s == <<m>>
  <1>1. DOMAIN <<>> = {}
    OBVIOUS
  <1>2. m.params = <<>> /\ m.fields = {}
    OBVIOUS
  <1>3. IsMap(m) /\ IsMap(<<>>) /\ DOMAIN m = {"method", "path", "fields", "params"}
    BY DEF IsMap
  <1> HIDE DEF m
  <1>4. IsMatcher(m)
    BY <1>1, <1>2, <1>3 DEF IsMatcher
  <1>5. IsList(s) /\ DOMAIN s = {1} /\ s[1] = m
    BY DEF IsList
  <1> HIDE DEF s
  <1>6. AreMatchers(s)
    BY <1>4, <1>5 DEF AreMatchers
  <1> QED BY <1>6 DEF s, m

\* The removals that a confirmation sends.
LEMMA RemovalsAre ==
    ASSUME NEW e, IsEndpoint(e), NEW key
    PROVE  OperationsAre(RemoveEndpointOperations(key, e))
  <1> DEFINE ports == EndpointPorts(e)
             ops == RemoveEndpointOperations(key, e)
             n == Len(ports)
  <1>1. n \in Nat /\ DOMAIN ports = 1 .. n
    BY EndpointPortsAre, ListIs
  <1>2. ops = [i \in 1 .. n |-> [kind |-> "removeEndpoint", ruleName |-> key, host |-> e.host, port |-> ports[i]]]
    BY <1>1 DEF RemoveEndpointOperations
  <1> HIDE DEF ports, ops, n
  <1>3. ops = [i \in 1 .. n |-> ops[i]] /\ \A i \in 1 .. n : ops[i].kind = "removeEndpoint"
    BY <1>2
  <1>4. Len(ops) = n
    BY <1>1, <1>3, IsAList
  <1>5. OperationsAre(ops)
    BY <1>1, <1>3, <1>4 DEF OperationsAre, IsOperation, Kinds
  <1> QED BY <1>5 DEF ops

LEMMA MergeStep ==
    EditorInv /\ PoliciesAreHeld /\ MergeIsAsAsked /\ [EditorNext]_editorVars => MergeIsAsAsked'
  <1> SUFFICES ASSUME PoliciesAreHeld, MergeIsAsAsked, [EditorNext]_editorVars PROVE MergeIsAsAsked'
    OBVIOUS
  <1>1. CASE UNCHANGED merge
    BY <1>1 DEF MergeIsAsAsked, OperationsAre, AsAsked
  <1>2. CASE RemoveRule
    <2>1. PICK key \in OwnRules(shown.policy) : SendOperations(RemoveRuleOperation(key), key)
      BY <1>2 DEF RemoveRule
    <2>2. SendOperations(<<[kind |-> "removeRule", ruleName |-> key]>>, key)
      BY <2>1 DEF RemoveRuleOperation
    <2> QED BY <2>2, SentAlone DEF IsOperation, Kinds
  <1>3. CASE AddEndpoint
    <2>1. PICK form \in Forms : SendOperations(AddEndpointOperation(form), AddEndpointOperation(form)[1].ruleName)
      BY <1>3 DEF AddEndpoint
    <2> DEFINE op == AddEndpointOperation(form)[1]
    <2>2. AddEndpointOperation(form) = <<op>> /\ op.kind = "addRule"
      BY DEF AddEndpointOperation
    <2>3. IsRule(op.rule)
      BY FormIsARule
    <2> HIDE DEF op
    <2>4. SendOperations(<<op>>, op.ruleName)
      BY <2>1, <2>2 DEF op
    <2> QED BY <2>2, <2>3, <2>4, SentAlone DEF IsOperation, Kinds
  <1>4. CASE ConfirmRemoval
    <2> DEFINE key == dialog.key
               rule == shown.policy.networkPolicies[key]
    <2> PICK j : j = dialog.index
      OBVIOUS
    <2> DEFINE e == rule.endpoints[j]
    <2>1. /\ key \in DOMAIN shown.policy.networkPolicies /\ j \in DOMAIN rule.endpoints /\ EndpointPorts(e) # <<>>
          /\ merge' = [ops |-> RemoveEndpointOperations(key, e), key |-> key, rule |-> rule,
                       effect |-> EndpointRemovalEffect(rule, e)]
      BY <1>4 DEF ConfirmRemoval, AskedRule, OwnRules
    <2>2. IsEndpoint(e)
      BY <2>1 DEF PoliciesAreHeld, IsPolicy, IsRule
    <2> HIDE DEF key, rule
    <2>3. OperationsAre(merge'.ops)
      BY <2>1, <2>2, RemovalsAre
    <2>4. merge'.rule = rule /\ AsAsked(j)'
      BY <2>1 DEF AsAsked
    <2> QED BY <2>1, <2>3, <2>4 DEF MergeIsAsAsked
  <1>5. CASE SubmitL7Rule
    <2>1. PICK kind \in {"allow", "deny"} :
              SendOperations(AddL7RuleOperation(kind, dialog.key, AskedRule, dialog.endpoint), dialog.key)
      BY <1>5 DEF SubmitL7Rule
    <2>2. PICK op : /\ AddL7RuleOperation(kind, dialog.key, AskedRule, dialog.endpoint) = <<op>>
                    /\ IsOperation(op) /\ op.kind # "removeEndpoint"
      <3> DEFINE matchers == <<[method |-> "GET", path |-> "/**", fields |-> {}, params |-> <<>>]>>
                 target == L7RuleTargetOf(dialog.key, AskedRule, dialog.endpoint)
                 allow == [kind |-> "addAllowRules", target |-> target, rules |-> matchers]
                 deny == [kind |-> "addDenyRules", target |-> target, denyRules |-> matchers]
                 op == IF kind = "allow" THEN allow ELSE deny
      <3>1. AddL7RuleOperation(kind, dialog.key, AskedRule, dialog.endpoint) = <<op>>
        BY DEF AddL7RuleOperation
      <3>2. AreMatchers(matchers)
        BY NewMatcher
      <3> HIDE DEF matchers, target
      <3>3. IsOperation(op) /\ op.kind # "removeEndpoint"
        BY <3>2 DEF IsOperation, Kinds
      <3> HIDE DEF op
      <3> QED BY <3>1, <3>3
    <2> QED BY <2>1, <2>2, SentAlone
  <1>6. CASE MergeSandboxPolicy
    <2>1. merge' = None
      BY <1>6 DEF MergeSandboxPolicy
    <2> QED BY <2>1 DEF MergeIsAsAsked
  <1> QED
    BY <1>1, <1>2, <1>3, <1>4, <1>5, <1>6
    DEF EditorNext, editorVars, OthersReplace, OthersTouch, SetOrDeleteGlobalPolicy, AnswerPolicy, PolicyArrives, PolicyReadFails, PollEffective,
        StartEditing, Type, Choose, KeepDocument, DiscardDocument, Cancel, Replace, ReadSandbox, SandboxReadFails, RefetchPolicy,
        UpdateSandboxPolicy, RequestFails, Replaced, NotReplaced, AskRemoval, AskL7Rule, CloseDialog

LEMMA InitPolicies == EditorInit => PoliciesAreHeld /\ MergeIsAsAsked
  <1> SUFFICES ASSUME EditorInit PROVE PoliciesAreHeld /\ MergeIsAsAsked
    OBVIOUS
  <1>1. IsPolicy(Created) /\ IsPolicy(MarshalSDKPolicy(Created))
    BY PoliciesAssumption, CarriedPolicy DEF MarshalSDKPolicy, InPlay
  <1>2. /\ gw.policy = Created /\ shown.policy = MarshalSDKPolicy(Created)
        /\ DOMAIN shown = {"revision", "policy", "global"} /\ poll = None /\ draft = None /\ save.at = "idle" /\ merge = None
    BY DEF EditorInit, Idle
  <1> QED BY <1>1, <1>2 DEF PoliciesAreHeld, MergeIsAsAsked, Unanswered

LEMMA PoliciesInvariant == EditorSpec => [](PoliciesAreHeld /\ MergeIsAsAsked)
  <1>1. (PoliciesAreHeld /\ MergeIsAsAsked) /\ EditorInv /\ [EditorNext]_editorVars => (PoliciesAreHeld /\ MergeIsAsAsked)'
    BY PoliciesStep, MergeStep
  <1> QED BY <1>1, InitPolicies, EditorInvariant, PTL DEF EditorSpec

\* For any policies, endpoints and ports, and whatever else is written and
\* sent: where the rule is still the one that was shown, a removal leaves every
\* endpoint the ports that the question said it keeps, drops those it said are
\* removed altogether and no other, and drops the rule just when it said so
\* (PolicyRuleEditor/utils.ts, endpointRemovalEffect).
THEOREM RemovalsAreAsShown == EditorSpec => RemovalIsAsShown
  <1> DEFINE P == /\ merge # None /\ merge' = None /\ gw'.revision # gw.revision
                  /\ merge.ops[1].kind = "removeEndpoint"
                  /\ merge.key \in DOMAIN gw.policy.networkPolicies
                  /\ merge.rule = MarshalSDKPolicy(gw.policy).networkPolicies[merge.key]
             Q == /\ SeqMap(PortSet, EndpointsLeft(merge.key)) = Only(merge.effect.remainingPorts, merge.effect.kept)
                  /\ merge.effect.removesRule <=> merge.key \notin DOMAIN gw'.policy.networkPolicies
  <1>1. EditorInv /\ PoliciesAreHeld /\ MergeIsAsAsked /\ [EditorNext]_editorVars => (P => Q)
    <2> SUFFICES ASSUME EditorInv, PoliciesAreHeld, MergeIsAsAsked, [EditorNext]_editorVars, P PROVE Q
      OBVIOUS
    <2>1. MergeSandboxPolicy
      <3>1. MergeSandboxPolicy \/ UNCHANGED merge \/ \E ops, key : SendOperations(ops, key) \/ ConfirmRemoval
        BY DEF EditorNext, editorVars, OthersReplace, OthersTouch, SetOrDeleteGlobalPolicy, AnswerPolicy, PolicyArrives, PolicyReadFails, PollEffective,
               StartEditing, Type, Choose, KeepDocument, DiscardDocument, Cancel, Replace, ReadSandbox, SandboxReadFails,
               RefetchPolicy, UpdateSandboxPolicy, RequestFails, Replaced, NotReplaced, AskRemoval, AskL7Rule, CloseDialog,
               RemoveRule, AddEndpoint, SubmitL7Rule
      <3>2. ASSUME NEW ops, NEW key, SendOperations(ops, key) PROVE FALSE
        BY <3>2 DEF SendOperations, None
      <3>3. ASSUME ConfirmRemoval PROVE FALSE
        BY <3>3 DEF ConfirmRemoval, None
      <3> QED BY <3>1, <3>2, <3>3
    <2> DEFINE rule == merge.rule
               key == merge.key
               q == MergedAll(gw.policy, merge.ops)
    <2>2. q # None /\ gw' = StoredAs(q)
      BY <2>1 DEF MergeSandboxPolicy
    <2> HIDE DEF q
    <2>3. gw'.policy = q
      BY <2>2, StoredCounts DEF EditorInv
    <2>4. EndpointsLeft(key) = EndpointsOf(q, key)
      BY <2>3 DEF EndpointsLeft, EndpointsOf
    <2>5. PICK j \in DOMAIN rule.endpoints : AsAsked(j)
      BY DEF MergeIsAsAsked
    <2> DEFINE e == rule.endpoints[j]
    <2>6. IsLeft(EndpointsOf(q, key), rule.endpoints, e.host, PortSet(e)) /\ GoneWhenEmpty(q, key)
      BY <2>5, RemovalLeaves DEF AsAsked, PoliciesAreHeld, q
    <2>7. IsRule(rule)
      BY CarriedPolicy DEF PoliciesAreHeld, MarshalSDKPolicy, IsPolicy
    <2>8. merge.effect = EndpointRemovalEffect(rule, e) /\ EndpointPorts(e) # <<>>
      BY <2>5 DEF AsAsked
    <2> HIDE DEF rule
    <2>9. /\ PortsOf(EndpointsOf(q, key)) = Only(merge.effect.remainingPorts, merge.effect.kept)
          /\ merge.effect.removesRule <=> EndpointsOf(q, key) = <<>>
      BY <2>5, <2>6, <2>7, <2>8, RemovalIsTheEffect
    <2> QED BY <2>3, <2>4, <2>6, <2>9 DEF PortsOf, GoneWhenEmpty
  <1> QED BY <1>1, EditorInvariant, PoliciesInvariant, PTL DEF EditorSpec, RemovalIsAsShown

-----------------------------------------------------------------------------
(***************************************************************************)
(* What was written is stored.                                             *)
(***************************************************************************)

\* The document means what was typed or what editing was started from, if it
\* reads as a policy at all, and the policy that is saved means it too, as far
\* as a file says it.
AsWasWritten ==
    /\ draft # None => TextMeans(draft.text, meant)
    /\ save.at \in Unanswered => Loosely(Meaning(save.policy)) = Loosely(save.meant)

LEMMA InitWritten == EditorInit => AsWasWritten
  BY DEF EditorInit, AsWasWritten, Idle, Unanswered

\* A draft of the policy that is shown means it.
LEMMA DraftMeans ==
    ASSUME PoliciesAreHeld, NEW format, DraftOfShown(format)
    PROVE  TextMeans(draft'.text, meant')
  <1>1. draft'.text = DocumentOf(shown.policy, format) /\ meant' = Meaning(shown.policy)
    BY DEF DraftOfShown
  <1>2. TextMeans(DocumentOf(shown.policy, format), Meaning(shown.policy))
    BY DocumentOfReads DEF PoliciesAreHeld
  <1> QED BY <1>1, <1>2 DEF TextMeans

LEMMA DocumentWritten ==
    ASSUME PoliciesAreHeld, AsWasWritten,
           \/ StartEditing \/ Type \/ Choose \/ KeepDocument \/ DiscardDocument \/ Cancel
    PROVE  draft' # None => TextMeans(draft'.text, meant')
  <1>1. CASE StartEditing
    BY <1>1, DraftMeans DEF StartEditing
  <1>2. CASE Type
    <2>1. PICK text \in Typed : draft' = [draft EXCEPT !.text = text] /\ meant' = MeaningOrNone(ReadPolicyText(text))
      BY <1>2 DEF Type
    <2>2. draft'.text = text
      BY <1>2, <2>1 DEF Type, PoliciesAreHeld
    <2>3. TextMeans(text, meant')
      BY <2>1 DEF TextMeans, MeaningOrNone
    <2> QED BY <2>2, <2>3
  <1>3. CASE Choose
    <2> DEFINE parsed == ReadPolicyText(draft.text)
               other == IF PolicyTextFormat(draft.text) = "yaml" THEN "json" ELSE "yaml"
               text == PolicyToText(parsed, other)
    <2>1. draft # None /\ parsed # None /\ text # None /\ draft' = [draft EXCEPT !.text = text] /\ meant' = meant
      BY <1>3 DEF Choose
    <2>2. IsPolicy(parsed) /\ Loosely(Meaning(parsed)) = Loosely(meant)
      BY <2>1 DEF PoliciesAreHeld, ReadsAsPolicy, AsWasWritten, TextMeans
    <2> HIDE DEF parsed, other
    <2>3. TextMeans(text, Meaning(parsed))
      BY <2>1, <2>2, WrittenReads
    <2> HIDE DEF text
    <2>4. draft'.text = text
      BY <2>1 DEF PoliciesAreHeld
    <2> QED BY <2>1, <2>2, <2>3, <2>4 DEF TextMeans
  <1>4. CASE KeepDocument
    <2>1. draft # None /\ draft' = [draft EXCEPT !.base = shown.revision] /\ meant' = meant
      BY <1>4 DEF KeepDocument
    <2>2. draft'.text = draft.text
      BY <2>1 DEF PoliciesAreHeld
    <2> QED BY <2>1, <2>2 DEF AsWasWritten
  <1>5. CASE DiscardDocument
    BY <1>5, DraftMeans DEF DiscardDocument
  <1>6. CASE Cancel
    BY <1>6 DEF Cancel
  <1> QED BY <1>1, <1>2, <1>3, <1>4, <1>5, <1>6

LEMMA WrittenStep ==
    EditorInv /\ PoliciesAreHeld /\ AsWasWritten /\ [EditorNext]_editorVars => AsWasWritten'
  <1> SUFFICES ASSUME EditorInv, PoliciesAreHeld, AsWasWritten, [EditorNext]_editorVars PROVE AsWasWritten'
    OBVIOUS
  <1>1. CASE UNCHANGED <<draft, meant, save>>
    BY <1>1 DEF AsWasWritten, TextMeans
  <1>2. CASE StartEditing \/ Type \/ Choose \/ KeepDocument \/ DiscardDocument \/ Cancel
    <2>1. draft' # None => TextMeans(draft'.text, meant')
      BY <1>2, DocumentWritten
    <2>2. UNCHANGED save
      BY <1>2 DEF StartEditing, Type, Choose, KeepDocument, DiscardDocument, Cancel
    <2> QED BY <2>1, <2>2 DEF AsWasWritten, TextMeans
  <1>3. CASE Replace
    <2>1. /\ draft # None /\ ReadPolicyText(draft.text) # None /\ UNCHANGED <<draft, meant>>
          /\ save'.policy = ReadPolicyText(draft.text) /\ save'.meant = meant
      BY <1>3 DEF Replace, CannotReplace
    <2> QED BY <2>1 DEF AsWasWritten, TextMeans
  <1>4. CASE ReadSandbox \/ RefetchPolicy
    <2>1. /\ UNCHANGED <<draft, meant>> /\ save.at \in {"sandbox", "refetch"}
          /\ save'.policy = save.policy /\ save'.meant = save.meant
      BY <1>4, SaveGoesOn
    <2> QED BY <2>1 DEF AsWasWritten, TextMeans, Unanswered
  <1>5. CASE PolicyArrives \/ PolicyReadFails
    <2>1. /\ UNCHANGED <<draft, meant>>
          /\ save' = save \/ save' = Idle \/ (save.at = "policy" /\ save' = [save EXCEPT !.at = "sent"])
      BY <1>5 DEF PolicyArrives, PolicyReadFails
    <2>2. CASE save' = save \/ save' = Idle
      BY <2>1, <2>2 DEF AsWasWritten, TextMeans, Unanswered, Idle
    <2>3. CASE save.at = "policy" /\ save' = [save EXCEPT !.at = "sent"]
      <3>1. DOMAIN save = SaveFields
        BY <2>3 DEF EditorInv, SaveIsOfItsBase, Idle
      <3>2. save'.policy = save.policy /\ save'.meant = save.meant
        BY <2>3, <3>1 DEF SaveFields
      <3> QED BY <2>1, <2>3, <3>2 DEF AsWasWritten, TextMeans, Unanswered
    <2> QED BY <2>1, <2>2, <2>3
  <1>6. CASE SandboxReadFails \/ Replaced \/ NotReplaced
    <2>1. save' = Idle /\ (draft' = None \/ UNCHANGED <<draft, meant>>)
      BY <1>6 DEF SandboxReadFails, Replaced, NotReplaced
    <2> QED BY <2>1 DEF AsWasWritten, TextMeans, Idle, Unanswered
  <1>7. CASE UpdateSandboxPolicy \/ RequestFails
    <2>1. PICK at \in {"stored", "refused"} : save' = [save EXCEPT !.at = at]
      BY <1>7 DEF UpdateSandboxPolicy, RequestFails
    <2>2. save.at \in {"sent", "stored"} /\ UNCHANGED <<draft, meant>>
      BY <1>7 DEF UpdateSandboxPolicy, RequestFails
    <2>3. save'.at \notin Unanswered
      BY <2>1, <2>2, SaveMovesTo DEF Unanswered
    <2> QED BY <2>2, <2>3 DEF AsWasWritten, TextMeans
  <1> QED
    BY <1>1, <1>2, <1>3, <1>4, <1>5, <1>6, <1>7
    DEF EditorNext, editorVars, OthersReplace, OthersTouch, SetOrDeleteGlobalPolicy, AnswerPolicy, PollEffective,
        RemoveRule, AddEndpoint, AskRemoval, AskL7Rule, CloseDialog, ConfirmRemoval, SubmitL7Rule, MergeSandboxPolicy

\* For any policies, typed texts and formats, whatever of it is changed from
\* one format to the other and whatever others do meanwhile: what the gateway
\* stores means what was typed or what editing was started from, but for the
\* tool of an MCP matcher that also has a parameter nested below `name`
\* (utils/policyFile.ts, models/policyproto.go and models/sdk_converters.go).
THEOREM WhatIsStoredWasWritten == EditorSpec => WhatWasWrittenIsStored
  <1>1. EditorInv /\ PoliciesAreHeld /\ AsWasWritten /\ [EditorNext]_editorVars
          => (Stores => Loosely(Meaning(gw'.policy)) = Loosely(save.meant))
    <2> SUFFICES ASSUME EditorInv, PoliciesAreHeld, AsWasWritten, [EditorNext]_editorVars, Stores
                 PROVE  Loosely(Meaning(gw'.policy)) = Loosely(save.meant)
      OBVIOUS
    <2>1. save.at = "sent" /\ save'.at = "stored"
      BY DEF Stores
    <2>2. UpdateSandboxPolicy
      <3>1. CASE RequestFails
        <4>1. save'.at = "refused"
          BY <3>1, SaveMovesTo DEF RequestFails
        <4> QED BY <2>1, <4>1
      <3> QED
        BY <2>1, <3>1
        DEF EditorNext, editorVars, OthersReplace, OthersTouch, SetOrDeleteGlobalPolicy, AnswerPolicy, PolicyArrives, PolicyReadFails, PollEffective,
            StartEditing, Type, Choose, KeepDocument, DiscardDocument, Cancel, Replace, ReadSandbox, SandboxReadFails,
            RefetchPolicy, Replaced, NotReplaced, RemoveRule, AddEndpoint, AskRemoval, AskL7Rule, CloseDialog,
            ConfirmRemoval, SubmitL7Rule, MergeSandboxPolicy, Idle
    <2> DEFINE policy == ParseSDKPolicy(save.policy)
    <2>3. policy # None /\ gw' = StoredAs(policy)
      <3>1. ASSUME save' = [save EXCEPT !.at = "refused"] PROVE FALSE
        <4>1. save'.at = "refused"
          BY <2>1, <3>1, SaveMovesTo
        <4> QED BY <2>1, <4>1
      <3> QED BY <2>2, <3>1 DEF UpdateSandboxPolicy
    <2>4. policy = SandboxPolicy(save.policy)
      BY <2>3 DEF ParseSDKPolicy
    <2>5. IsPolicy(save.policy) /\ Loosely(Meaning(save.policy)) = Loosely(save.meant)
      BY <2>1 DEF PoliciesAreHeld, AsWasWritten, Unanswered
    <2>6. Loosely(Meaning(policy)) = Loosely(save.meant)
      BY <2>4, <2>5, CarriedPolicyMeans
    <2> HIDE DEF policy
    <2>7. gw'.policy = policy
      BY <2>3, StoredCounts DEF EditorInv
    <2> QED BY <2>6, <2>7
  <1>2. AsWasWritten /\ PoliciesAreHeld /\ EditorInv /\ [EditorNext]_editorVars => AsWasWritten'
    BY WrittenStep
  <1> QED BY <1>1, <1>2, InitWritten, EditorInvariant, PoliciesInvariant, PTL DEF EditorSpec, WhatWasWrittenIsStored

=============================================================================
