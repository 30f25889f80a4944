----------------------------- MODULE UploadProofs -----------------------------
(***************************************************************************)
(* Proofs about the two ends of an upload: Upload in the backend, for      *)
(* every set of paths and every sequence of parts a body may carry, and    *)
(* UploadQueue in the browser, for every number of files and of workers.   *)
(***************************************************************************)
EXTENDS Upload, UploadQueue, SequenceTheorems, FiniteSetTheorems, WellFoundedInduction, TLAPS

-----------------------------------------------------------------------------
(* Upload. What the answer says of the sandbox is so, and a relative path is *)
(* used for the file it precedes only.                                       *)

Parts == [kind : {"path", "file", "other"}, name : Paths \cup {Bad}]
Outcomes == [path : Paths, ok : BOOLEAN, part : 1 .. Len(parts)]

\* The handler has not answered yet.
Open == pc \notin {"drain", "done"}

\* A file is in hand, with somewhere to go, from its part to its outcome.
HandlerIsAt ==
    /\ pc \in {"resolve", "mkdir", "exec"} =>
         pos <= Len(parts) /\ parts[pos].kind = "file" /\ Dest \in Paths
    /\ Open => body = "ok" /\ reply = NoReply

\* The relativePath fields since the file before part k.
Since(k) == {j \in 1 .. k - 1 : /\ parts[j].kind = "path"
                                /\ \A f \in FileParts : f < k => f < j}
IsLastOf(j, S) == j \in S /\ \A i \in S : i <= j

\* What is in hand is the last of them, and nothing when there is none.
RelIsAt ==
    Open => \/ Since(pos) = {} /\ rel = NoPath
            \/ \E j \in Since(pos) : IsLastOf(j, Since(pos)) /\ rel = parts[j].name

\* Every file that was passed has an outcome, and no other part has.
FilesAreDone ==
    /\ \A k \in DOMAIN files : files[k].part \in FileParts
    /\ Open => \A f \in FileParts : f < pos <=> \E k \in DOMAIN files : files[k].part = f

\* An outcome that says "written" is so, unless the path was written again.
WrittenIsWhole ==
    \A k \in DOMAIN files :
        files[k].ok /\ (\A j \in k + 1 .. Len(files) : files[j].path # files[k].path)
            => disk[files[k].path] = [part |-> files[k].part, whole |-> TRUE]

\* Whatever of the request is on the disk is among the outcomes.
DiskIsListed ==
    \A p \in Paths : disk[p].part # 0 =>
        \E k \in DOMAIN files : files[k].path = p /\ files[k].part = disk[p].part

IInv ==
    /\ TypeOK
    /\ HandlerIsAt
    /\ RelIsAt
    /\ FilesAreDone
    /\ Open \/ reply.files => WrittenIsWhole
    /\ Open => DiskIsListed
    /\ OutcomesAreTrue
    /\ NoPathIsInherited

-----------------------------------------------------------------------------

LEMMA PartsType ==
    ASSUME parts \in Bodies
    PROVE  /\ parts \in Seq(Parts) /\ Len(parts) \in Nat
           /\ DOMAIN parts = 1 .. Len(parts)
           /\ \A k \in 1 .. Len(parts) : parts[k] \in Parts
           /\ FileParts = {k \in 1 .. Len(parts) : parts[k].kind = "file"}
  <1>1. parts \in Seq(Parts)
    BY BodiesAssumption DEF Parts
  <1> QED BY <1>1 DEF FileParts

LEMMA DirsType ==
    ASSUME NEW p \in Paths
    PROVE  DirOf[p] \in Dirs /\ Above[DirOf[p]] \subseteq Dirs
  BY DEF Dirs

\* The last relativePath field since the file before decides the path of a part.
LEMMA SentAsLast ==
    ASSUME NEW k \in Nat
    PROVE  /\ Since(k) = {} => SentAs(k) = parts[k].name
           /\ \A j : IsLastOf(j, Since(k)) => SentAs(k) = parts[j].name
  <1>1. SentAs(k) = IF Since(k) = {} THEN parts[k].name
                    ELSE parts[CHOOSE j \in Since(k) : \A i \in Since(k) : i <= j].name
    BY Zenon DEF SentAs, Since
  <1>2. ASSUME NEW j, IsLastOf(j, Since(k))
        PROVE  (CHOOSE i \in Since(k) : \A h \in Since(k) : h <= i) = j
    <2> DEFINE i == CHOOSE i \in Since(k) : \A h \in Since(k) : h <= i
    <2>1. i \in Since(k) /\ \A h \in Since(k) : h <= i
      BY <1>2 DEF IsLastOf
    <2>2. i \in Int /\ j \in Int /\ i <= j /\ j <= i
      BY <1>2, <2>1 DEF IsLastOf, Since
    <2> QED BY <2>2
  <1> QED BY <1>1, <1>2 DEF IsLastOf

\* The path that the file in hand goes to is the one it was sent with.
LEMMA DestIsSentAs ==
    ASSUME TypeOK, RelIsAt, Open, Dest \in Paths
    PROVE  Dest = SentAs(pos)
  <1>1. pos \in Nat
    BY PartsType DEF TypeOK
  <1>2. CASE Since(pos) = {} /\ rel = NoPath
    BY <1>1, <1>2, SentAsLast DEF Dest
  <1>3. ASSUME NEW j \in Since(pos), IsLastOf(j, Since(pos)), rel = parts[j].name
        PROVE  Dest = SentAs(pos)
    <2>1. j \in 1 .. Len(parts)
      BY <1>1, PartsType DEF Since, TypeOK
    <2>2. rel # NoPath
      <3>1. parts[j].name \in Paths \cup {Bad}
        BY <2>1, PartsType DEF TypeOK, Parts
      <3> QED BY <1>3, <3>1, PathsAssumption
    <2> QED BY <1>1, <1>3, <2>2, SentAsLast DEF Dest
  <1> QED BY <1>2, <1>3 DEF RelIsAt

\* An outcome more.
LEMMA Recorded ==
    ASSUME TypeOK, NEW o \in Outcomes, files' = Append(files, o)
    PROVE  /\ files' \in Seq(Outcomes) /\ Len(files') = Len(files) + 1 /\ Len(files) \in Nat
           /\ DOMAIN files = 1 .. Len(files) /\ DOMAIN files' = 1 .. Len(files) + 1
           /\ files'[Len(files) + 1] = o
           /\ \A k \in 1 .. Len(files) : files'[k] = files[k]
           /\ files' # <<>>
  <1>1. files \in Seq(Outcomes)
    BY DEF TypeOK, Outcomes
  <1>2. /\ files' \in Seq(Outcomes) /\ Len(files') = Len(files) + 1 /\ Len(files) \in Nat
        /\ files'[Len(files) + 1] = o
        /\ \A k \in 1 .. Len(files) : files'[k] = files[k]
    BY <1>1, AppendProperties
  <1> QED BY <1>1, <1>2, EmptySeq

LEMMA InitIInv == Init => IInv
  <1> SUFFICES ASSUME Init PROVE IInv
    OBVIOUS
  <1>1. /\ parts \in Bodies /\ Len(parts) \in Nat /\ pos = 1 /\ files = <<>> /\ reply = NoReply
        /\ body = "ok" /\ disk = [p \in Paths |-> Untouched]
    BY PartsType DEF Init
  <1>2. files \in Seq(Outcomes) /\ DOMAIN files = {}
    BY <1>1, EmptySeq
  <1>3. disk \in [Paths -> [part : 0 .. Len(parts), whole : BOOLEAN]]
    BY <1>1 DEF Untouched
  <1>4. TypeOK
    <2>1. /\ parts \in Bodies /\ declared \in {"fits", "tooLarge"} /\ pos \in 1 .. Len(parts) + 1
          /\ pc = "begin" /\ rel = NoPath /\ madeDirs = {} /\ dirs = {} /\ body = "ok"
          /\ reply.status = 0 /\ reply.files = FALSE
      BY <1>1 DEF Init, NoReply
    <2>2. resolved \in BOOLEAN
      BY DEF Init
    <2> QED BY <1>2, <1>3, <2>1, <2>2 DEF TypeOK, Outcomes
  <1>5. HandlerIsAt
    BY <1>1 DEF Init, HandlerIsAt
  <1>6. Since(pos) = {}
    BY <1>1 DEF Since
  <1>7. RelIsAt
    BY <1>6 DEF Init, RelIsAt
  <1>8. FilesAreDone
    BY <1>1, <1>2, PartsType DEF FilesAreDone
  <1>9. WrittenIsWhole /\ NoPathIsInherited
    BY <1>2 DEF WrittenIsWhole, NoPathIsInherited
  <1>10. DiskIsListed
    BY <1>1 DEF DiskIsListed, Untouched
  <1>11. OutcomesAreTrue
    BY <1>1 DEF OutcomesAreTrue, NoReply
  <1> QED BY <1>4, <1>5, <1>7, <1>8, <1>9, <1>10, <1>11 DEF IInv

\* The promise of the call is all that is known of it: what it did to the file,
\* and that an exit with status 0 means that the file is whole.
LEMMA WhatWasWritten ==
    ASSUME IInv, WriteFile
    PROVE  /\ \E w \in [part : 0 .. Len(parts), whole : BOOLEAN] :
                /\ disk' = [disk EXCEPT ![Dest] = w]
                /\ w \in {disk[Dest]} \cup [part : {pos}, whole : BOOLEAN]
                /\ \/ /\ files' = Append(files, Outcome(FALSE))
                      /\ \E how \in {"cut", "tooLarge"} : FailInput(files', how)
                      /\ UNCHANGED <<pos, rel>>
                   \/ Answer(Reply(502, FALSE)) /\ UNCHANGED <<pos, rel, files, body>>
                   \/ Record(Outcome(FALSE)) /\ UNCHANGED body
                   \/ /\ Record(Outcome(TRUE)) /\ UNCHANGED body
                      /\ w = [part |-> pos, whole |-> TRUE]
           /\ pc = "exec" /\ Dest \in Paths /\ pos \in 1 .. Len(parts)
           /\ UNCHANGED <<posted, resolved, madeDirs, dirs>>
  <1>1. pc = "exec" /\ Dest \in Paths /\ pos \in 1 .. Len(parts) /\ Len(parts) \in Nat
    BY PartsType DEF WriteFile, IInv, TypeOK, HandlerIsAt
  <1>2. disk[Dest] \in [part : 0 .. Len(parts), whole : BOOLEAN]
    BY <1>1 DEF IInv, TypeOK
  <1>3. PICK reader \in {"reading", "ended", "failed"}, stdin \in {"part", "all"} :
        \E r \in Call(reader, stdin, NoReply)!Results :
          /\ Call(reader, stdin, NoReply)!Promised(r)
          /\ \E w \in Written(stdin, r.exit) : disk' = [disk EXCEPT ![Dest] = w]
          /\ \/ /\ reader = "failed"
                /\ files' = Append(files, Outcome(FALSE))
                /\ \E how \in {"cut", "tooLarge"} : FailInput(files', how)
                /\ UNCHANGED <<pos, rel>>
             \/ /\ reader # "failed" /\ r.err # "none"
                /\ Answer(Reply(502, FALSE))
                /\ UNCHANGED <<pos, rel, files, body>>
             \/ /\ reader # "failed" /\ r.err = "none"
                /\ Record(Outcome(r.exit = 0))
                /\ UNCHANGED body
    BY Zenon DEF WriteFile
  <1>4. PICK r \in Call(reader, stdin, NoReply)!Results :
          /\ Call(reader, stdin, NoReply)!Promised(r)
          /\ \E w \in Written(stdin, r.exit) : disk' = [disk EXCEPT ![Dest] = w]
          /\ \/ /\ reader = "failed"
                /\ files' = Append(files, Outcome(FALSE))
                /\ \E how \in {"cut", "tooLarge"} : FailInput(files', how)
                /\ UNCHANGED <<pos, rel>>
             \/ /\ reader # "failed" /\ r.err # "none"
                /\ Answer(Reply(502, FALSE))
                /\ UNCHANGED <<pos, rel, files, body>>
             \/ /\ reader # "failed" /\ r.err = "none"
                /\ Record(Outcome(r.exit = 0))
                /\ UNCHANGED body
    BY <1>3
  <1>5. r.err = "none" /\ r.exit = 0 => stdin = "all"
    BY <1>4 DEF Call!Promised
  <1>6. PICK w \in Written(stdin, r.exit) : disk' = [disk EXCEPT ![Dest] = w]
    BY <1>4
  <1>7. w = disk[Dest] \/ w = [part |-> pos, whole |-> TRUE] \/ w = [part |-> pos, whole |-> FALSE]
    BY <1>6, Zenon DEF Written
  <1>8. /\ w \in [part : 0 .. Len(parts), whole : BOOLEAN]
        /\ w \in {disk[Dest]} \cup [part : {pos}, whole : BOOLEAN]
    <2>1. /\ [part |-> pos, whole |-> TRUE] \in [part : 0 .. Len(parts), whole : BOOLEAN]
          /\ [part |-> pos, whole |-> FALSE] \in [part : 0 .. Len(parts), whole : BOOLEAN]
      BY <1>1
    <2>2. /\ [part |-> pos, whole |-> TRUE] \in [part : {pos}, whole : BOOLEAN]
          /\ [part |-> pos, whole |-> FALSE] \in [part : {pos}, whole : BOOLEAN]
      BY <1>1
    <2> QED BY <1>2, <1>7, <2>1, <2>2, Zenon
  <1>9. r.err = "none" /\ r.exit = 0 => w = [part |-> pos, whole |-> TRUE]
    BY <1>5, <1>6 DEF Written
  <1>10. \/ /\ files' = Append(files, Outcome(FALSE))
            /\ \E how \in {"cut", "tooLarge"} : FailInput(files', how)
            /\ UNCHANGED <<pos, rel>>
         \/ Answer(Reply(502, FALSE)) /\ UNCHANGED <<pos, rel, files, body>>
         \/ Record(Outcome(FALSE)) /\ UNCHANGED body
         \/ /\ Record(Outcome(TRUE)) /\ UNCHANGED body
            /\ w = [part |-> pos, whole |-> TRUE]
    <2>1. CASE r.err = "none" /\ Record(Outcome(r.exit = 0)) /\ UNCHANGED body
      <3>1. (r.exit = 0) \in BOOLEAN /\ (r.exit = 0 => w = [part |-> pos, whole |-> TRUE])
        BY <1>9, <2>1
      <3>2. CASE r.exit = 0
        BY <2>1, <3>1, <3>2
      <3>3. CASE r.exit # 0
        BY <2>1, <3>1, <3>3
      <3> QED BY <3>2, <3>3
    <2>2. CASE Answer(Reply(502, FALSE)) /\ UNCHANGED <<pos, rel, files, body>>
      BY <2>2, Zenon
    <2>3. CASE /\ files' = Append(files, Outcome(FALSE))
               /\ \E how \in {"cut", "tooLarge"} : FailInput(files', how)
               /\ UNCHANGED <<pos, rel>>
      BY <2>3, Zenon
    <2> QED BY <1>4, <2>1, <2>2, <2>3, Zenon
  <1>11. UNCHANGED <<posted, resolved, madeDirs, dirs>>
    BY DEF WriteFile
  <1> QED BY <1>1, <1>6, <1>8, <1>10, <1>11, Zenon

LEMMA TypeStep == IInv /\ [Next]_vars => TypeOK'
  <1> SUFFICES ASSUME IInv, [Next]_vars PROVE TypeOK'
    OBVIOUS
  <1>0. /\ TypeOK /\ HandlerIsAt /\ Len(parts) \in Nat /\ DOMAIN parts = 1 .. Len(parts)
        /\ \A k \in 1 .. Len(parts) : parts[k] \in Parts
    BY PartsType DEF IInv, TypeOK
  <1> DEFINE Rest == /\ parts \in Bodies /\ declared \in {"fits", "tooLarge"}
                     /\ pos \in 1 .. Len(parts) + 1
                     /\ pc \in {"begin", "parts", "resolve", "mkdir", "exec", "drain", "done"}
                     /\ rel \in Paths \cup {Bad, NoPath}
                     /\ madeDirs \subseteq Dirs /\ dirs \subseteq Dirs
                     /\ body \in {"ok", "cut", "tooLarge"}
                     /\ reply.status \in {0, 200, 400, 404, 413, 502}
             Flags == resolved \in BOOLEAN /\ reply.files \in BOOLEAN
             Files == files \in Seq(Outcomes)
             Disk == disk \in [Paths -> [part : 0 .. Len(parts), whole : BOOLEAN]]
  <1>1. Rest /\ Flags /\ Files /\ Disk
    BY <1>0 DEF TypeOK, Outcomes
  <1>2. SUFFICES Rest' /\ Flags' /\ Files' /\ Disk'
    BY DEF TypeOK, Outcomes
  <1>3. CASE Refuse \/ Begin \/ RelativePathPart \/ OtherPart \/ FilePart \/ Resolve \/ DirMade \/ Drain
    <2>1. UNCHANGED <<parts, declared, madeDirs, dirs, files, body, disk>>
      BY <1>3 DEF Refuse, Begin, RelativePathPart, OtherPart, FilePart, Resolve, DirMade, Drain,
                  posted, sandbox
    <2>2. /\ pos' \in {pos, pos + 1} /\ (pos' # pos => pos <= Len(parts))
          /\ pc' \in {pc, "done", "parts", "resolve", "mkdir", "exec", "drain"}
          /\ rel' = rel \/ (rel' = parts[pos].name /\ pos <= Len(parts))
      BY <1>3 DEF Refuse, Begin, RelativePathPart, OtherPart, FilePart, Resolve, DirMade, Drain,
                  Answer, posted, sandbox
    <2>3. \/ reply' = reply
          \/ \E c \in {400, 404, 413} : reply' = Reply(c, FALSE)
      <3>1. CASE Refuse
        BY <3>1 DEF Refuse
      <3>2. CASE FilePart
        BY <3>2 DEF FilePart, Answer
      <3>3. CASE Resolve
        BY <3>3 DEF Resolve, Answer
      <3>4. CASE Begin \/ RelativePathPart \/ OtherPart \/ DirMade \/ Drain
        BY <3>4 DEF Begin, RelativePathPart, OtherPart, DirMade, Drain
      <3> QED BY <1>3, <3>1, <3>2, <3>3, <3>4
    <2>4. resolved' \in BOOLEAN
      BY <1>1, <1>3 DEF Refuse, Begin, RelativePathPart, OtherPart, FilePart, Resolve, DirMade, Drain
    <2>5. reply'.status \in {0, 200, 400, 404, 413, 502} /\ reply'.files \in BOOLEAN
      <3>1. CASE reply' = reply
        BY <1>1, <3>1
      <3>2. CASE \E c \in {400, 404, 413} : reply' = Reply(c, FALSE)
        BY <3>2 DEF Reply
      <3> QED BY <2>3, <3>1, <3>2
    <2>6. rel' \in Paths \cup {Bad, NoPath}
      BY <1>0, <1>1, <2>2 DEF Parts
    <2> QED BY <1>0, <1>1, <2>1, <2>2, <2>4, <2>5, <2>6 DEF Outcomes
  <1>4. CASE Respond
    <2>1. /\ UNCHANGED <<parts, declared, pos, rel, resolved, madeDirs, files, body, disk, dirs>>
          /\ pc' = "done"
          /\ reply' \in {Reply(400, FALSE), Reply(502, TRUE), Reply(200, TRUE)}
      BY <1>4 DEF Respond, posted, sandbox
    <2>2. reply'.status \in {0, 200, 400, 404, 413, 502} /\ reply'.files \in BOOLEAN
      <3>1. CASE reply' = Reply(400, FALSE)
        BY <3>1 DEF Reply
      <3>2. CASE reply' = Reply(502, TRUE)
        BY <3>2 DEF Reply
      <3>3. CASE reply' = Reply(200, TRUE)
        BY <3>3 DEF Reply
      <3> QED BY <2>1, <3>1, <3>2, <3>3
    <2> QED BY <1>1, <2>1, <2>2 DEF Outcomes
  <1>5. ASSUME PartFails \/ WriteFile, NEW o, NEW how \in {"cut", "tooLarge"}, FailInput(o, how)
        PROVE  /\ pc' = "drain" /\ body' \in {"cut", "tooLarge"}
               /\ reply'.status \in {0, 200, 400, 404, 413, 502} /\ reply'.files \in BOOLEAN
    BY <1>5 DEF FailInput, Answer, Reply
  <1>6. CASE PartFails
    <2>1. UNCHANGED <<parts, declared, pos, rel, resolved, madeDirs, files, disk, dirs>>
      BY <1>6 DEF PartFails, posted, sandbox
    <2>2. /\ pc' = "drain" /\ body' \in {"cut", "tooLarge"}
          /\ reply'.status \in {0, 200, 400, 404, 413, 502} /\ reply'.files \in BOOLEAN
      BY <1>5, <1>6 DEF PartFails
    <2> QED BY <1>1, <2>1, <2>2 DEF Outcomes
  <1>7. ASSUME pc \in {"mkdir", "exec"} PROVE Outcome(TRUE) \in Outcomes /\ Outcome(FALSE) \in Outcomes
    BY <1>0, <1>1, <1>7 DEF Outcome, Outcomes, HandlerIsAt
  <1>8. ASSUME NEW ok \in BOOLEAN, pc \in {"mkdir", "exec"}, files' = Append(files, Outcome(ok)), parts' = parts
        PROVE  Files'
    BY <1>0, <1>7, <1>8, Recorded DEF Outcomes
  <1>9. ASSUME NEW ok \in BOOLEAN, pc \in {"mkdir", "exec"}, Record(Outcome(ok)), UNCHANGED <<posted, body, resolved>>,
               madeDirs' \subseteq Dirs, dirs' \subseteq Dirs
        PROVE  Rest' /\ Flags' /\ Files'
    <2>1. pos' = pos + 1 /\ rel' = NoPath /\ pc' = "parts" /\ reply' = reply /\ files' = Append(files, Outcome(ok))
      BY <1>9 DEF Record
    <2>2. pos' \in 1 .. Len(parts) + 1
      BY <1>0, <1>1, <1>9, <2>1 DEF HandlerIsAt
    <2> QED BY <1>1, <1>8, <1>9, <2>1, <2>2 DEF posted
  <1>10. CASE MakeDir
    <2>1. /\ UNCHANGED <<parts, declared, resolved, body>> /\ pc = "mkdir" /\ Dest \in Paths
      BY <1>0, <1>10 DEF MakeDir, posted, HandlerIsAt
    <2>2. CASE /\ dirs' = dirs \cup Above[DirOf[Dest]]
               /\ madeDirs' = madeDirs \cup Above[DirOf[Dest]]
               /\ pc' = "exec"
               /\ UNCHANGED <<pos, rel, files, reply, disk>>
      BY <1>1, <2>1, <2>2, DirsType DEF Outcomes
    <2>3. CASE Record(Outcome(FALSE)) /\ UNCHANGED <<madeDirs, sandbox>>
      <3>1. UNCHANGED <<madeDirs, disk, dirs>> /\ UNCHANGED <<posted, body, resolved>>
        BY <2>1, <2>3 DEF sandbox, posted
      <3>2. Rest' /\ Flags' /\ Files'
        BY <1>1, <1>9, <2>1, <2>3, <3>1
      <3> QED BY <1>1, <2>1, <3>1, <3>2
    <2>4. CASE Answer(Reply(502, FALSE)) /\ UNCHANGED <<pos, rel, madeDirs, files, sandbox>>
      BY <1>1, <2>1, <2>4 DEF Answer, Reply, sandbox, Outcomes
    <2> QED BY <1>10, <2>2, <2>3, <2>4, Zenon DEF MakeDir
  <1>11. CASE WriteFile
    <2>1. PICK w \in [part : 0 .. Len(parts), whole : BOOLEAN] :
            /\ disk' = [disk EXCEPT ![Dest] = w]
            /\ w \in {disk[Dest]} \cup [part : {pos}, whole : BOOLEAN]
            /\ \/ /\ files' = Append(files, Outcome(FALSE))
                  /\ \E how \in {"cut", "tooLarge"} : FailInput(files', how)
                  /\ UNCHANGED <<pos, rel>>
               \/ Answer(Reply(502, FALSE)) /\ UNCHANGED <<pos, rel, files, body>>
               \/ Record(Outcome(FALSE)) /\ UNCHANGED body
               \/ /\ Record(Outcome(TRUE)) /\ UNCHANGED body
                  /\ w = [part |-> pos, whole |-> TRUE]
      BY <1>11, WhatWasWritten, Zenon
    <2>2. /\ UNCHANGED <<posted, resolved, madeDirs, dirs>> /\ UNCHANGED <<parts, declared>>
          /\ pc = "exec" /\ Dest \in Paths
      BY <1>11, WhatWasWritten DEF posted
    <2>3. Disk'
      BY <1>1, <2>1, <2>2
    <2>4. CASE /\ files' = Append(files, Outcome(FALSE))
               /\ \E how \in {"cut", "tooLarge"} : FailInput(files', how)
               /\ UNCHANGED <<pos, rel>>
      <3>1. Files'
        BY <1>8, <2>2, <2>4
      <3>2. /\ pc' = "drain" /\ body' \in {"cut", "tooLarge"}
            /\ reply'.status \in {0, 200, 400, 404, 413, 502} /\ reply'.files \in BOOLEAN
        BY <1>5, <1>11, <2>4
      <3>3. Rest'
        BY <1>1, <2>2, <2>4, <3>2
      <3>4. Flags'
        BY <1>1, <2>2, <3>2, Zenon
      <3> QED BY <2>3, <3>1, <3>3, <3>4
    <2>5. CASE Answer(Reply(502, FALSE)) /\ UNCHANGED <<pos, rel, files, body>>
      BY <1>1, <2>2, <2>3, <2>5 DEF Answer, Reply, Outcomes
    <2>6. ASSUME NEW ok \in BOOLEAN, Record(Outcome(ok)), UNCHANGED body
          PROVE  Rest' /\ Flags' /\ Files' /\ Disk'
      <3>1. UNCHANGED <<posted, body, resolved>> /\ madeDirs' \subseteq Dirs /\ dirs' \subseteq Dirs
        BY <1>1, <2>2, <2>6
      <3> HIDE DEF Rest, Flags, Files, Disk
      <3> QED BY <1>9, <2>2, <2>3, <2>6, <3>1
    <2> HIDE DEF Rest, Flags, Files, Disk
    <2>7. CASE Record(Outcome(FALSE)) /\ UNCHANGED body
      BY <2>6, <2>7
    <2>8. CASE Record(Outcome(TRUE)) /\ UNCHANGED body
      BY <2>6, <2>8
    <2> QED BY <2>1, <2>4, <2>5, <2>7, <2>8, Zenon
  <1>12. CASE UNCHANGED vars
    BY <1>1, <1>12 DEF vars, Outcomes
  <1> QED BY <1>3, <1>4, <1>6, <1>10, <1>11, <1>12, Zenon DEF Next

\* What an outcome more, for the file in hand, leaves true of the outcomes.
LEMMA OutcomeStep ==
    ASSUME IInv, TypeOK', pc \in {"mkdir", "exec"}, parts' = parts,
           NEW ok \in BOOLEAN, files' = Append(files, Outcome(ok)),
           NEW w \in {disk[Dest]} \cup [part : {pos}, whole : BOOLEAN],
           disk' = [disk EXCEPT ![Dest] = w],
           ok => w = [part |-> pos, whole |-> TRUE]
    PROVE  /\ NoPathIsInherited' /\ WrittenIsWhole' /\ DiskIsListed'
           /\ \A k \in DOMAIN files' : files'[k].part \in FileParts'
           /\ \A f \in FileParts' : f < pos + 1 <=> \E k \in DOMAIN files' : files'[k].part = f
           /\ files' # <<>>
  <1>0. /\ TypeOK /\ HandlerIsAt /\ RelIsAt /\ FilesAreDone /\ WrittenIsWhole /\ DiskIsListed
        /\ NoPathIsInherited /\ Open
    BY DEF IInv, Open
  <1>1. /\ pos \in 1 .. Len(parts) /\ Len(parts) \in Nat /\ Dest \in Paths /\ pos \in FileParts
        /\ FileParts \subseteq 1 .. Len(parts) /\ FileParts' = FileParts
    <2>1. pos \in 1 .. Len(parts) /\ Dest \in Paths /\ parts[pos].kind = "file"
      BY <1>0, PartsType DEF HandlerIsAt, TypeOK
    <2> QED BY <1>0, <2>1, PartsType DEF TypeOK, FileParts
  <1>2. Outcome(ok) \in Outcomes /\ Outcome(ok).path = Dest /\ Outcome(ok).part = pos
    BY <1>1 DEF Outcome, Outcomes
  <1>3. Outcome(ok).ok = ok
    BY DEF Outcome
  <1>4. /\ Len(files') = Len(files) + 1 /\ Len(files) \in Nat
        /\ DOMAIN files = 1 .. Len(files) /\ DOMAIN files' = 1 .. Len(files) + 1
        /\ files'[Len(files) + 1] = Outcome(ok)
        /\ \A k \in 1 .. Len(files) : files'[k] = files[k]
        /\ files' # <<>>
    BY <1>0, <1>2, Recorded
  <1>5. \A k \in DOMAIN files : files[k] \in Outcomes
    <2>1. files \in Seq(Outcomes)
      BY <1>0 DEF TypeOK, Outcomes
    <2> QED BY <1>4, <2>1, ElementOfSeq
  <1>5a. disk'[Dest] = w /\ \A p \in Paths \ {Dest} : disk'[p] = disk[p]
    BY <1>0, <1>1 DEF TypeOK
  <1>6. NoPathIsInherited'
    <2>1. Dest = SentAs(pos)
      BY <1>0, <1>1, DestIsSentAs
    <2>2. \A k : SentAs(k)' = SentAs(k)
      BY <1>1 DEF SentAs
    <2> QED BY <1>0, <1>2, <1>4, <2>1, <2>2 DEF NoPathIsInherited
  <1>7. WrittenIsWhole'
    <2> SUFFICES ASSUME NEW k \in DOMAIN files', files'[k].ok,
                        \A j \in k + 1 .. Len(files') : files'[j].path # files'[k].path
                 PROVE  disk'[files'[k].path] = [part |-> files'[k].part, whole |-> TRUE]
      BY DEF WrittenIsWhole
    <2>1. CASE k = Len(files) + 1
      <3>1. ok
        BY <1>3, <1>4, <2>1
      <3>2. w = [part |-> pos, whole |-> TRUE]
        BY <3>1
      <3> QED BY <1>2, <1>4, <1>5a, <2>1, <3>2, Zenon
    <2>2. CASE k \in 1 .. Len(files)
      <3>1. files'[k] = files[k] /\ files[k].path # Dest /\ files[k].path \in Paths
        BY <1>2, <1>4, <1>5, <2>2 DEF Outcomes
      <3>2. \A j \in k + 1 .. Len(files) : files[j].path # files[k].path
        BY <1>4, <2>2
      <3>3. disk[files[k].path] = [part |-> files[k].part, whole |-> TRUE]
        BY <1>0, <1>4, <2>2, <3>1, <3>2, Zenon DEF WrittenIsWhole
      <3> QED BY <1>5a, <3>1, <3>3
    <2>3. k = Len(files) + 1 \/ k \in 1 .. Len(files)
      BY <1>4
    <2> QED BY <2>1, <2>2, <2>3, Zenon
  <1>8. DiskIsListed'
    <2> SUFFICES ASSUME NEW p \in Paths, disk'[p].part # 0
                 PROVE  \E k \in DOMAIN files' : files'[k].path = p /\ files'[k].part = disk'[p].part
      BY DEF DiskIsListed
    <2>1. CASE disk'[p] = disk[p]
      BY <1>0, <1>4, <2>1 DEF DiskIsListed
    <2>2. CASE p = Dest /\ w \in [part : {pos}, whole : BOOLEAN]
      <3>1. disk'[p].part = pos
        BY <1>0, <2>2 DEF TypeOK
      <3>2. files'[Len(files) + 1].path = p /\ files'[Len(files) + 1].part = pos
        BY <1>2, <1>4, <2>2
      <3> QED BY <1>4, <3>1, <3>2
    <2>3. disk'[p] = disk[p] \/ (p = Dest /\ w \in [part : {pos}, whole : BOOLEAN])
      BY <1>5a
    <2> QED BY <2>1, <2>2, <2>3, Zenon
  <1>9. \A k \in DOMAIN files' : files'[k].part \in FileParts'
    BY <1>0, <1>1, <1>2, <1>4 DEF FilesAreDone
  <1>10. \A f \in FileParts' : f < pos + 1 <=> \E k \in DOMAIN files' : files'[k].part = f
    <2> TAKE f \in FileParts'
    <2>1. f \in FileParts /\ f \in Nat
      BY <1>1
    <2>2. f < pos <=> \E k \in DOMAIN files : files[k].part = f
      BY <1>0, <2>1 DEF FilesAreDone
    <2>3. f < pos + 1 <=> f < pos \/ f = pos
      BY <1>1, <2>1
    <2>4. (\E k \in DOMAIN files' : files'[k].part = f) <=>
             f = pos \/ \E k \in DOMAIN files : files[k].part = f
      BY <1>2, <1>4
    <2> QED BY <2>2, <2>3, <2>4
  <1> QED BY <1>4, <1>6, <1>7, <1>8, <1>9, <1>10

\* The file is dealt with and the next part is taken.
LEMMA RecordStep ==
    ASSUME IInv, TypeOK', pc \in {"mkdir", "exec"}, parts' = parts, body' = body,
           NEW ok \in BOOLEAN, Record(Outcome(ok)),
           NEW w \in {disk[Dest]} \cup [part : {pos}, whole : BOOLEAN],
           disk' = [disk EXCEPT ![Dest] = w],
           ok => w = [part |-> pos, whole |-> TRUE]
    PROVE  IInv'
  <1>1. /\ files' = Append(files, Outcome(ok)) /\ pos' = pos + 1 /\ rel' = NoPath
        /\ pc' = "parts" /\ reply' = reply
    BY DEF Record
  <1>2. /\ NoPathIsInherited' /\ WrittenIsWhole' /\ DiskIsListed'
        /\ \A k \in DOMAIN files' : files'[k].part \in FileParts'
        /\ \A f \in FileParts' : f < pos + 1 <=> \E k \in DOMAIN files' : files'[k].part = f
    BY <1>1, OutcomeStep
  <1>3. body = "ok" /\ reply = NoReply
    BY DEF IInv, HandlerIsAt, Open
  <1>4. HandlerIsAt'
    BY <1>1, <1>3 DEF HandlerIsAt, Open
  <1>5. Since(pos)' = {}
    <2>1. pos \in FileParts /\ pos \in Nat
      BY PartsType DEF IInv, TypeOK, HandlerIsAt, FileParts
    <2> QED BY <1>1, <2>1 DEF Since, FileParts
  <1>6. RelIsAt'
    BY <1>1, <1>5 DEF RelIsAt
  <1>7. FilesAreDone'
    BY <1>1, <1>2 DEF FilesAreDone
  <1>8. OutcomesAreTrue'
    BY <1>1, <1>3 DEF OutcomesAreTrue, NoReply
  <1> QED BY <1>2, <1>4, <1>6, <1>7, <1>8 DEF IInv

\* A step within a part.
LEMMA MovedStep ==
    ASSUME IInv, TypeOK', Open, Open', HandlerIsAt',
           UNCHANGED <<parts, pos, rel, files, body, reply, disk>>
    PROVE  IInv'
  <1>1. FileParts' = FileParts /\ \A k : Since(k)' = Since(k) /\ SentAs(k)' = SentAs(k)
    BY DEF FileParts, Since, SentAs
  <1>2. RelIsAt' /\ FilesAreDone'
    BY <1>1 DEF IInv, RelIsAt, FilesAreDone, IsLastOf
  <1>3. WrittenIsWhole' /\ DiskIsListed' /\ NoPathIsInherited'
    BY <1>1 DEF IInv, WrittenIsWhole, DiskIsListed, NoPathIsInherited
  <1>4. OutcomesAreTrue'
    BY <1>1 DEF IInv, OutcomesAreTrue
  <1> QED BY <1>2, <1>3, <1>4 DEF IInv

\* The upload is refused as a whole.
LEMMA RefusedStep ==
    ASSUME IInv, TypeOK', Open, pc' \in {"drain", "done"}, UNCHANGED <<parts, files, body>>,
           NEW s \in {400, 404, 413, 502}, reply' = Reply(s, FALSE)
    PROVE  IInv'
  <1>1. ~Open' /\ HandlerIsAt' /\ RelIsAt' /\ ~reply'.files /\ reply'.status # 200
    BY DEF Open, HandlerIsAt, RelIsAt, Reply
  <1>2. FileParts' = FileParts /\ \A k : SentAs(k)' = SentAs(k)
    BY DEF FileParts, SentAs
  <1>3. FilesAreDone' /\ NoPathIsInherited'
    BY <1>1, <1>2 DEF IInv, FilesAreDone, NoPathIsInherited
  <1>4. OutcomesAreTrue'
    BY <1>1 DEF IInv, HandlerIsAt, OutcomesAreTrue
  <1> QED BY <1>1, <1>3, <1>4 DEF IInv

\* The body fails: whatever is on the disk by then is among the outcomes.
LEMMA FailStep ==
    ASSUME TypeOK', NEW how \in {"cut", "tooLarge"}, FailInput(files', how),
           WrittenIsWhole', DiskIsListed', NoPathIsInherited',
           \A k \in DOMAIN files' : files'[k].part \in FileParts'
    PROVE  IInv'
  <1>1. pc' = "drain" /\ body' = how
    BY DEF FailInput, Answer
  <1>2. reply'.status \in {413, 400}
    BY DEF FailInput, Answer, Reply
  <1>3. reply'.files = (files' # <<>>)
    BY Zenon DEF FailInput, Answer, Reply
  <1>4. files' # <<>> <=> DOMAIN files' # {}
    <2>1. files' \in Seq(Outcomes')
      BY DEF TypeOK, Outcomes
    <2> QED BY <2>1, EmptySeq
  <1>5. ~Open' /\ HandlerIsAt' /\ RelIsAt' /\ FilesAreDone'
    BY <1>1 DEF Open, HandlerIsAt, RelIsAt, FilesAreDone
  <1>6. OutcomesAreTrue'
    <2>1. \A p \in Paths : disk'[p].part # 0 =>
            reply'.files /\ \E k \in DOMAIN files' : files'[k].path = p /\ files'[k].part = disk'[p].part
      BY <1>3, <1>4 DEF DiskIsListed
    <2> QED BY <1>2, <2>1 DEF OutcomesAreTrue, WrittenIsWhole
  <1> QED BY <1>5, <1>6 DEF IInv

LEMMA StepIInv == IInv /\ [Next]_vars => IInv'
  <1> SUFFICES ASSUME IInv, [Next]_vars PROVE IInv'
    OBVIOUS
  <1>0. /\ TypeOK /\ HandlerIsAt /\ RelIsAt /\ FilesAreDone /\ NoPathIsInherited /\ OutcomesAreTrue
        /\ Len(parts) \in Nat /\ DOMAIN parts = 1 .. Len(parts) /\ pos \in Nat
        /\ \A k \in 1 .. Len(parts) : parts[k] \in Parts
        /\ FileParts = {k \in 1 .. Len(parts) : parts[k].kind = "file"}
    BY PartsType DEF IInv, TypeOK
  <1>1. TypeOK'
    BY TypeStep
  <1>2. CASE Refuse
    <2>1. Open /\ pc' = "done" /\ UNCHANGED <<parts, files, body>>
      BY <1>2 DEF Refuse, posted, Open
    <2>2. CASE reply' = Reply(413, FALSE)
      BY <1>1, <2>1, <2>2, RefusedStep
    <2>3. CASE reply' = Reply(400, FALSE)
      BY <1>1, <2>1, <2>3, RefusedStep
    <2> QED BY <1>2, <2>2, <2>3 DEF Refuse
  <1>3. CASE Begin \/ DirMade
    <2>1. /\ UNCHANGED <<parts, pos, rel, files, body, reply, disk>> /\ Open
          /\ (pc = "mkdir" /\ pc' = "exec") \/ pc' = "parts"
      BY <1>3 DEF Begin, DirMade, posted, sandbox, Open
    <2>2. Open' /\ HandlerIsAt'
      BY <1>0, <2>1 DEF HandlerIsAt, Open, Dest
    <2> QED BY <1>1, <2>1, <2>2, MovedStep
  <1>4. CASE FilePart
    <2>1. pc = "parts" /\ Open /\ pos <= Len(parts) /\ parts[pos].kind = "file"
          /\ UNCHANGED <<parts, pos, rel, files, body, disk>>
      BY <1>4 DEF FilePart, posted, sandbox, Open
    <2>2. CASE Dest = Bad
      BY <1>1, <1>4, <2>1, <2>2, RefusedStep DEF FilePart, Answer
    <2>3. CASE Dest # Bad
      <3>1. reply' = reply /\ pc' \in {"mkdir", "resolve"}
        BY <1>4, <2>3 DEF FilePart
      <3>2. Dest \in Paths
        BY <1>0, <2>1, <2>3 DEF Dest, Parts, TypeOK
      <3>3. Open' /\ HandlerIsAt'
        BY <1>0, <2>1, <3>1, <3>2 DEF HandlerIsAt, Open, Dest
      <3> QED BY <1>1, <2>1, <3>1, <3>3, MovedStep
    <2> QED BY <2>2, <2>3
  <1>5. CASE Resolve
    <2>1. pc = "resolve" /\ Open /\ UNCHANGED <<parts, pos, rel, files, body, disk>>
      BY <1>5 DEF Resolve, posted, sandbox, Open
    <2>2. CASE pc' = "mkdir" /\ reply' = reply
      <3>1. Open' /\ HandlerIsAt'
        BY <1>0, <2>1, <2>2 DEF HandlerIsAt, Open, Dest
      <3> QED BY <1>1, <2>1, <2>2, <3>1, MovedStep
    <2>3. CASE Answer(Reply(404, FALSE))
      BY <1>1, <2>1, <2>3, RefusedStep DEF Answer
    <2> QED BY <1>5, <2>2, <2>3 DEF Resolve
  <1>6. CASE MakeDir
    <2>1. pc = "mkdir" /\ Open /\ UNCHANGED <<parts, body>>
      BY <1>6 DEF MakeDir, posted, Open
    <2>2. CASE pc' = "exec" /\ UNCHANGED <<pos, rel, files, reply, disk>>
      <3>1. Open' /\ HandlerIsAt'
        BY <1>0, <2>1, <2>2 DEF HandlerIsAt, Open, Dest
      <3> QED BY <1>1, <2>1, <2>2, <3>1, MovedStep
    <2>3. CASE Record(Outcome(FALSE)) /\ UNCHANGED sandbox
      <3>1. disk' = [disk EXCEPT ![Dest] = disk[Dest]]
        BY <1>0, <2>3 DEF sandbox, TypeOK
      <3> QED BY <1>1, <2>1, <2>3, <3>1, RecordStep
    <2>4. CASE Answer(Reply(502, FALSE)) /\ UNCHANGED files
      BY <1>1, <2>1, <2>4, RefusedStep DEF Answer
    <2> QED BY <1>6, <2>2, <2>3, <2>4 DEF MakeDir
  <1>7. CASE WriteFile
    <2>1. PICK w \in [part : 0 .. Len(parts), whole : BOOLEAN] :
            /\ disk' = [disk EXCEPT ![Dest] = w]
            /\ w \in {disk[Dest]} \cup [part : {pos}, whole : BOOLEAN]
            /\ \/ /\ files' = Append(files, Outcome(FALSE))
                  /\ \E how \in {"cut", "tooLarge"} : FailInput(files', how)
                  /\ UNCHANGED <<pos, rel>>
               \/ Answer(Reply(502, FALSE)) /\ UNCHANGED <<pos, rel, files, body>>
               \/ Record(Outcome(FALSE)) /\ UNCHANGED body
               \/ /\ Record(Outcome(TRUE)) /\ UNCHANGED body
                  /\ w = [part |-> pos, whole |-> TRUE]
      BY <1>7, WhatWasWritten, Zenon
    <2>2. pc = "exec" /\ Open /\ parts' = parts
      BY <1>7, WhatWasWritten DEF posted, Open
    <2>3. ASSUME files' = Append(files, Outcome(FALSE)), NEW how \in {"cut", "tooLarge"}, FailInput(files', how)
          PROVE  IInv'
      <3>1. /\ NoPathIsInherited' /\ WrittenIsWhole' /\ DiskIsListed'
            /\ \A k \in DOMAIN files' : files'[k].part \in FileParts'
        BY <1>1, <2>1, <2>2, <2>3, OutcomeStep
      <3> QED BY <1>1, <2>3, <3>1, FailStep
    <2>4. CASE Answer(Reply(502, FALSE)) /\ UNCHANGED <<pos, rel, files, body>>
      BY <1>1, <2>2, <2>4, RefusedStep DEF Answer
    <2>5. CASE Record(Outcome(FALSE)) /\ UNCHANGED body
      BY <1>1, <2>1, <2>2, <2>5, RecordStep
    <2>6. CASE Record(Outcome(TRUE)) /\ UNCHANGED body /\ w = [part |-> pos, whole |-> TRUE]
      BY <1>1, <2>1, <2>2, <2>6, RecordStep
    <2> QED BY <2>1, <2>3, <2>4, <2>5, <2>6, Zenon
  <1>8. CASE PartFails
    <2>1. pc = "parts" /\ UNCHANGED <<parts, files, disk>>
      BY <1>8 DEF PartFails, posted, sandbox
    <2>2. FileParts' = FileParts /\ \A k : SentAs(k)' = SentAs(k)
      BY <2>1 DEF FileParts, SentAs
    <2>3. /\ NoPathIsInherited' /\ WrittenIsWhole' /\ DiskIsListed'
          /\ \A k \in DOMAIN files' : files'[k].part \in FileParts'
      BY <1>0, <2>1, <2>2 DEF IInv, Open, NoPathIsInherited, WrittenIsWhole, DiskIsListed, FilesAreDone
    <2>4. PICK how \in {"cut", "tooLarge"} : FailInput(files', how)
      BY <1>8, <2>1 DEF PartFails
    <2> QED BY <1>1, <2>3, <2>4, FailStep
  <1>9. CASE RelativePathPart \/ OtherPart
    <2>1. /\ pc = "parts" /\ pc' = "parts" /\ Open /\ Open' /\ pos \in 1 .. Len(parts) /\ pos' = pos + 1
          /\ UNCHANGED <<parts, files, body, reply, disk>> /\ pos \notin FileParts
      BY <1>0, <1>9 DEF RelativePathPart, OtherPart, posted, sandbox, Open, TypeOK
    <2>2. FileParts' = FileParts /\ (\A k : SentAs(k)' = SentAs(k)) /\ HandlerIsAt'
      BY <1>0, <2>1 DEF FileParts, SentAs, HandlerIsAt
    <2>3. \A f \in FileParts : f < pos <=> f < pos'
      BY <1>0, <2>1
    <2>4. FilesAreDone' /\ WrittenIsWhole' /\ DiskIsListed' /\ NoPathIsInherited' /\ OutcomesAreTrue'
      <3>1. FilesAreDone'
        BY <1>0, <2>1, <2>2, <2>3 DEF FilesAreDone
      <3>2. WrittenIsWhole' /\ DiskIsListed' /\ NoPathIsInherited' /\ OutcomesAreTrue'
        BY <1>0, <2>1, <2>2
        DEF IInv, WrittenIsWhole, DiskIsListed, NoPathIsInherited, OutcomesAreTrue
      <3> QED BY <3>1, <3>2
    <2>5. Since(pos)' = Since(pos) \cup (IF parts[pos].kind = "path" THEN {pos} ELSE {})
      <3>1. Since(pos)' = {j \in 1 .. pos : /\ parts[j].kind = "path"
                                           /\ \A f \in FileParts : f < pos => f < j}
        <4>1. pos' - 1 = pos
          BY <1>0, <2>1
        <4> QED BY <2>1, <2>2, <2>3, <4>1 DEF Since
      <3>2. 1 .. pos = (1 .. pos - 1) \cup {pos}
        BY <1>0, <2>1
      <3> QED BY <3>1, <3>2 DEF Since
    <2>6. RelIsAt'
      <3>1. CASE RelativePathPart
        <4>1. parts[pos].kind = "path" /\ rel' = parts[pos].name
          BY <3>1 DEF RelativePathPart
        <4>2. pos \in Since(pos)' /\ \A i \in Since(pos)' : i <= pos
          BY <1>0, <2>5, <4>1 DEF Since
        <4> QED BY <2>1, <4>1, <4>2 DEF RelIsAt, IsLastOf
      <3>2. CASE OtherPart
        <4>1. parts[pos].kind = "other" /\ rel' = rel
          BY <3>2 DEF OtherPart
        <4>2. Since(pos)' = Since(pos)
          BY <2>5, <4>1
        <4> QED BY <1>0, <2>1, <4>1, <4>2 DEF RelIsAt, IsLastOf
      <3> QED BY <1>9, <3>1, <3>2
    <2> QED BY <1>1, <2>2, <2>4, <2>6 DEF IInv
  <1>10. CASE Respond
    <2>1. /\ pc = "parts" /\ Open /\ pos > Len(parts) /\ pc' = "done" /\ body = "ok"
          /\ UNCHANGED <<parts, files, body, disk>>
      BY <1>0, <1>10 DEF Respond, posted, sandbox, Open, HandlerIsAt
    <2>2. FileParts' = FileParts /\ \A k : SentAs(k)' = SentAs(k)
      BY <2>1 DEF FileParts, SentAs
    <2>3. HandlerIsAt' /\ RelIsAt' /\ FilesAreDone' /\ WrittenIsWhole' /\ NoPathIsInherited' /\ ~Open'
      BY <1>0, <2>1, <2>2
      DEF IInv, Open, HandlerIsAt, RelIsAt, FilesAreDone, WrittenIsWhole, NoPathIsInherited
    <2>4. {files[k].part : k \in DOMAIN files} = FileParts
      BY <1>0, <2>1 DEF FilesAreDone
    <2>5. reply'.status = 200 => \A k \in DOMAIN files : files[k].ok
      <3> SUFFICES ASSUME \E k \in DOMAIN files : ~files[k].ok PROVE reply'.status # 200
        OBVIOUS
      <3>1. reply' = Reply(400, FALSE) \/ reply' = Reply(502, TRUE)
        BY <1>10 DEF Respond
      <3> QED BY <3>1 DEF Reply
    <2>6. OutcomesAreTrue'
      BY <2>1, <2>2, <2>3, <2>4, <2>5 DEF OutcomesAreTrue, WrittenIsWhole
    <2> QED BY <1>1, <2>3, <2>6 DEF IInv
  <1>11. CASE Drain \/ UNCHANGED vars
    <2>1. /\ UNCHANGED <<parts, pos, rel, files, body, reply, disk>>
          /\ pc' = pc \/ (~Open /\ ~Open' /\ pc' = "done")
      BY <1>11 DEF Drain, vars, posted, sandbox, Open
    <2>2. /\ FileParts' = FileParts
          /\ \A k : Since(k)' = Since(k) /\ SentAs(k)' = SentAs(k)
      BY <2>1 DEF FileParts, Since, SentAs
    <2>3. Open' <=> Open
      BY <2>1 DEF Open
    <2>4. HandlerIsAt' /\ RelIsAt' /\ FilesAreDone'
      BY <1>0, <2>1, <2>2, <2>3 DEF HandlerIsAt, RelIsAt, FilesAreDone, IsLastOf, Dest, Open
    <2>5. /\ NoPathIsInherited' /\ OutcomesAreTrue'
          /\ (Open' \/ reply'.files => WrittenIsWhole') /\ (Open' => DiskIsListed')
      BY <1>0, <2>1, <2>2, <2>3
      DEF IInv, NoPathIsInherited, OutcomesAreTrue, WrittenIsWhole, DiskIsListed
    <2> QED BY <1>1, <2>4, <2>5 DEF IInv
  <1> QED BY <1>2, <1>3, <1>4, <1>5, <1>6, <1>7, <1>8, <1>9, <1>10, <1>11, Zenon DEF Next

-----------------------------------------------------------------------------

LEMMA Inductive == Spec => []IInv
  BY InitIInv, StepIInv, PTL DEF Spec

\* Type correctness of UploadFile and its sandbox, for every body and every set
\* of paths (backend/pkg/handlers/files_handler.go).
THEOREM TypeIsInvariant == Spec => []TypeOK
  <1>1. IInv => TypeOK
    BY DEF IInv
  <1> QED BY <1>1, Inductive, PTL

\* What UploadFile answers is true of the sandbox: "written" is so unless a later
\* part was written to the same path, 200 means every file of the request, and
\* whatever a body that failed left on the disk is among the outcomes.
THEOREM AnswersAreTrueOfTheDisk == Spec => []OutcomesAreTrue
  <1>1. IInv => OutcomesAreTrue
    BY DEF IInv
  <1> QED BY <1>1, Inductive, PTL

\* UploadFile sends a file to the last relativePath since the file before it, or
\* else to its own name, whatever the parts are and in whatever order they come.
THEOREM PathsAreForTheNextFile == Spec => []NoPathIsInherited
  <1>1. IInv => NoPathIsInherited
    BY DEF IInv
  <1> QED BY <1>1, Inductive, PTL

-----------------------------------------------------------------------------
(* UploadQueue. No file is with two workers, or with one and in the queue:   *)
(* the queue and the list have no id twice, and a worker has an id exactly   *)
(* while it sends it.                                                        *)

(* Induction over a list. *)

\* A set of numbers has a least one, since < is well founded.
LEMMA Least ==
    ASSUME NEW T, T \subseteq Nat, T # {}
    PROVE  \E x \in T : \A y \in T : ~(y < x)
  <1> DEFINE R == {ss \in Nat \X Nat : ss[1] < ss[2]}
  <1>1. IsWellFoundedOn(R, Nat)
    BY NatLessThanWellFounded, Zenon DEF OpToRel
  <1>2. \A x, y \in Nat : <<y, x>> \in R <=> y < x
    OBVIOUS
  <1> HIDE DEF R
  <1>3. PICK x \in T : \A y \in T : ~(<<y, x>> \in R)
    BY <1>1, WFMin
  <1> QED BY <1>2, <1>3

\* So a set that has 0 and the successor of each of its numbers has them all.
LEMMA Induction ==
    ASSUME NEW S, 0 \in S, \A n \in Nat : n \in S => n + 1 \in S
    PROVE  \A n \in Nat : n \in S
  <1> SUFFICES ASSUME \E n \in Nat : n \notin S PROVE FALSE
    OBVIOUS
  <1>1. PICK x \in Nat \ S : \A y \in Nat \ S : ~(y < x)
    <2>1. Nat \ S # {} /\ Nat \ S \subseteq Nat
      OBVIOUS
    <2> QED BY <2>1, Least
  <1>2. x # 0 /\ x - 1 \in Nat /\ x - 1 \in S
    BY <1>1
  <1> QED BY <1>1, <1>2

\* One more member of the list is looked at.
Further(kept, x, S) == IF x \in S THEN Append(kept, x) ELSE kept

\* Only goes through the list member by member.
LEMMA OnlyIsDefined ==
    ASSUME NEW T, NEW list \in Seq(T), NEW S
    PROVE  \E f : /\ f[0] = <<>>
                  /\ \A i \in 1 .. Len(list) : f[i] = Further(f[i - 1], list[i], S)
                  /\ Only(list, S) = f[Len(list)]
  <1> DEFINE n == Len(list)
             Body(f, i) == IF i = 0 THEN <<>>
                           ELSE IF list[i] \in S THEN Append(f[i - 1], list[i]) ELSE f[i - 1]
             Upto(m, g) == \A i \in 0 .. m : g[i] = Body(g, i)
             M == {m \in Nat : \E g : Upto(m, g)}
  <1>0. n \in Nat
    OBVIOUS
  <1>1. 0 \in M
    <2>1. Upto(0, [i \in {0} |-> <<>>])
      OBVIOUS
    <2> QED BY <2>1
  <1>2. ASSUME NEW m \in Nat, m \in M
        PROVE  m + 1 \in M
    <2>1. PICK g : Upto(m, g)
      BY <1>2
    <2> DEFINE h == [i \in 0 .. m + 1 |-> IF i <= m THEN g[i] ELSE Body(g, m + 1)]
    <2>2. ASSUME NEW i \in 0 .. m + 1
          PROVE  h[i] = Body(h, i)
      <3>1. CASE i = m + 1
        <4>1. h[i] = Body(g, m + 1) /\ h[m] = g[m] /\ i # 0 /\ i - 1 = m
          BY <3>1
        <4> HIDE DEF h
        <4> QED BY <3>1, <4>1
      <3>2. CASE i <= m
        <4>1. h[i] = g[i] /\ i \in 0 .. m /\ (i # 0 => h[i - 1] = g[i - 1])
          BY <3>2
        <4>2. g[i] = Body(g, i)
          BY <2>1, <4>1
        <4> HIDE DEF h
        <4> QED BY <4>1, <4>2
      <3> QED BY <3>1, <3>2
    <2>3. Upto(m + 1, h)
      BY <2>2
    <2> HIDE DEF h, Upto
    <2> QED BY <2>3
  <1>3. n \in M
    <2> HIDE DEF M, n
    <2> QED BY <1>0, <1>1, <1>2, Induction
  <1>4. PICK g : Upto(n, g)
    BY <1>3
  <1> DEFINE f == [i \in 0 .. n |-> g[i]]
             kept == CHOOSE h : h = [i \in 0 .. n |-> Body(h, i)]
  <1>5. f = [i \in 0 .. n |-> Body(f, i)]
    <2>1. ASSUME NEW i \in 0 .. n
          PROVE  g[i] = Body(f, i)
      <3>1. g[i] = Body(g, i) /\ (i # 0 => i - 1 \in 0 .. n /\ f[i - 1] = g[i - 1])
        BY <1>0, <1>4
      <3> HIDE DEF f, n
      <3> QED BY <3>1
    <2> HIDE DEF Body
    <2> QED BY <2>1
  <1>6. kept = [i \in 0 .. n |-> Body(kept, i)]
    <2> HIDE DEF f, Body
    <2> QED BY <1>5
  <1>7. Only(list, S) = kept[n]
    BY DEF Only
  <1> HIDE DEF kept
  <1>8. kept[0] = <<>> /\ \A i \in 1 .. n : kept[i] = Further(kept[i - 1], list[i], S)
    <2>1. \A i \in 0 .. n : kept[i] = Body(kept, i)
      BY <1>6
    <2> HIDE DEF n
    <2> QED BY <1>0, <2>1 DEF Further
  <1> QED BY <1>7, <1>8

NoneTwice(s) == \A i, j \in DOMAIN s : s[i] = s[j] => i = j

LEMMA AppendedTo ==
    ASSUME NEW T, NEW s \in Seq(T), NEW x \in T
    PROVE  /\ Append(s, x) \in Seq(T)
           /\ ToSet(Append(s, x)) = ToSet(s) \cup {x}
           /\ NoneTwice(s) /\ x \notin ToSet(s) => NoneTwice(Append(s, x))
  <1> DEFINE a == Append(s, x)
  <1>1. /\ a \in Seq(T) /\ Len(s) \in Nat /\ DOMAIN s = 1 .. Len(s) /\ DOMAIN a = 1 .. Len(s) + 1
        /\ a[Len(s) + 1] = x
        /\ \A k \in 1 .. Len(s) : a[k] = s[k]
    BY AppendProperties
  <1> HIDE DEF a
  <1>2. ToSet(a) = ToSet(s) \cup {x}
    <2>1. ASSUME NEW y \in ToSet(a)
          PROVE  y \in ToSet(s) \cup {x}
      BY <1>1, <2>1 DEF ToSet
    <2>2. ASSUME NEW y \in ToSet(s) \cup {x}
          PROVE  y \in ToSet(a)
      BY <1>1, <2>2 DEF ToSet
    <2> QED BY <2>1, <2>2
  <1>3. ASSUME NoneTwice(s), x \notin ToSet(s)
        PROVE  NoneTwice(a)
    BY <1>1, <1>3 DEF NoneTwice, ToSet
  <1> QED BY <1>1, <1>2, <1>3 DEF a

\* Only keeps the members that are in S, and none of them twice.
LEMMA OnlyKeeps ==
    ASSUME NEW T, NEW list \in Seq(T), NEW S
    PROVE  /\ Only(list, S) \in Seq(T)
           /\ ToSet(Only(list, S)) = ToSet(list) \cap S
           /\ NoneTwice(list) => NoneTwice(Only(list, S))
  <1> DEFINE n == Len(list)
  <1>1. PICK f : /\ f[0] = <<>>
                 /\ \A i \in 1 .. n : f[i] = Further(f[i - 1], list[i], S)
                 /\ Only(list, S) = f[n]
    BY OnlyIsDefined
  <1>2. n \in Nat /\ DOMAIN list = 1 .. n /\ \A k \in 1 .. n : list[k] \in T
    OBVIOUS
  <1> HIDE DEF n
  <1> DEFINE First(m) == {list[k] : k \in 1 .. m}
             Holds(m) == /\ f[m] \in Seq(T)
                         /\ ToSet(f[m]) = First(m) \cap S
                         /\ NoneTwice(list) => NoneTwice(f[m])
             M == {m \in Nat : m <= n => Holds(m)}
  <1>3. 0 \in M
    <2>1. DOMAIN <<>> = {}
      OBVIOUS
    <2>2. ToSet(<<>>) = {} /\ NoneTwice(<<>>) /\ First(0) = {}
      BY <2>1 DEF ToSet, NoneTwice
    <2>3. <<>> \in Seq(T)
      BY EmptySeq
    <2> HIDE DEF First
    <2> QED BY <1>1, <2>2, <2>3
  <1>4. ASSUME NEW m \in Nat, m \in M
        PROVE  m + 1 \in M
    <2> SUFFICES ASSUME m + 1 <= n PROVE Holds(m + 1)
      OBVIOUS
    <2> DEFINE x == list[m + 1]
    <2>1. Holds(m)
      BY <1>2, <1>4
    <2>2. f[m + 1] = Further(f[m], x, S) /\ x \in T
      BY <1>1, <1>2
    <2>3. First(m + 1) = First(m) \cup {x}
      OBVIOUS
    <2>4. NoneTwice(list) => x \notin First(m)
      BY <1>2 DEF NoneTwice
    <2> HIDE DEF First, x
    <2>5. CASE x \in S
      <3>1. f[m + 1] = Append(f[m], x)
        BY <2>2, <2>5 DEF Further
      <3>2. /\ Append(f[m], x) \in Seq(T) /\ ToSet(Append(f[m], x)) = ToSet(f[m]) \cup {x}
            /\ NoneTwice(f[m]) /\ x \notin ToSet(f[m]) => NoneTwice(Append(f[m], x))
        BY <2>1, <2>2, AppendedTo
      <3> QED BY <2>1, <2>3, <2>4, <2>5, <3>1, <3>2
    <2>6. CASE x \notin S
      <3>1. f[m + 1] = f[m]
        BY <2>2, <2>6 DEF Further
      <3> QED BY <2>1, <2>3, <2>6, <3>1
    <2> QED BY <2>5, <2>6
  <1>5. n \in M
    <2> HIDE DEF M
    <2> QED BY <1>2, <1>3, <1>4, Induction
  <1>6. Holds(n)
    BY <1>2, <1>5
  <1>7. First(n) = ToSet(list)
    BY <1>2 DEF ToSet
  <1> HIDE DEF First
  <1> QED BY <1>1, <1>6, <1>7

\* A list has as many members as places when none is there twice.
LEMMA PlacesAreMembers ==
    ASSUME NEW T, NEW s \in Seq(T), NoneTwice(s)
    PROVE  Cardinality(ToSet(s)) = Len(s)
  <1>1. /\ Len(s) \in Nat /\ DOMAIN s = 1 .. Len(s) /\ s \in [1 .. Len(s) -> T]
    OBVIOUS
  <1>2. s \in [1 .. Len(s) -> ToSet(s)]
    BY <1>1 DEF ToSet
  <1>3. \A i, j \in 1 .. Len(s) : s[i] = s[j] => i = j
    BY <1>1 DEF NoneTwice
  <1>4. \A x \in ToSet(s) : \E i \in 1 .. Len(s) : s[i] = x
    BY <1>1 DEF ToSet
  <1>5. s \in Injection(1 .. Len(s), ToSet(s))
    BY <1>2, <1>3 DEF Injection, IsInjective
  <1>6. s \in Surjection(1 .. Len(s), ToSet(s))
    BY <1>2, <1>4 DEF Surjection
  <1>7. ExistsBijection(1 .. Len(s), ToSet(s))
    BY <1>5, <1>6 DEF ExistsBijection, Bijection
  <1> QED BY <1>1, <1>7, FS_CountingElements

\* What is left of a list once its first member is taken.
LEMMA TailKeeps ==
    ASSUME NEW T, NEW s \in Seq(T), s # <<>>, NoneTwice(s)
    PROVE  /\ Head(s) \in T /\ Head(s) \in ToSet(s)
           /\ Tail(s) \in Seq(T) /\ NoneTwice(Tail(s))
           /\ ToSet(Tail(s)) = ToSet(s) \ {Head(s)}
  <1>1. /\ Len(s) \in Nat \ {0} /\ DOMAIN s = 1 .. Len(s)
        /\ Tail(s) \in Seq(T) /\ Len(Tail(s)) = Len(s) - 1 /\ DOMAIN Tail(s) = 1 .. Len(s) - 1
        /\ Head(s) = s[1] /\ s[1] \in T
        /\ \A k \in 1 .. Len(s) - 1 : Tail(s)[k] = s[k + 1]
    BY HeadTailProperties, EmptySeq, ElementOfSeq
  <1>2. NoneTwice(Tail(s))
    BY <1>1 DEF NoneTwice
  <1>3. ASSUME NEW x \in ToSet(Tail(s))
        PROVE  x \in ToSet(s) /\ x # Head(s)
    <2>1. PICK k \in 1 .. Len(s) - 1 : x = s[k + 1]
      BY <1>1 DEF ToSet
    <2>2. k + 1 \in 1 .. Len(s) /\ 1 \in 1 .. Len(s) /\ k + 1 # 1
      BY <1>1
    <2> QED BY <1>1, <2>1, <2>2 DEF ToSet, NoneTwice
  <1>4. ASSUME NEW x \in ToSet(s), x # Head(s)
        PROVE  x \in ToSet(Tail(s))
    <2>1. PICK k \in 1 .. Len(s) : x = s[k] /\ k # 1
      BY <1>1, <1>4 DEF ToSet
    <2>2. k - 1 \in 1 .. Len(s) - 1 /\ Tail(s)[k - 1] = s[k]
      BY <1>1, <2>1
    <2> QED BY <1>1, <2>1, <2>2 DEF ToSet
  <1>5. Head(s) \in ToSet(s)
    BY <1>1 DEF ToSet
  <1> QED BY <1>1, <1>2, <1>3, <1>4, <1>5

-----------------------------------------------------------------------------

OnTheWay == {id \in Listed : item[id].status = "uploading"}
Busy == {worker[w].id : w \in Workers} \ {0}

\* No id is given twice, in the list or in the queue.
IdsAreGiven ==
    /\ NoneTwice(listed) /\ NoneTwice(queue)
    /\ Listed \subseteq 1 .. nextId /\ ToSet(queue) \subseteq 1 .. nextId
    /\ \A w \in Workers : worker[w].id <= nextId

\* A worker has a file exactly while it sends one, and no worker is left once
\* the upload is over.
WorkersAreAt ==
    /\ \A w \in Workers : worker[w].id = 0 <=> worker[w].at \in {"free", "gone"}
    /\ ~isUploading => \A w \in Workers : worker[w] = Gone

\* No two workers have the same file, none waits that is being sent, and while the
\* list is shown it says so of each.
SentByOne ==
    /\ \A v, w \in Workers : worker[v].id # 0 /\ worker[v].id = worker[w].id => v = w
    /\ \A w \in Workers : worker[w].id \notin ToSet(queue)
    /\ mounted => OnTheWay = Busy

\* Nothing is open once the page was left.
NoneIsOpen == \A id \in Ids : request[id] = "open" => mounted

QueueInv == QueueTypeOK /\ IdsAreGiven /\ WorkersAreAt /\ SentByOne /\ NoneIsOpen

LEMMA QueueInvSuffices ==
    ASSUME QueueInv
    PROVE  SentOnce
  <1>1. Cardinality(ToSet(queue)) = Len(queue)
    BY PlacesAreMembers DEF QueueInv, QueueTypeOK, IdsAreGiven
  <1> QED BY <1>1 DEF QueueInv, SentByOne, SentOnce, OnTheWay, Busy

LEMMA NoMembers == <<>> \in Seq(Ids) /\ ToSet(<<>>) = {} /\ NoneTwice(<<>>)
  <1>1. DOMAIN <<>> = {}
    OBVIOUS
  <1>2. ToSet(<<>>) = {} /\ NoneTwice(<<>>)
    BY <1>1 DEF ToSet, NoneTwice
  <1> QED BY <1>2, EmptySeq

LEMMA InitQueueInv ==
    ASSUME QueueInit
    PROVE  QueueInv
  <1>1. /\ listed = <<>> /\ queue = <<>> /\ nextId = 0 /\ Listed = {} /\ ToSet(queue) = {}
        /\ \A w \in Workers : worker[w] = Gone
        /\ Gone.id = 0 /\ Gone.at = "gone"
    BY NoMembers DEF QueueInit, Listed, Gone
  <1>2. QueueTypeOK
    <2>1. Unpicked \in [path : PickedPaths, status : {"unpicked", "queued", "refused", "uploading", "uploaded", "failed"}]
      <3>1. (CHOOSE p \in PickedPaths : TRUE) \in PickedPaths
        BY PickedAssumption
      <3> QED BY <3>1 DEF Unpicked
    <2>2. Gone \in [at : {"free", "gone", "headers", "sending"}, id : 0 .. MaxItems] /\ 0 \in 0 .. MaxItems
      BY BoundsAssumption DEF Gone
    <2> HIDE DEF Unpicked, Gone
    <2> QED BY <1>1, <2>1, <2>2, NoMembers DEF QueueInit, QueueTypeOK
  <1>3. IdsAreGiven
    BY <1>1, NoMembers DEF IdsAreGiven
  <1>4. WorkersAreAt
    BY <1>1 DEF WorkersAreAt
  <1>5. SentByOne
    BY <1>1 DEF SentByOne, OnTheWay, Busy, QueueInit, Gone
  <1>6. NoneIsOpen
    BY DEF NoneIsOpen, QueueInit
  <1> QED BY <1>2, <1>3, <1>4, <1>5, <1>6 DEF QueueInv

\* The list changes, and nothing else of what the upload looks at.
LEMMA ListChanges ==
    ASSUME QueueInv, UNCHANGED <<item, nextId, queue, worker, isUploading, mounted, request, stopRequested>>,
           listed' \in Seq(Ids), NoneTwice(listed'), ToSet(listed') \subseteq Listed,
           mounted => \A id \in Listed \ ToSet(listed') : item[id].status # "uploading"
    PROVE  QueueInv'
  <1>1. QueueTypeOK'
    BY DEF QueueInv, QueueTypeOK
  <1>2. IdsAreGiven'
    BY DEF QueueInv, IdsAreGiven, NoneTwice, Listed
  <1>3. WorkersAreAt'
    BY DEF QueueInv, WorkersAreAt
  <1>4. SentByOne'
    <2>1. Busy' = Busy
      BY DEF Busy
    <2>2. mounted => OnTheWay' = OnTheWay
      BY DEF OnTheWay, Listed
    <2> QED BY <2>1, <2>2 DEF QueueInv, SentByOne
  <1>5. NoneIsOpen'
    BY DEF QueueInv, NoneIsOpen
  <1> QED BY <1>1, <1>2, <1>3, <1>4, <1>5 DEF QueueInv

LEMMA RemoveItemInv ==
    ASSUME QueueInv, NEW id \in Ids, RemoveItem(id)
    PROVE  QueueInv'
  <1>1. listed \in Seq(Ids) /\ NoneTwice(listed)
    BY DEF QueueInv, QueueTypeOK, IdsAreGiven
  <1>2. /\ listed' \in Seq(Ids) /\ NoneTwice(listed')
        /\ ToSet(listed') = Listed \cap (Ids \ {id})
    BY <1>1, OnlyKeeps DEF RemoveItem, Listed
  <1>3. ASSUME NEW k \in Listed \ ToSet(listed')
        PROVE  k = id
    <2>1. Listed \subseteq Ids
      BY <1>1 DEF Listed, ToSet
    <2> QED BY <1>2, <2>1
  <1>4. /\ UNCHANGED <<item, nextId, queue, worker, isUploading, mounted, request, stopRequested>>
        /\ item[id].status # "uploading"
    BY DEF RemoveItem, upload
  <1> QED BY <1>2, <1>3, <1>4, ListChanges

LEMMA ClearListInv ==
    ASSUME QueueInv, ClearList
    PROVE  QueueInv'
  <1>1. /\ UNCHANGED <<item, nextId, queue, worker, isUploading, mounted, request, stopRequested>>
        /\ listed' = <<>> /\ mounted /\ ~isUploading
    BY DEF ClearList, upload
  <1>2. Busy = {}
    BY <1>1 DEF QueueInv, WorkersAreAt, Busy, Gone
  <1>3. \A id \in Listed : item[id].status # "uploading"
    BY <1>1, <1>2 DEF QueueInv, SentByOne, OnTheWay
  <1> QED BY <1>1, <1>3, NoMembers, ListChanges

LEMMA AddFileInv ==
    ASSUME QueueInv, AddFile
    PROVE  QueueInv'
  <1>1. PICK p \in PickedPaths, status \in {"queued", "refused"} :
          /\ item' = [item EXCEPT ![nextId'] = [path |-> p, status |-> status]]
          /\ listed' = Append(Only(listed, {k \in Ids : item[k].status = "uploading" \/ item[k].path # p}), nextId')
    BY DEF AddFile
  <1> DEFINE stay == {k \in Ids : item[k].status = "uploading" \/ item[k].path # p}
             rest == Only(listed, stay)
             new == nextId + 1
  <1>2. /\ nextId' = new /\ new \in Ids /\ nextId \in Nat /\ mounted
        /\ UNCHANGED <<queue, worker, isUploading, mounted, request, stopRequested>>
    BY BoundsAssumption DEF AddFile, upload, QueueInv, QueueTypeOK, Ids
  <1>3. listed \in Seq(Ids) /\ NoneTwice(listed) /\ Listed \subseteq 1 .. nextId /\ Listed \subseteq Ids
    BY DEF QueueInv, QueueTypeOK, IdsAreGiven, Listed, ToSet
  <1>4. rest \in Seq(Ids) /\ ToSet(rest) = Listed \cap stay /\ NoneTwice(rest)
    <2> HIDE DEF stay
    <2> QED BY <1>3, OnlyKeeps DEF Listed
  <1>5. new \notin Listed
    BY <1>2, <1>3
  <1>6. /\ listed' \in Seq(Ids) /\ ToSet(listed') = (Listed \cap stay) \cup {new} /\ NoneTwice(listed')
    <2>1. listed' = Append(rest, new)
      BY <1>1, <1>2
    <2> HIDE DEF stay, rest, new
    <2> QED BY <1>2, <1>4, <1>5, <2>1, AppendedTo
  <1>7. QueueTypeOK'
    <2>1. [path |-> p, status |-> status] \in
             [path : PickedPaths, status : {"unpicked", "queued", "refused", "uploading", "uploaded", "failed"}]
      OBVIOUS
    <2>2. item' \in [Ids -> [path : PickedPaths, status : {"unpicked", "queued", "refused", "uploading", "uploaded", "failed"}]]
      BY <1>1, <1>2, <2>1 DEF QueueInv, QueueTypeOK
    <2>3. nextId' \in 0 .. MaxItems
      BY <1>2 DEF Ids
    <2> QED BY <1>2, <1>6, <2>2, <2>3 DEF QueueInv, QueueTypeOK
  <1>8. IdsAreGiven'
    <2>1. ASSUME NEW k \in ToSet(listed')
          PROVE  k \in 1 .. new
      <3>1. k \in Listed \/ k = new
        BY <1>6
      <3>2. k \in 1 .. nextId \/ k = nextId + 1
        BY <1>3, <3>1
      <3> QED BY <1>2, <3>2
    <2>2. ToSet(queue) \subseteq 1 .. new /\ \A w \in Workers : worker[w].id <= new
      <3>1. ASSUME NEW w \in Workers
            PROVE  worker[w].id \in Nat
        BY BoundsAssumption DEF QueueInv, QueueTypeOK
      <3> QED BY <1>2, <3>1 DEF QueueInv, IdsAreGiven
    <2> QED BY <1>2, <1>6, <2>1, <2>2 DEF QueueInv, IdsAreGiven, Listed, NoneTwice
  <1>9. WorkersAreAt'
    BY <1>2 DEF QueueInv, WorkersAreAt
  <1>10. SentByOne'
    <2>1. item'[new].status # "uploading"
      <3>1. item'[new] = [path |-> p, status |-> status]
        BY <1>1, <1>2 DEF QueueInv, QueueTypeOK
      <3> QED BY <3>1
    <2>2. \A k \in Ids : k # new => item'[k] = item[k]
      BY <1>1, <1>2 DEF QueueInv, QueueTypeOK
    <2>3. OnTheWay' = OnTheWay
      <3>1. ASSUME NEW k \in OnTheWay'
            PROVE  k \in OnTheWay
        <4>1. k \in ToSet(listed') /\ item'[k].status = "uploading"
          BY DEF OnTheWay, Listed
        <4> QED BY <1>3, <1>6, <2>1, <2>2, <4>1 DEF OnTheWay
      <3>2. ASSUME NEW k \in OnTheWay
            PROVE  k \in OnTheWay'
        <4>1. k \in Listed /\ k \in Ids /\ k \in stay /\ k # new
          BY <1>3, <1>5 DEF OnTheWay
        <4>2. k \in ToSet(listed') /\ item'[k].status = "uploading"
          BY <1>6, <2>2, <4>1 DEF OnTheWay
        <4> QED BY <4>2 DEF OnTheWay, Listed
      <3> QED BY <3>1, <3>2
    <2>4. Busy' = Busy
      BY <1>2 DEF Busy
    <2> QED BY <1>2, <2>3, <2>4 DEF QueueInv, SentByOne
  <1>11. NoneIsOpen'
    BY <1>2 DEF QueueInv, NoneIsOpen
  <1> QED BY <1>7, <1>8, <1>9, <1>10, <1>11 DEF QueueInv

LEMMA StopInv ==
    ASSUME QueueInv, Stop
    PROVE  QueueInv'
  <1>1. UNCHANGED <<listed, item, nextId, queue, worker, isUploading, mounted, request>> /\ stopRequested' = TRUE
    BY DEF Stop
  <1> QED BY <1>1 DEF QueueInv, QueueTypeOK, IdsAreGiven, NoneTwice, WorkersAreAt, SentByOne, NoneIsOpen,
                      Listed, OnTheWay, Busy

\* Leaving the page closes what is open.
LEMMA UnmountInv ==
    ASSUME QueueInv, Unmount
    PROVE  QueueInv'
  <1>1. /\ UNCHANGED <<listed, item, nextId, queue, worker, isUploading>>
        /\ stopRequested' = TRUE /\ mounted' = FALSE
        /\ request' = [id \in Ids |-> IF request[id] = "open" THEN "closed" ELSE request[id]]
    BY DEF Unmount
  <1>2. request' \in [Ids -> {"none", "open", "closed"}]
    BY <1>1 DEF QueueInv, QueueTypeOK
  <1>3. QueueTypeOK'
    BY <1>1, <1>2 DEF QueueInv, QueueTypeOK
  <1>4. IdsAreGiven' /\ WorkersAreAt' /\ SentByOne'
    BY <1>1 DEF QueueInv, IdsAreGiven, NoneTwice, WorkersAreAt, SentByOne, Listed
  <1>5. NoneIsOpen'
    BY <1>1 DEF NoneIsOpen
  <1> QED BY <1>3, <1>4, <1>5 DEF QueueInv

\* Every worker starts with no file, and the queue is part of the list.
LEMMA HandleUploadInv ==
    ASSUME QueueInv, HandleUpload
    PROVE  QueueInv'
  <1> DEFINE sendable == {id \in Ids : Sendable(id)}
  <1>1. /\ UNCHANGED <<listed, item, nextId, mounted, request>>
        /\ queue' = Only(listed, sendable)
        /\ worker' = [w \in Workers |-> IF w <= Len(queue') THEN Free ELSE Gone]
        /\ stopRequested' = FALSE /\ isUploading' = TRUE /\ ~isUploading
    BY DEF HandleUpload
  <1>2. listed \in Seq(Ids) /\ NoneTwice(listed) /\ Listed \subseteq 1 .. nextId /\ nextId \in Nat
    BY DEF QueueInv, QueueTypeOK, IdsAreGiven
  <1>3. queue' \in Seq(Ids) /\ ToSet(queue') \subseteq Listed /\ NoneTwice(queue')
    <2> HIDE DEF sendable
    <2> QED BY <1>1, <1>2, OnlyKeeps DEF Listed
  <1>4. \A w \in Workers : worker'[w] \in {Free, Gone}
    BY <1>1
  <1>5. \A w \in Workers : worker'[w].id = 0 /\ worker'[w].at \in {"free", "gone"}
    BY <1>4 DEF Free, Gone
  <1>6. QueueTypeOK'
    <2>1. Free \in [at : {"free", "gone", "headers", "sending"}, id : 0 .. MaxItems]
      BY BoundsAssumption DEF Free
    <2>2. Gone \in [at : {"free", "gone", "headers", "sending"}, id : 0 .. MaxItems]
      BY BoundsAssumption DEF Gone
    <2>3. worker' \in [Workers -> [at : {"free", "gone", "headers", "sending"}, id : 0 .. MaxItems]]
      BY <1>1, <2>1, <2>2
    <2> QED BY <1>1, <1>3, <2>3 DEF QueueInv, QueueTypeOK
  <1>7. IdsAreGiven'
    BY <1>1, <1>2, <1>3, <1>5 DEF QueueInv, IdsAreGiven, NoneTwice, Listed
  <1>8. WorkersAreAt'
    BY <1>1, <1>5 DEF WorkersAreAt
  <1>9. SentByOne'
    <2>1. Busy = {} /\ Busy' = {}
      BY <1>1, <1>5 DEF QueueInv, WorkersAreAt, Busy, Gone
    <2>2. OnTheWay' = OnTheWay
      BY <1>1 DEF OnTheWay, Listed
    <2>3. \A w \in Workers : worker'[w].id \notin ToSet(queue')
      BY <1>2, <1>3, <1>5
    <2> QED BY <1>1, <1>5, <2>1, <2>2, <2>3 DEF QueueInv, SentByOne
  <1>10. NoneIsOpen'
    BY <1>1 DEF QueueInv, NoneIsOpen
  <1> QED BY <1>6, <1>7, <1>8, <1>9, <1>10 DEF QueueInv

LEMMA WorkerEndsInv ==
    ASSUME QueueInv, NEW w \in Workers, WorkerEnds(w)
    PROVE  QueueInv'
  <1>1. /\ UNCHANGED <<listed, item, nextId, queue, stopRequested, isUploading, mounted, request>>
        /\ worker' = [worker EXCEPT ![w] = Gone] /\ worker[w] = Free
    BY DEF WorkerEnds
  <1>2. Gone \in [at : {"free", "gone", "headers", "sending"}, id : 0 .. MaxItems]
    BY BoundsAssumption DEF Gone
  <1>3. QueueTypeOK'
    BY <1>1, <1>2 DEF QueueInv, QueueTypeOK
  <1>4. \A v \in Workers : worker'[v] = IF v = w THEN Gone ELSE worker[v]
    BY <1>1 DEF QueueInv, QueueTypeOK
  <1>5. Gone.id = 0 /\ Gone.at = "gone" /\ Free.id = 0
    BY DEF Gone, Free
  <1>6. \A v \in Workers : worker'[v].id = worker[v].id
    BY <1>1, <1>4, <1>5
  <1>7. IdsAreGiven'
    BY <1>1, <1>6 DEF QueueInv, IdsAreGiven, NoneTwice, Listed
  <1>8. WorkersAreAt'
    BY <1>1, <1>4, <1>5 DEF QueueInv, WorkersAreAt
  <1>9. SentByOne'
    <2>1. Busy' = Busy
      BY <1>6 DEF Busy
    <2>2. OnTheWay' = OnTheWay
      BY <1>1 DEF OnTheWay, Listed
    <2> QED BY <1>1, <1>6, <2>1, <2>2 DEF QueueInv, SentByOne
  <1>10. NoneIsOpen'
    BY <1>1 DEF QueueInv, NoneIsOpen
  <1> QED BY <1>3, <1>7, <1>8, <1>9, <1>10 DEF QueueInv

Items == [Ids -> [path : PickedPaths, status : {"unpicked", "queued", "refused", "uploading", "uploaded", "failed"}]]
Tasks == [at : {"free", "gone", "headers", "sending"}, id : 0 .. MaxItems]

\* Only the file it is about has its status changed.
LEMMA UpdateItemIs ==
    ASSUME QueueInv, NEW id \in Ids, NEW status \in {"uploading", "uploaded", "failed"},
           UpdateItem(id, status)
    PROVE  /\ item' \in Items
           /\ id \in Listed => item'[id].status = status
           /\ \A k \in Ids \ {id} : item'[k] = item[k]
  <1>1. item \in Items
    BY DEF QueueInv, QueueTypeOK, Items
  <1>2. CASE id \in Listed
    <2>1. item' = [item EXCEPT ![id].status = status]
      BY <1>2 DEF UpdateItem
    <2>2. item' \in Items
      BY <1>1, <2>1 DEF Items
    <2>3. item'[id].status = status /\ \A k \in Ids \ {id} : item'[k] = item[k]
      BY <1>1, <2>1 DEF Items
    <2> QED BY <2>2, <2>3
  <1>3. CASE id \notin Listed
    BY <1>1, <1>3 DEF UpdateItem
  <1> QED BY <1>2, <1>3

\* A worker is done with its file, which is no longer on its way.
LEMMA IsFreeAgain ==
    ASSUME QueueInv, NEW w \in Workers, worker[w].id # 0,
           worker' = [worker EXCEPT ![w] = Free],
           UNCHANGED <<listed, nextId, queue, stopRequested, isUploading, mounted>>,
           item' \in Items, request' \in [Ids -> {"none", "open", "closed"}],
           \A k \in Ids : request'[k] = "open" => request[k] = "open",
           mounted => /\ item'[worker[w].id].status # "uploading"
                      /\ \A k \in Ids \ {worker[w].id} : item'[k] = item[k]
    PROVE  QueueInv'
  <1>1. Free \in Tasks /\ Free.id = 0 /\ Free.at = "free"
    BY BoundsAssumption DEF Free, Tasks
  <1>2. worker \in [Workers -> Tasks] /\ \A v \in Workers : worker'[v] = IF v = w THEN Free ELSE worker[v]
    BY DEF QueueInv, QueueTypeOK, Tasks
  <1>3. QueueTypeOK'
    <2>1. worker' \in [Workers -> Tasks]
      BY <1>1, <1>2
    <2> QED BY <2>1 DEF QueueInv, QueueTypeOK, Items, Tasks
  <1>4. isUploading
    BY DEF QueueInv, WorkersAreAt, Gone
  <1>5. nextId \in Nat /\ Listed \subseteq Ids /\ 0 \notin ToSet(queue)
    BY BoundsAssumption DEF QueueInv, QueueTypeOK, IdsAreGiven, Listed, ToSet, Ids
  <1>6. IdsAreGiven'
    BY <1>1, <1>2, <1>5 DEF QueueInv, IdsAreGiven, NoneTwice, Listed
  <1>7. WorkersAreAt'
    BY <1>1, <1>2, <1>4 DEF QueueInv, WorkersAreAt
  <1>8. SentByOne'
    <2>1. \A v \in Workers : worker[v].id # 0 /\ worker[v].id = worker[w].id => v = w
      BY DEF QueueInv, SentByOne
    <2>2. Busy' = Busy \ {worker[w].id}
      <3>1. ASSUME NEW k \in Busy'
            PROVE  k \in Busy \ {worker[w].id}
        <4>1. PICK v \in Workers : k = worker'[v].id /\ k # 0
          BY DEF Busy
        <4> QED BY <1>1, <1>2, <2>1, <4>1 DEF Busy
      <3>2. ASSUME NEW k \in Busy, k # worker[w].id
            PROVE  k \in Busy'
        <4>1. PICK v \in Workers : k = worker[v].id /\ k # 0
          BY DEF Busy
        <4>2. worker'[v].id = k
          BY <1>2, <3>2, <4>1
        <4> QED BY <4>1, <4>2 DEF Busy
      <3> QED BY <3>1, <3>2
    <2>3. mounted => OnTheWay' = OnTheWay \ {worker[w].id}
      BY <1>5 DEF OnTheWay, Listed
    <2>4. \A u, v \in Workers : worker'[v].id # 0 /\ worker'[v].id = worker'[u].id => u = v
      BY <1>1, <1>2 DEF QueueInv, SentByOne
    <2>5. \A v \in Workers : worker'[v].id \notin ToSet(queue)
      BY <1>1, <1>2, <1>5 DEF QueueInv, SentByOne
    <2> QED BY <2>2, <2>3, <2>4, <2>5 DEF QueueInv, SentByOne
  <1>9. NoneIsOpen'
    BY DEF QueueInv, NoneIsOpen
  <1> QED BY <1>3, <1>6, <1>7, <1>8, <1>9 DEF QueueInv

\* What a worker has, it has of the list while that is shown.
LEMMA HasOneOfTheList ==
    ASSUME QueueInv, NEW w \in Workers, worker[w].at \in {"headers", "sending"}
    PROVE  /\ worker[w].id \in Ids /\ worker[w].id # 0
           /\ mounted => worker[w].id \in Listed /\ item[worker[w].id].status = "uploading"
  <1>1. worker[w].id # 0
    BY DEF QueueInv, WorkersAreAt
  <1>2. worker[w].id \in Ids
    BY <1>1, BoundsAssumption DEF QueueInv, QueueTypeOK, Ids
  <1>3. worker[w].id \in Busy
    BY <1>1 DEF Busy
  <1> QED BY <1>1, <1>2, <1>3 DEF QueueInv, SentByOne, OnTheWay

LEMMA RequestSettlesInv ==
    ASSUME QueueInv, NEW w \in Workers, RequestSettles(w)
    PROVE  QueueInv'
  <1> DEFINE id == worker[w].id
  <1>1. /\ UNCHANGED <<listed, nextId, queue, stopRequested, isUploading, mounted>>
        /\ worker' = [worker EXCEPT ![w] = Free]
        /\ request' = [request EXCEPT ![id] = "closed"]
    BY DEF RequestSettles
  <1>2. id \in Ids /\ id # 0 /\ (mounted => id \in Listed)
    BY HasOneOfTheList DEF RequestSettles
  <1>3. /\ request' \in [Ids -> {"none", "open", "closed"}]
        /\ \A k \in Ids : request'[k] = "open" => request[k] = "open"
    BY <1>1, <1>2 DEF QueueInv, QueueTypeOK
  <1>4. item' \in Items /\ (mounted => item'[id].status # "uploading" /\ \A k \in Ids \ {id} : item'[k] = item[k])
    <2>1. CASE mounted
      <3>1. PICK status \in {"uploaded", "failed"} : UpdateItem(id, status)
        BY <2>1 DEF RequestSettles, Aborted
      <3> HIDE DEF id
      <3> QED BY <1>2, <2>1, <3>1, UpdateItemIs
    <2>2. CASE ~mounted
      BY <2>2 DEF RequestSettles, Aborted, QueueInv, QueueTypeOK, Items
    <2> QED BY <2>1, <2>2
  <1> QED BY <1>1, <1>2, <1>3, <1>4, IsFreeAgain

\* The request is made, and nobody else is told.
LEMMA RequestIsMade ==
    ASSUME QueueInv, NEW w \in Workers, worker[w].at = "headers", mounted,
           request' = [request EXCEPT ![worker[w].id] = "open"],
           worker' = [worker EXCEPT ![w].at = "sending"],
           UNCHANGED <<listed, item, nextId, queue, stopRequested, isUploading, mounted>>
    PROVE  QueueInv'
  <1>1. worker \in [Workers -> Tasks]
    BY DEF QueueInv, QueueTypeOK, Tasks
  <1>2. /\ worker' \in [Workers -> Tasks]
        /\ \A v \in Workers : worker'[v].id = worker[v].id
        /\ worker'[w].at = "sending" /\ \A v \in Workers : v # w => worker'[v] = worker[v]
    BY <1>1 DEF Tasks
  <1>3. QueueTypeOK'
    BY <1>2 DEF QueueInv, QueueTypeOK, Tasks
  <1>4. isUploading
    BY DEF QueueInv, WorkersAreAt, Gone
  <1>5. IdsAreGiven'
    BY <1>2 DEF QueueInv, IdsAreGiven, NoneTwice, Listed
  <1>6. WorkersAreAt'
    BY <1>2, <1>4 DEF QueueInv, WorkersAreAt
  <1>7. SentByOne'
    <2>1. Busy' = Busy
      BY <1>2 DEF Busy
    <2>2. OnTheWay' = OnTheWay
      BY DEF OnTheWay, Listed
    <2> QED BY <1>2, <2>1, <2>2 DEF QueueInv, SentByOne
  <1>8. NoneIsOpen'
    BY DEF NoneIsOpen
  <1> QED BY <1>3, <1>5, <1>6, <1>7, <1>8 DEF QueueInv

LEMMA SendRequestInv ==
    ASSUME QueueInv, NEW w \in Workers, SendRequest(w)
    PROVE  QueueInv'
  <1> DEFINE id == worker[w].id
  <1>1. worker[w].at = "headers" /\ UNCHANGED <<listed, nextId, queue, stopRequested, isUploading, mounted>>
    BY DEF SendRequest
  <1>2. id \in Ids /\ id # 0 /\ (mounted => id \in Listed)
    BY <1>1, HasOneOfTheList
  <1>3. item \in Items /\ request \in [Ids -> {"none", "open", "closed"}]
    BY DEF QueueInv, QueueTypeOK, Items
  <1>4. CASE /\ ~Aborted /\ request' = [request EXCEPT ![id] = "open"]
             /\ worker' = [worker EXCEPT ![w].at = "sending"] /\ UNCHANGED item
    BY <1>1, <1>4, RequestIsMade DEF Aborted
  <1>5. CASE /\ ~Aborted /\ UpdateItem(id, "failed")
             /\ worker' = [worker EXCEPT ![w] = Free] /\ UNCHANGED request
    <2>1. /\ item' \in Items /\ item'[id].status = "failed"
          /\ \A k \in Ids \ {id} : item'[k] = item[k]
      <3> HIDE DEF id
      <3> QED BY <1>2, <1>5, UpdateItemIs DEF Aborted
    <2> QED BY <1>1, <1>2, <1>3, <1>5, <2>1, IsFreeAgain
  <1>6. CASE /\ Aborted /\ worker' = [worker EXCEPT ![w] = Free] /\ UNCHANGED <<item, request>>
    BY <1>1, <1>2, <1>3, <1>6, IsFreeAgain DEF Aborted
  <1> QED BY <1>4, <1>5, <1>6 DEF SendRequest

\* A file that waits is nobody's yet; the worker that takes it marks it.
LEMMA TakeNextInv ==
    ASSUME QueueInv, NEW w \in Workers, TakeNext(w)
    PROVE  QueueInv'
  <1> DEFINE h == Head(queue)
             task == [at |-> "headers", id |-> h]
  <1>1. /\ UNCHANGED <<listed, nextId, stopRequested, isUploading, mounted, request>>
        /\ queue' = Tail(queue) /\ queue # <<>> /\ worker[w] = Free
    BY DEF TakeNext, HasNext
  <1>2. /\ worker \in [Workers -> Tasks] /\ queue \in Seq(Ids) /\ item \in Items /\ nextId \in Nat
        /\ ToSet(queue) \subseteq 1 .. nextId /\ Listed \subseteq Ids /\ NoneTwice(queue)
    BY DEF QueueInv, QueueTypeOK, Tasks, Items, IdsAreGiven, Listed, ToSet
  <1>3. /\ h \in Ids /\ h \in ToSet(queue) /\ queue' \in Seq(Ids) /\ NoneTwice(queue')
        /\ ToSet(queue') = ToSet(queue) \ {h}
    BY <1>1, <1>2, TailKeeps
  <1>4. h # 0 /\ h <= nextId
    BY <1>2, <1>3
  <1>5. \A v \in Workers : worker[v].id # h
    BY <1>3 DEF QueueInv, SentByOne
  <1>6. isUploading
    BY <1>1 DEF QueueInv, WorkersAreAt, Gone, Free
  <1>7. CASE h \notin Listed
    <2>1. UNCHANGED <<worker, item>>
      BY <1>7 DEF TakeNext
    <2> HIDE DEF h
    <2>2. QueueTypeOK'
      BY <1>1, <1>3, <2>1 DEF QueueInv, QueueTypeOK
    <2>3. IdsAreGiven'
      BY <1>1, <1>2, <1>3, <2>1 DEF QueueInv, IdsAreGiven, NoneTwice, Listed
    <2>4. WorkersAreAt' /\ NoneIsOpen'
      BY <1>1, <2>1 DEF QueueInv, WorkersAreAt, NoneIsOpen
    <2>5. SentByOne'
      BY <1>1, <1>3, <2>1 DEF QueueInv, SentByOne, OnTheWay, Busy, Listed
    <2> QED BY <2>2, <2>3, <2>4, <2>5 DEF QueueInv
  <1>8. CASE h \in Listed
    <2>1. worker' = [worker EXCEPT ![w] = task] /\ UpdateItem(h, "uploading")
      BY <1>8 DEF TakeNext
    <2>2. task \in Tasks /\ task.id = h /\ task.at = "headers"
      BY <1>3 DEF Tasks, Ids
    <2>3. item' \in Items /\ item'[h].status = "uploading" /\ \A k \in Ids \ {h} : item'[k] = item[k]
      <3> HIDE DEF h
      <3> QED BY <1>3, <1>8, <2>1, UpdateItemIs
    <2> HIDE DEF h, task
    <2>4. worker' \in [Workers -> Tasks] /\ \A v \in Workers : worker'[v] = IF v = w THEN task ELSE worker[v]
      BY <1>2, <2>1, <2>2
    <2>5. QueueTypeOK'
      BY <1>1, <1>3, <2>3, <2>4 DEF QueueInv, QueueTypeOK, Tasks, Items
    <2>6. IdsAreGiven'
      BY <1>1, <1>2, <1>3, <1>4, <2>2, <2>4 DEF QueueInv, IdsAreGiven, NoneTwice, Listed
    <2>7. WorkersAreAt' /\ NoneIsOpen'
      BY <1>1, <1>4, <1>6, <2>2, <2>4 DEF QueueInv, WorkersAreAt, NoneIsOpen
    <2>8. SentByOne'
      <3>1. Busy' = Busy \cup {h}
        <4>1. ASSUME NEW k \in Busy'
              PROVE  k \in Busy \cup {h}
          BY <2>2, <2>4, <4>1 DEF Busy
        <4>2. ASSUME NEW k \in Busy
              PROVE  k \in Busy'
          <5>1. PICK v \in Workers : k = worker[v].id /\ k # 0
            BY DEF Busy
          <5>2. v # w
            BY <1>1, <5>1 DEF Free
          <5> QED BY <2>4, <5>1, <5>2 DEF Busy
        <4>3. h \in Busy'
          BY <1>4, <2>2, <2>4 DEF Busy
        <4> QED BY <4>1, <4>2, <4>3
      <3>2. OnTheWay' = OnTheWay \cup {h}
        BY <1>1, <1>2, <1>8, <2>3 DEF OnTheWay, Listed
      <3>3. \A u, v \in Workers : worker'[u].id # 0 /\ worker'[u].id = worker'[v].id => u = v
        BY <1>5, <2>2, <2>4 DEF QueueInv, SentByOne
      <3>4. \A v \in Workers : worker'[v].id \notin ToSet(queue')
        BY <1>3, <2>2, <2>4 DEF QueueInv, SentByOne
      <3> QED BY <1>1, <3>1, <3>2, <3>3, <3>4 DEF QueueInv, SentByOne
    <2> QED BY <2>5, <2>6, <2>7, <2>8 DEF QueueInv
  <1> QED BY <1>7, <1>8

LEMMA QueueInvInductive ==
    ASSUME QueueInv, [QueueNext]_queueVars
    PROVE  QueueInv'
  <1>1. CASE UploadEnds
    <2>1. /\ UNCHANGED <<listed, item, nextId, queue, worker, stopRequested, mounted, request>>
          /\ isUploading' = FALSE /\ \A w \in Workers : worker[w] = Gone
      BY <1>1 DEF UploadEnds
    <2>2. QueueTypeOK' /\ IdsAreGiven' /\ NoneIsOpen'
      BY <2>1 DEF QueueInv, QueueTypeOK, IdsAreGiven, NoneTwice, NoneIsOpen, Listed
    <2>3. WorkersAreAt'
      BY <2>1 DEF QueueInv, WorkersAreAt
    <2>4. SentByOne'
      BY <2>1 DEF QueueInv, SentByOne, Listed, OnTheWay, Busy
    <2> QED BY <2>2, <2>3, <2>4 DEF QueueInv
  <1>2. CASE UNCHANGED queueVars
    BY <1>2 DEF queueVars, QueueInv, QueueTypeOK, IdsAreGiven, NoneTwice, WorkersAreAt, SentByOne,
                NoneIsOpen, Listed, OnTheWay, Busy
  <1>3. CASE User
    BY <1>3, AddFileInv, ClearListInv, StopInv, UnmountInv, HandleUploadInv, RemoveItemInv DEF User
  <1>4. CASE \E w \in Workers : Worker(w)
    BY <1>4, TakeNextInv, WorkerEndsInv, SendRequestInv, RequestSettlesInv DEF Worker
  <1> QED BY <1>1, <1>2, <1>3, <1>4 DEF QueueNext

LEMMA QueueIsInvariant == QueueSpec => []QueueInv
  <1>1. QueueInit => QueueInv
    BY InitQueueInv
  <1>2. QueueInv /\ [QueueNext]_queueVars => QueueInv'
    BY QueueInvInductive
  <1> QED BY <1>1, <1>2, PTL DEF QueueSpec

\* No file is sent twice: the list and the workers agree on what is on its way.
THEOREM FilesAreSentOnce == QueueSpec => []SentOnce
  <1>1. QueueInv => SentOnce
    BY QueueInvSuffices
  <1> QED BY <1>1, QueueIsInvariant, PTL

\* A request is made only for a file of the list that is marked as on its way,
\* and none is open after the page was left.
THEOREM WantedFilesAreSent == QueueSpec => OnlyWantedIsSent
  <1> DEFINE Wanted == \A id \in Ids : request'[id] = "open" =>
                         mounted' /\ (request[id] = "open"
                                       \/ (id \in Listed /\ item[id].status = "uploading"))
  <1>1. ASSUME QueueInv, QueueInv', [QueueNext]_queueVars
        PROVE  Wanted
    <2>1. ASSUME NEW id \in Ids, request'[id] = "open", request[id] # "open"
          PROVE  id \in Listed /\ item[id].status = "uploading"
      <3>1. request \in [Ids -> {"none", "open", "closed"}]
        BY <1>1 DEF QueueInv, QueueTypeOK
      <3>2. PICK w \in Workers : SendRequest(w)
        BY <1>1, <2>1, <3>1
        DEF QueueNext, User, Worker, queueVars, AddFile, RemoveItem, ClearList, Stop, Unmount, HandleUpload,
            TakeNext, WorkerEnds, RequestSettles, UploadEnds
      <3>3. ~Aborted /\ id = worker[w].id /\ worker[w].at = "headers"
        BY <2>1, <3>1, <3>2 DEF SendRequest
      <3> QED BY <1>1, <3>3, HasOneOfTheList DEF Aborted
    <2>2. ASSUME NEW id \in Ids, request'[id] = "open"
          PROVE  mounted'
      BY <1>1, <2>2 DEF QueueInv, NoneIsOpen
    <2> QED BY <2>1, <2>2
  <1>2. QueueInv /\ QueueInv' /\ [QueueNext]_queueVars => [Wanted]_queueVars
    BY <1>1
  <1> QED BY <1>2, QueueIsInvariant, PTL DEF QueueSpec, OnlyWantedIsSent

=============================================================================
