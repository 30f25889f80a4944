------------------------------- MODULE Upload -------------------------------
(***************************************************************************)
(* A multipart upload into a sandbox: UploadFile and the methods of        *)
(* `upload` in backend/pkg/handlers/files_handler.go. Parts are handled    *)
(* in the order they arrive; each file is written by `dd` through          *)
(* ExecWithStdinStream, of which only the promise (ExecContract) is used.  *)
(*                                                                         *)
(* External: the sandbox (what is on its disk, what mkdir and dd answer)   *)
(* and the browser, whose body may end early or grow past the limit at any *)
(* read.                                                                   *)
(***************************************************************************)
EXTENDS Integers, Sequences

CONSTANTS Paths,     \* destination paths of files
          DirOf,     \* DirOf[p]: the directory of p
          Above,     \* Above[d]: d and the directories above it
          Bad,       \* a path or file name that is refused
          NoPath,    \* no relativePath in hand
          Bodies     \* bound: the sequences of parts a request may carry

VARIABLES parts,     \* the parts of the body
          declared,  \* Content-Length: "fits" or "tooLarge"
          pos,       \* the part being handled
          pc,        \* where the handler is
          rel,       \* relativePath
          resolved,
          madeDirs,
          files,     \* outcomes, in order: path, ok, and the part's position
          body,      \* recordingBody: "ok", "cut" or "tooLarge"
          reply,     \* NoReply, or the answer
          disk,      \* sandbox: [part, whole] of what is at each path
          dirs       \* sandbox: directories that exist

vars == <<parts, declared, pos, pc, rel, resolved, madeDirs, files, body,
          reply, disk, dirs>>
posted == <<parts, declared>>
sandbox == <<disk, dirs>>

Dirs == {DirOf[p] : p \in Paths} \cup UNION {Above[d] : d \in {DirOf[p] : p \in Paths}}

ASSUME PathsAssumption ==
    /\ Bad \notin Paths /\ NoPath \notin Paths \cup {Bad}
    /\ \A p \in Paths : DirOf[p] \in Above[DirOf[p]]
ASSUME BodiesAssumption ==
    Bodies \subseteq Seq([kind : {"path", "file", "other"}, name : Paths \cup {Bad}])

NoReply == [status |-> 0, files |-> FALSE]
Reply(status, withFiles) == [status |-> status, files |-> withFiles]
Untouched == [part |-> 0, whole |-> FALSE]

Init ==
    /\ parts \in Bodies
    /\ declared \in {"fits", "tooLarge"}
    /\ pos = 1
    /\ pc = "begin"
    /\ rel = NoPath
    /\ resolved = FALSE
    /\ madeDirs = {}
    /\ files = <<>>
    /\ body = "ok"
    /\ reply = NoReply
    /\ disk = [p \in Paths |-> Untouched]
    /\ dirs = {}

\* An error response: the rest of the body is taken before the handler ends.
Answer(r) == reply' = r /\ pc' = "drain"

\* Fault: the outcomes so far are left out of the answer.
Fault_FailInput(outcomes, how) ==
    /\ body' = how
    /\ Answer(Reply(IF how = "tooLarge" THEN 413 ELSE 400, FALSE))

\* failInput: the body's own error decides the status, and the outcomes go
\* with it once there are any.
FailInput(outcomes, how) ==
    /\ body' = how
    /\ Answer(Reply(IF how = "tooLarge" THEN 413 ELSE 400, outcomes # <<>>))

-----------------------------------------------------------------------------

\* A declared length past the limit, or a request that is not multipart, is
\* refused without reading on.
Refuse ==
    /\ pc = "begin"
    /\ \/ declared = "tooLarge" /\ reply' = Reply(413, FALSE)
       \/ declared = "fits" /\ reply' = Reply(400, FALSE)
    /\ pc' = "done"
    /\ UNCHANGED <<posted, pos, rel, resolved, madeDirs, files, body, sandbox>>

Begin ==
    /\ pc = "begin" /\ declared = "fits"
    /\ pc' = "parts"
    /\ UNCHANGED <<posted, pos, rel, resolved, madeDirs, files, body, reply, sandbox>>

\* NextPart, or reading a relativePath field, meets an error of the body.
PartFails ==
    /\ pc = "parts"
    /\ \E how \in {"cut", "tooLarge"} : FailInput(files, how)
    /\ UNCHANGED <<posted, pos, rel, resolved, madeDirs, files, sandbox>>

RelativePathPart ==
    /\ pc = "parts" /\ pos <= Len(parts)
    /\ parts[pos].kind = "path"
    /\ rel' = parts[pos].name
    /\ pos' = pos + 1
    /\ UNCHANGED <<posted, pc, resolved, madeDirs, files, body, reply, sandbox>>

\* A field of another name, or a file field without a file name.
OtherPart ==
    /\ pc = "parts" /\ pos <= Len(parts)
    /\ parts[pos].kind = "other"
    /\ pos' = pos + 1
    /\ UNCHANGED <<posted, pc, rel, resolved, madeDirs, files, body, reply, sandbox>>

\* Where the file in hand goes: its relativePath, or its own name.
Dest == IF rel # NoPath THEN rel ELSE parts[pos].name

FilePart ==
    /\ pc = "parts" /\ pos <= Len(parts)
    /\ parts[pos].kind = "file"
    /\ IF Dest = Bad THEN Answer(Reply(400, FALSE))
       ELSE pc' = (IF resolved THEN "mkdir" ELSE "resolve") /\ UNCHANGED reply
    /\ UNCHANGED <<posted, pos, rel, resolved, madeDirs, files, body, sandbox>>

\* sandboxes.Get, once per upload.
Resolve ==
    /\ pc = "resolve"
    /\ \/ resolved' = TRUE /\ pc' = "mkdir" /\ UNCHANGED reply
       \/ Answer(Reply(404, FALSE)) /\ UNCHANGED resolved
    /\ UNCHANGED <<posted, pos, rel, madeDirs, files, body, sandbox>>

\* Fault: the next file inherits the path.
Fault_RecordKeepsPath(outcome) ==
    /\ files' = Append(files, outcome)
    /\ pos' = pos + 1
    /\ pc' = "parts"
    /\ UNCHANGED <<rel, reply>>

\* The file is dealt with, and the next one does not inherit its path.
Record(outcome) ==
    /\ files' = Append(files, outcome)
    /\ pos' = pos + 1
    /\ rel' = NoPath
    /\ pc' = "parts"
    /\ UNCHANGED reply

Outcome(ok) == [path |-> Dest, ok |-> ok, part |-> pos]

DirMade ==
    /\ pc = "mkdir" /\ DirOf[Dest] \in madeDirs
    /\ pc' = "exec"
    /\ UNCHANGED <<posted, pos, rel, resolved, madeDirs, files, body, reply, sandbox>>

\* mkdir -p: made with everything above it; refused by the sandbox, which
\* fails this file only; or the call fails, which fails the upload.
MakeDir ==
    /\ pc = "mkdir" /\ DirOf[Dest] \notin madeDirs
    /\ \/ /\ dirs' = dirs \cup Above[DirOf[Dest]]
          /\ madeDirs' = madeDirs \cup Above[DirOf[Dest]]
          /\ pc' = "exec"
          /\ UNCHANGED <<pos, rel, files, reply, disk>>
       \/ /\ Record(Outcome(FALSE))
          /\ UNCHANGED <<madeDirs, sandbox>>
       \/ /\ Answer(Reply(502, FALSE))
          /\ UNCHANGED <<pos, rel, madeDirs, files, sandbox>>
    /\ UNCHANGED <<posted, resolved, body>>

Call(reader, stdin, call) == INSTANCE ExecContract

\* What dd leaves: all of the file when it had all of its input and exits 0;
\* otherwise what was there before, or part of the new content, or (it may
\* fail after the last write, or its exit may be lost) all of it.
Written(stdin, exit) ==
    IF stdin = "all" /\ exit = 0
    THEN {[part |-> pos, whole |-> TRUE]}
    ELSE {disk[Dest], [part |-> pos, whole |-> FALSE]}
         \cup (IF stdin = "all" THEN {[part |-> pos, whole |-> TRUE]} ELSE {})

WriteFile ==
    /\ pc = "exec"
    /\ \E reader \in {"reading", "ended", "failed"}, stdin \in {"part", "all"} :
       \E r \in Call(reader, stdin, NoReply)!Results :
          /\ stdin = "all" => reader = "ended"
          /\ Call(reader, stdin, NoReply)!Promised(r)
          /\ \E w \in Written(stdin, r.exit) : disk' = [disk EXCEPT ![Dest] = w]
          /\ \/ /\ reader = "failed"
                /\ files' = Append(files, Outcome(FALSE))
                /\ \E how \in {"cut", "tooLarge"} : FailInput(files', how)
                /\ UNCHANGED <<pos, rel>>
             \/ /\ reader # "failed" /\ r.err # "none"
                /\ Answer(Reply(502, FALSE))
                /\ UNCHANGED <<pos, rel, files, body>>
             \/ /\ reader # "failed" /\ r.err = "none"
                /\ Record(Outcome(r.exit = 0))
                /\ UNCHANGED body
    /\ UNCHANGED <<posted, resolved, madeDirs, dirs>>

\* The closing boundary: respond.
Respond ==
    /\ pc = "parts" /\ pos > Len(parts)
    /\ reply' = IF files = <<>> THEN Reply(400, FALSE)
                ELSE IF \E k \in DOMAIN files : ~files[k].ok THEN Reply(502, TRUE)
                ELSE Reply(200, TRUE)
    /\ pc' = "done"
    /\ UNCHANGED <<posted, pos, rel, resolved, madeDirs, files, body, sandbox>>

Drain ==
    /\ pc = "drain"
    /\ pc' = "done"
    /\ UNCHANGED <<posted, pos, rel, resolved, madeDirs, files, body, reply, sandbox>>

Next == \/ Refuse \/ Begin \/ PartFails \/ RelativePathPart \/ OtherPart
        \/ FilePart \/ Resolve \/ DirMade \/ MakeDir \/ WriteFile
        \/ Respond \/ Drain

Spec == Init /\ [][Next]_vars

-----------------------------------------------------------------------------

\* Every variable has its type.
TypeOK ==
    /\ parts \in Bodies /\ declared \in {"fits", "tooLarge"}
    /\ pos \in 1 .. Len(parts) + 1
    /\ pc \in {"begin", "parts", "resolve", "mkdir", "exec", "drain", "done"}
    /\ rel \in Paths \cup {Bad, NoPath}
    /\ resolved \in BOOLEAN
    /\ madeDirs \subseteq Dirs /\ dirs \subseteq Dirs
    /\ files \in Seq([path : Paths, ok : BOOLEAN, part : 1 .. Len(parts)])
    /\ body \in {"ok", "cut", "tooLarge"}
    /\ reply.status \in {0, 200, 400, 404, 413, 502} /\ reply.files \in BOOLEAN
    /\ disk \in [Paths -> [part : 0 .. Len(parts), whole : BOOLEAN]]

FileParts == {k \in DOMAIN parts : parts[k].kind = "file"}

\* The path a file part is sent with: the last relativePath field since the
\* file before it, or else its own name.
SentAs(k) ==
    LET since == {j \in 1 .. k - 1 :
                    /\ parts[j].kind = "path"
                    /\ \A f \in FileParts : f < k => f < j}
    IN IF since = {} THEN parts[k].name
       ELSE parts[CHOOSE j \in since : \A i \in since : i <= j].name

\* The answer is true of the sandbox's disk. An outcome that says "written" is
\* so, unless a later part was written to the same path; 200 means that every
\* file of the request was written, not only those the handler got to; and
\* of a body that was cut or grew too large, whatever got to the disk, also
\* the file that is short there, is among the outcomes.
OutcomesAreTrue ==
    /\ reply.files => \A k \in DOMAIN files :
         files[k].ok /\ (\A j \in k + 1 .. Len(files) : files[j].path # files[k].path)
             => disk[files[k].path] = [part |-> files[k].part, whole |-> TRUE]
    /\ reply.status = 200 =>
         /\ {files[k].part : k \in DOMAIN files} = FileParts
         /\ \A k \in DOMAIN files : files[k].ok
    /\ body # "ok" /\ reply.status # 0 =>
         \A p \in Paths : disk[p].part # 0 =>
            /\ reply.files
            /\ \E k \in DOMAIN files : files[k].path = p /\ files[k].part = disk[p].part

\* A relative path is used for the file it precedes and for no other.
NoPathIsInherited ==
    \A k \in DOMAIN files : files[k].path = SentAs(files[k].part)

=============================================================================
