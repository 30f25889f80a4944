------------------------------ MODULE MCUploads ------------------------------
(* Bounds of Uploads for TLC. *)
EXTENDS Uploads

CONSTANTS a, b, top, sub

\* a is in a directory below that of b.
MCDirOf == [p \in {a, b} |-> IF p = a THEN sub ELSE top]
MCAbove == [d \in {top, sub} |-> IF d = sub THEN {top, sub} ELSE {top}]

Part(kind, name) == [kind |-> kind, name |-> name]
AllParts == {Part("path", a), Part("path", Bad), Part("file", b), Part("file", a),
             Part("other", a)}
\* Up to four parts: two files, each with a path of its own.
MCBodies == UNION {[1 .. n -> AllParts] : n \in 0 .. 4}
=============================================================================
