------------------------ MODULE FollowUpstreamProofs ------------------------
(***************************************************************************)
(* Proofs about FollowUpstream, for any number of releases and lines, any  *)
(* number of people's commits, merges, rebases, deletions and failures:    *)
(* no person's commit is lost, and a line that is left has its branch.     *)
(***************************************************************************)
EXTENDS FollowUpstream, SequenceTheorems, FiniteSetTheorems, TLAPS

IsTree(n) == DOMAIN n = DOMAIN NoNext
IsSeq(s) == s \in Seq({s[k] : k \in DOMAIN s})

\* The variables have the fields their actions read.
Shapes ==
    /\ DOMAIN run = DOMAIN NoRun /\ DOMAIN main = DOMAIN NoRun.main /\ DOMAIN run.main = DOMAIN NoRun.main
    /\ IsTree(next) /\ IsTree(run.next)
    /\ main.at \in Nat /\ run.main.at \in Nat
    /\ IsFiniteSet(merged) /\ pushed \subseteq Work
    /\ IsSeq(run.todo)
    /\ run.pc # "publish" => run.todo = <<>>

\* A commit of next is known by its name: a run that finds next where it read it
\* knows what is on it, and nothing is on a next that does not exist.
NextIsKnown ==
    /\ next.sha = 0 => next.work = {}
    /\ run.next.sha = 0 => run.next.work = {}
    /\ run.next.sha = next.sha => run.next.work = next.work

Of(n) == n.work \cap Work

\* What next was merged at is in main, and main loses nothing.
MergedIsMain ==
    /\ next.sha \in merged => Of(next) \subseteq main.work
    /\ run.next.sha \in merged => Of(run.next) \subseteq main.work
    /\ run.main.work \subseteq main.work

Steps(op) == {k \in DOMAIN run.todo : run.todo[k].op = op}

\* What a run is about to push replaces what it read, with all the work that is
\* not in main, under a name of its own.
PushIsSafe ==
    \A k \in Steps("push") :
        LET tree == run.todo[k].tree IN
        /\ IsTree(tree) /\ run.todo[k].expected = run.next.sha
        /\ tree.sha = run.built /\ run.built # 0 /\ run.built # run.next.sha
        /\ Of(run.next) \subseteq tree.work \cup main.work
        /\ next.sha = run.built => next.work = tree.work
        /\ run.built \in merged => Of(tree) \subseteq main.work
        /\ \A j \in Steps("push") : run.todo[j].tree = tree

\* A branch it may take away again is one it made, with no work on it.
CreateIsSafe ==
    \A k \in Steps("create") :
        run.todo[k].created # 0 =>
            /\ run.todo[k].created = run.built
            /\ next.sha = run.built => next.work = {}
            /\ \A j \in Steps("push") : run.todo[j].tree.work = {}

\* What it is about to delete is in main, or nothing.
DeleteIsSafe ==
    \A k \in Steps("delete") :
        run.todo[k].expected = run.next.sha /\ Of(run.next) \subseteq main.work

\* A tree that takes main to another line, on the release it is for.
Leaves(n) == n.pin \in StableReleases /\ LineOf[n.pin] # LineOf[n.from] /\ ~n.carried

\* Whatever takes main to another line has the branch of the line it leaves, or
\* the run makes that branch before it pushes.
LinesAreKept ==
    /\ Leaves(next) => LineOf[next.from] \in kept
    /\ run.kept \subseteq kept
    /\ \A k \in Steps("push") :
         LET tree == run.todo[k].tree IN
         Leaves(tree) => \/ LineOf[tree.from] \in kept
                         \/ run.todo[1].op = "branch" /\ run.todo[1].line = LineOf[tree.from]

WorkInv == Shapes /\ NextIsKnown /\ MergedIsMain /\ PushIsSafe /\ CreateIsSafe /\ DeleteIsSafe /\ WorkIsKept
IInv == WorkInv /\ LinesAreKept

-----------------------------------------------------------------------------

\* There is always a name that no commit has.
LEMMA FreshIsFresh ==
    ASSUME IsFiniteSet(merged)
    PROVE  /\ Fresh \in Nat \ {0}
           /\ Fresh \notin merged /\ Fresh # next.sha /\ Fresh # run.next.sha /\ Fresh # run.built
  <1> DEFINE S1 == merged \cup {next.sha}
             S2 == S1 \cup {run.next.sha}
             S3 == S2 \cup {run.built}
             n == Cardinality(merged)
             I == 1 .. (n + 4)
  <1>1. n \in Nat
    BY FS_CardinalityType
  <1>2. IsFiniteSet(S1) /\ Cardinality(S1) \in Nat /\ Cardinality(S1) <= n + 1
    BY <1>1, FS_AddElement, FS_CardinalityType
  <1>3. IsFiniteSet(S2) /\ Cardinality(S2) \in Nat /\ Cardinality(S2) <= n + 2
    <2> HIDE DEF S1
    <2> QED BY <1>1, <1>2, FS_AddElement, FS_CardinalityType
  <1>4. IsFiniteSet(S3) /\ Cardinality(S3) \in Nat /\ Cardinality(S3) <= n + 3
    <2> HIDE DEF S2, n
    <2>1. /\ IsFiniteSet(S2 \cup {run.built})
          /\ Cardinality(S2 \cup {run.built}) \in {Cardinality(S2), Cardinality(S2) + 1}
      BY <1>3, FS_AddElement
    <2> QED BY <1>1, <1>3, <2>1
  <1>5. ~(I \subseteq S3)
    <2> SUFFICES ASSUME I \subseteq S3 PROVE FALSE
      OBVIOUS
    <2>1. Cardinality(I) = n + 4
      BY <1>1, FS_Interval
    <2>2. Cardinality(I) <= Cardinality(S3)
      <3> HIDE DEF I, S3
      <3> QED BY <1>4, FS_Subset
    <2> HIDE DEF I, S3, n
    <2> QED BY <1>1, <1>4, <2>1, <2>2
  <1>6. \E s \in I : s \notin merged \union {next.sha, run.next.sha, run.built}
    BY <1>5
  <1>7. Fresh \in I /\ Fresh \notin merged \union {next.sha, run.next.sha, run.built}
    BY <1>6 DEF Fresh
  <1> QED BY <1>1, <1>7

LEMMA SeqIsSeq ==
    ASSUME NEW S, NEW s \in Seq(S)
    PROVE  IsSeq(s) /\ \A k \in DOMAIN s : s[k] \in S
  <1>1. s \in [1 .. Len(s) -> S] /\ Len(s) \in Nat /\ DOMAIN s = 1 .. Len(s)
    OBVIOUS
  <1>2. s \in [1 .. Len(s) -> {s[k] : k \in DOMAIN s}]
    BY <1>1
  <1> QED BY <1>1, <1>2, SeqDef DEF IsSeq

\* What is left of the steps once the first is taken.
LEMMA TailOf ==
    ASSUME NEW s, IsSeq(s), s # <<>>
    PROVE  /\ IsSeq(Tail(s)) /\ Head(s) = s[1] /\ 1 \in DOMAIN s
           /\ \A k \in DOMAIN Tail(s) : k + 1 \in DOMAIN s /\ Tail(s)[k] = s[k + 1]
  <1> DEFINE S == {s[k] : k \in DOMAIN s}
  <1>1. s \in Seq(S)
    BY DEF IsSeq
  <1> HIDE DEF S
  <1>2. /\ Tail(s) \in Seq(S) /\ Len(Tail(s)) = Len(s) - 1 /\ Head(s) = s[1]
        /\ \A k \in 1 .. Len(Tail(s)) : Tail(s)[k] = s[k + 1]
        /\ Len(s) \in Nat \ {0} /\ DOMAIN s = 1 .. Len(s) /\ DOMAIN Tail(s) = 1 .. Len(Tail(s))
    BY <1>1, HeadTailProperties, EmptySeq
  <1>3. IsSeq(Tail(s))
    BY <1>2, SeqIsSeq
  <1>4. 1 \in DOMAIN s /\ \A k \in 1 .. Len(Tail(s)) : k + 1 \in DOMAIN s
    BY <1>2
  <1> QED BY <1>2, <1>3, <1>4

LEMMA NoSteps == IsSeq(<<>>) /\ DOMAIN <<>> = {}
  <1>1. <<>> \in Seq({})
    BY EmptySeq
  <1>2. IsSeq(<<>>)
    BY <1>1, SeqIsSeq
  <1> QED BY <1>2

\* A rebase keeps the work that main does not contain, and puts the tree on main.
LEMMA Rebased ==
    ASSUME NEW n, IsTree(n), NEW m, NEW r \in Rebase(n, m), ~r.conflict
    PROVE  /\ IsTree(r.tree) /\ n.work \ Contents(m) \subseteq r.tree.work
           /\ r.tree = n \/ (r.tree.from = m.pin /\ ~r.tree.carried)
           /\ n.work = {} => r.tree.work = {}
           /\ m.at <= n.base => r.tree = n
  <1> DEFINE first == n.first /\ n.pin # m.pin
             tree == [n EXCEPT !.base = m.at, !.from = m.pin, !.pin = IF first THEN n.pin ELSE m.pin,
                               !.first = first, !.work = @ \ Contents(m), !.carried = FALSE]
  <1>1. \/ r = [tree |-> n, conflict |-> FALSE] /\ r.tree = n
        \/ ~(m.at <= n.base) /\ r = [tree |-> tree, conflict |-> FALSE] /\ r.tree = tree
    <2>1. \/ m.at <= n.base /\ r = [tree |-> n, conflict |-> FALSE]
          \/ ~(m.at <= n.base) /\ r = [tree |-> tree, conflict |-> FALSE]
          \/ r = [tree |-> n, conflict |-> TRUE]
      BY DEF Rebase
    <2>2. CASE r = [tree |-> n, conflict |-> TRUE]
      BY <2>2
    <2> QED BY <2>1, <2>2
  <1>2. /\ IsTree(tree) /\ tree.work = n.work \ Contents(m) /\ tree.from = m.pin /\ tree.carried = FALSE
    BY DEF IsTree, NoNext
  <1> QED BY <1>1, <1>2

\* A pin move keeps the work, and leaves the tree on the target.
LEMMA PinMoved ==
    ASSUME NEW n, IsTree(n), NEW m, NEW t, NEW p \in MovePin(n, m, t), ~p.conflict
    PROVE  /\ IsTree(p.tree) /\ n.work \subseteq p.tree.work /\ p.tree.pin = t
           /\ p.tree = n \/ (p.tree.from = m.pin /\ ~p.tree.carried)
           /\ p.tree = n \/ p.tree.work = People(n, m)
  <1>1. \/ AtTarget(n, t) /\ p.tree = n
        \/ p.tree = Moved(n, m, t)
    <2>1. \/ AtTarget(n, t) /\ p = [tree |-> n, conflict |-> FALSE]
          \/ p = [tree |-> Moved(n, m, t), conflict |-> FALSE]
          \/ p = [tree |-> n, conflict |-> TRUE]
      BY DEF MovePin
    <2>2. CASE p = [tree |-> n, conflict |-> TRUE]
      BY <2>2
    <2> QED BY <2>1, <2>2
  <1>2. CASE AtTarget(n, t) /\ p.tree = n
    BY <1>2 DEF AtTarget
  <1>3. CASE p.tree = Moved(n, m, t)
    BY <1>3 DEF Moved, People, IsTree, NoNext
  <1> QED BY <1>1, <1>2, <1>3

\* What next is to become has the work of the next that was read, unless that is
\* in main already, and is made for the commit of main the run is for.
LEMMA Prepared ==
    ASSUME NEW n, IsTree(n), n.sha = 0 => n.work = {}, NEW m, m.at \in Nat, NEW t, NEW spent \in BOOLEAN,
           NEW o \in Prepare(m, t, n, spent)
    PROVE  /\ o.action = "delete" => spent \/ n.work = {}
           /\ o.action \in {"create", "update"} =>
                /\ t # None /\ IsTree(o.tree) /\ o.tree.sha = Fresh
                /\ o.tree.pin = t /\ o.tree.from = m.pin /\ ~o.tree.carried
                /\ spent \/ n.work \ Contents(m) \subseteq o.tree.work
                /\ o.action = "create" => o.tree.work = {}
  <1>1. CASE t = None
    <2>1. o = [action |-> IF ~Exists(n) THEN "none" ELSE IF spent \/ People(n, m) = {} THEN "delete" ELSE "leave",
               stage |-> "", tree |-> n]
      BY <1>1 DEF Prepare
    <2>2. o.action = IF ~Exists(n) THEN "none" ELSE IF spent \/ People(n, m) = {} THEN "delete" ELSE "leave"
      BY <2>1
    <2>3. People(n, m) = {} => n.work = {}
      BY DEF People
    <2> QED BY <2>2, <2>3
  <1>2. CASE t # None
    <2> DEFINE new == [sha |-> 0, base |-> m.at, from |-> m.pin, pin |-> m.pin, first |-> FALSE, work |-> {},
                       carried |-> FALSE]
               start == IF ~Exists(n) \/ spent THEN new ELSE n
               Outcomes(r) ==
                 IF r.conflict THEN {[action |-> "conflict", stage |-> "rebase", tree |-> n]}
                 ELSE {IF p.conflict THEN [action |-> "conflict", stage |-> "pin", tree |-> n]
                       ELSE IF ~Exists(n) THEN [action |-> "create", stage |-> "", tree |-> [p.tree EXCEPT !.sha = Fresh]]
                       ELSE IF p.tree = n THEN [action |-> "none", stage |-> "", tree |-> n]
                       ELSE [action |-> "update", stage |-> "", tree |-> [p.tree EXCEPT !.sha = Fresh]]
                       : p \in MovePin(r.tree, m, t)}
    <2>1. PICK r \in Rebase(start, m) : o \in Outcomes(r)
      <3>1. Prepare(m, t, n, spent) = UNION {Outcomes(r) : r \in Rebase(start, m)}
        BY <1>2, Zenon DEF Prepare
      <3> HIDE DEF Outcomes, start
      <3> QED BY <3>1
    <2>2. new.work = {} /\ new.from = m.pin /\ new.base = m.at /\ IsTree(new) /\ ~new.carried
      BY DEF IsTree, NoNext
    <2> HIDE DEF new
    <2>3. IsTree(start)
      BY <2>2
    <2>4. CASE r.conflict
      <3>1. o.action = "conflict"
        BY <2>1, <2>4
      <3> QED BY <3>1
    <2>5. CASE ~r.conflict
      <3> HIDE DEF start
      <3>1. /\ IsTree(r.tree) /\ start.work \ Contents(m) \subseteq r.tree.work
            /\ r.tree = start \/ (r.tree.from = m.pin /\ ~r.tree.carried)
            /\ start.work = {} => r.tree.work = {}
            /\ m.at <= start.base => r.tree = start
        BY <2>1, <2>3, <2>5, Rebased
      <3>2. PICK p \in MovePin(r.tree, m, t) :
              o = IF p.conflict THEN [action |-> "conflict", stage |-> "pin", tree |-> n]
                  ELSE IF ~Exists(n) THEN [action |-> "create", stage |-> "", tree |-> [p.tree EXCEPT !.sha = Fresh]]
                  ELSE IF p.tree = n THEN [action |-> "none", stage |-> "", tree |-> n]
                  ELSE [action |-> "update", stage |-> "", tree |-> [p.tree EXCEPT !.sha = Fresh]]
        BY <2>1, <2>5
      <3>3. CASE p.conflict \/ (Exists(n) /\ p.tree = n)
        <4>1. o.action \in {"conflict", "none"}
          BY <3>2, <3>3
        <4> QED BY <4>1
      <3>4. CASE ~p.conflict /\ (~Exists(n) \/ p.tree # n)
        <4>1. /\ IsTree(p.tree) /\ r.tree.work \subseteq p.tree.work /\ p.tree.pin = t
              /\ p.tree = r.tree \/ (p.tree.from = m.pin /\ ~p.tree.carried)
              /\ p.tree = r.tree \/ p.tree.work = People(r.tree, m)
          BY <3>1, <3>4, PinMoved
        <4>2. /\ o.action = IF Exists(n) THEN "update" ELSE "create"
              /\ o.tree = [p.tree EXCEPT !.sha = Fresh]
          BY <3>2, <3>4
        <4>3. /\ IsTree(o.tree) /\ o.tree.sha = Fresh /\ o.tree.pin = t /\ o.tree.from = p.tree.from
              /\ o.tree.carried = p.tree.carried /\ o.tree.work = p.tree.work
          BY <4>1, <4>2 DEF IsTree, NoNext
        <4>4. p.tree.from = m.pin /\ ~p.tree.carried
          <5>1. p.tree = start => start = new
            BY <3>4 DEF start
          <5> QED BY <2>2, <3>1, <4>1, <5>1
        <4>5. spent \/ n.work \ Contents(m) \subseteq o.tree.work
          BY <3>1, <4>1, <4>3 DEF start, Exists
        <4>6. ~Exists(n) => o.tree.work = {}
          <5> SUFFICES ASSUME ~Exists(n) PROVE p.tree.work = {}
            BY <4>3
          <5>1. start = new
            BY DEF start
          <5>2. r.tree.work = {} /\ r.tree.base = m.at
            BY <2>2, <3>1, <5>1
          <5>3. People(r.tree, m) = {}
            BY <5>2 DEF People
          <5> QED BY <4>1, <5>2, <5>3
        <4> QED BY <1>2, <4>2, <4>3, <4>4, <4>5, <4>6
      <3> QED BY <3>3, <3>4
    <2> QED BY <2>4, <2>5
  <1> QED BY <1>1, <1>2

LEMMA WhenType ==
    ASSUME NEW S, NEW c, NEW x, c => x \in S
    PROVE  When(c, x) \in Seq(S)
  <1>1. CASE c
    BY <1>1 DEF When
  <1>2. CASE ~c
    BY <1>2, EmptySeq DEF When
  <1> QED BY <1>1, <1>2

LEMMA ConcatType ==
    ASSUME NEW S, NEW r \in Seq(S), NEW s \in Seq(S)
    PROVE  /\ r \o s \in Seq(S)
           /\ r # <<>> => r \o s # <<>> /\ (r \o s)[1] = r[1]
  <1>1. /\ r \o s \in Seq(S) /\ Len(r \o s) = Len(r) + Len(s) /\ Len(r) \in Nat /\ Len(s) \in Nat
        /\ \A i \in 1 .. Len(r) + Len(s) : (r \o s)[i] = IF i <= Len(r) THEN r[i] ELSE s[i - Len(r)]
    BY ConcatProperties
  <1>2. r # <<>> => Len(r) \in Nat \ {0}
    BY EmptySeq
  <1>3. r \o s = <<>> => Len(r \o s) = 0
    OBVIOUS
  <1> QED BY <1>1, <1>2, <1>3

\* The steps a run decides on: what is pushed is what next is to become, what is
\* deleted was to be, and the branch of the line that is left comes first.
LEMMA Built ==
    ASSUME NEW o
    PROVE  /\ IsSeq(Build(o))
           /\ \A k \in DOMAIN Build(o) :
                LET x == Build(o)[k] IN
                /\ x.op = "push" => /\ o.action \in {"create", "update"}
                                   /\ x.tree = o.tree /\ x.expected = run.next.sha
                /\ x.op = "create" => x.created = IF o.action = "create" THEN o.tree.sha ELSE 0
                /\ x.op = "delete" => o.action = "delete" /\ x.expected = run.next.sha
           /\ \A k \in DOMAIN Build(o) :
                /\ Build(o)[k].op = "push"
                /\ LineOf[run.target] # LineOf[run.main.pin] /\ run.target \in StableReleases
                => \/ LineOf[run.main.pin] \in run.kept
                   \/ Build(o)[1].op = "branch" /\ Build(o)[1].line = LineOf[run.main.pin]
  <1> DEFINE t == run.target
             own == run.pull
             new == t # None /\ LineOf[t] # LineOf[run.main.pin] /\ t \in StableReleases
             pin == o.tree.pin
             draft == pin \notin StableReleases
             key == ConflictKey(o.stage)
             push == o.action \in {"create", "update"}
             unkept == new /\ LineOf[run.main.pin] \notin run.kept
             Branch == [op |-> "branch", line |-> LineOf[run.main.pin]]
             Pushing == [op |-> "push", tree |-> o.tree, expected |-> run.next.sha]
             Create == [op |-> "create", title |-> pin, draft |-> draft,
                        created |-> IF o.action = "create" THEN o.tree.sha ELSE 0]
             Edit == [op |-> "edit", id |-> own.id, title |-> pin]
             Ready == [op |-> "ready", id |-> own.id, draft |-> draft]
             Commented == [op |-> "comment", key |-> key]
             Auto_ == [op |-> "auto", id |-> own.id]
             Close == [op |-> "close", id |-> own.id]
             Delete == [op |-> "delete", expected |-> run.next.sha]
             W1 == When(unkept, Branch)
             W2 == When(push, Pushing)
             W3 == When(own.id = 0, Create)
             W4 == When(own.id # 0 /\ own.title # pin, Edit)
             W5 == When(own.id # 0 /\ own.draft # draft, Ready)
             W6 == When(o.action = "conflict" /\ (own.id = 0 \/ key \notin own.told), Commented)
             W7 == When(~draft /\ o.action # "conflict" /\ pin = t /\ ~own.auto, Auto_)
             Sound(x) == /\ x.op = "push" => /\ o.action \in {"create", "update"}
                                            /\ x.tree = o.tree /\ x.expected = run.next.sha
                         /\ x.op = "create" => x.created = IF o.action = "create" THEN o.tree.sha ELSE 0
                         /\ x.op = "delete" => o.action = "delete" /\ x.expected = run.next.sha
             All == {Branch, Pushing, Create, Edit, Ready, Commented, Auto_, Close, Delete}
             S == {x \in All : Sound(x)}
  <1>1. \/ o.action = "delete" /\ Build(o) = When(own.id # 0, Close) \o <<Delete>>
        \/ Build(o) = <<>>
        \/ t # None /\ Build(o) = W1 \o W2 \o W3 \o W4 \o W5 \o W6 \o W7
    BY Zenon DEF Build
  <1>2. /\ Branch \in S /\ Edit \in S /\ Ready \in S /\ Commented \in S /\ Auto_ \in S /\ Close \in S
        /\ Create \in S
        /\ push => Pushing \in S
        /\ o.action = "delete" => Delete \in S
    OBVIOUS
  <1> HIDE DEF S, All
  <1>3. ASSUME NEW q \in Seq(S), Build(o) = q
        PROVE  IsSeq(Build(o)) /\ \A k \in DOMAIN Build(o) : Sound(Build(o)[k])
    <2>1. IsSeq(q) /\ \A k \in DOMAIN q : q[k] \in S
      BY SeqIsSeq
    <2>2. \A x \in S : Sound(x)
      BY DEF S
    <2> HIDE DEF Sound
    <2> QED BY <1>3, <2>1, <2>2
  <1>4. CASE o.action = "delete" /\ Build(o) = When(own.id # 0, Close) \o <<Delete>>
    <2>1. When(own.id # 0, Close) \in Seq(S) /\ <<Delete>> \in Seq(S)
      BY <1>2, <1>4, WhenType
    <2>2. When(own.id # 0, Close) \o <<Delete>> \in Seq(S)
      BY <2>1, ConcatType
    <2>3. IsSeq(Build(o)) /\ \A k \in DOMAIN Build(o) : Sound(Build(o)[k])
      BY <1>3, <1>4, <2>2
    <2>4. \A k \in DOMAIN Build(o) : Build(o)[k].op # "push"
      BY <1>4, <2>3
    <2> QED BY <2>3, <2>4
  <1>5. CASE Build(o) = <<>>
    BY <1>5, NoSteps
  <1>6. CASE t # None /\ Build(o) = W1 \o W2 \o W3 \o W4 \o W5 \o W6 \o W7
    <2>1. /\ W1 \in Seq(S) /\ W2 \in Seq(S) /\ W3 \in Seq(S) /\ W4 \in Seq(S)
          /\ W5 \in Seq(S) /\ W6 \in Seq(S) /\ W7 \in Seq(S)
      BY <1>2, WhenType
    <2>2. unkept => W1 # <<>> /\ W1[1] = Branch
      BY DEF When
    <2> HIDE DEF W1, W2, W3, W4, W5, W6, W7
    <2> DEFINE C2 == W1 \o W2
               C3 == C2 \o W3
               C4 == C3 \o W4
               C5 == C4 \o W5
               C6 == C5 \o W6
               C7 == C6 \o W7
    <2>3. C7 \in Seq(S) /\ (W1 # <<>> => C7[1] = W1[1])
      <3>1. C2 \in Seq(S) /\ (W1 # <<>> => C2 # <<>> /\ C2[1] = W1[1])
        BY <2>1, ConcatType
      <3> HIDE DEF C2
      <3>2. C3 \in Seq(S) /\ (W1 # <<>> => C3 # <<>> /\ C3[1] = W1[1])
        BY <2>1, <3>1, ConcatType
      <3> HIDE DEF C3
      <3>3. C4 \in Seq(S) /\ (W1 # <<>> => C4 # <<>> /\ C4[1] = W1[1])
        BY <2>1, <3>2, ConcatType
      <3> HIDE DEF C4
      <3>4. C5 \in Seq(S) /\ (W1 # <<>> => C5 # <<>> /\ C5[1] = W1[1])
        BY <2>1, <3>3, ConcatType
      <3> HIDE DEF C5
      <3>5. C6 \in Seq(S) /\ (W1 # <<>> => C6 # <<>> /\ C6[1] = W1[1])
        BY <2>1, <3>4, ConcatType
      <3> HIDE DEF C6
      <3> QED BY <2>1, <3>5, ConcatType
    <2>4. IsSeq(Build(o)) /\ \A k \in DOMAIN Build(o) : Sound(Build(o)[k])
      BY <1>3, <1>6, <2>3
    <2>5. unkept => Build(o)[1].op = "branch" /\ Build(o)[1].line = LineOf[run.main.pin]
      <3>1. Build(o) = C7
        BY <1>6
      <3>2. Branch.op = "branch" /\ Branch.line = LineOf[run.main.pin]
        OBVIOUS
      <3> HIDE DEF C7, Branch
      <3> QED BY <2>2, <2>3, <3>1, <3>2
    <2>6. LineOf[run.target] # LineOf[run.main.pin] /\ run.target \in StableReleases =>
            LineOf[run.main.pin] \in run.kept \/ unkept
      BY <1>6
    <2> HIDE DEF unkept
    <2> QED BY <2>4, <2>5, <2>6
  <1> QED BY <1>1, <1>4, <1>5, <1>6

-----------------------------------------------------------------------------
(* The steps preserve the invariants. *)

\* What the run has still to do stays safe: it only gets less, main only grows, and
\* the name the run built is the run's tree wherever it appears.
LEMMA StepsStaySafe ==
    ASSUME PushIsSafe, CreateIsSafe, DeleteIsSafe,
           run'.next = run.next, run'.built = run.built,
           \A k \in DOMAIN run'.todo : \E j \in DOMAIN run.todo : run'.todo[k] = run.todo[j],
           main.work \subseteq main'.work,
           \/ next' = next \/ next'.sha # run.built \/ next'.sha = 0
           \/ \E j \in Steps("push") : next' = run.todo[j].tree,
           run.built \in merged' => run.built \in merged \/ (run.built = next.sha /\ Of(next) \subseteq main'.work)
    PROVE  PushIsSafe' /\ CreateIsSafe' /\ DeleteIsSafe'
  <1>1. ASSUME NEW op, NEW k \in Steps(op)'
        PROVE  \E j \in Steps(op) : run'.todo[k] = run.todo[j]
    BY <1>1 DEF Steps
  <1>2. ASSUME NEW k \in Steps("push")
        PROVE  /\ IsTree(run.todo[k].tree) /\ run.todo[k].expected = run.next.sha
               /\ run.todo[k].tree.sha = run.built /\ run.built # 0 /\ run.built # run.next.sha
               /\ Of(run.next) \subseteq run.todo[k].tree.work \cup main.work
               /\ next.sha = run.built => next.work = run.todo[k].tree.work
               /\ run.built \in merged => Of(run.todo[k].tree) \subseteq main.work
               /\ \A j \in Steps("push") : run.todo[j].tree = run.todo[k].tree
    BY <1>2 DEF PushIsSafe
  <1>3. PushIsSafe'
    <2> SUFFICES ASSUME NEW k \in Steps("push")'
                 PROVE  /\ IsTree(run'.todo[k].tree) /\ run'.todo[k].expected = run'.next.sha
                        /\ run'.todo[k].tree.sha = run'.built /\ run'.built # 0 /\ run'.built # run'.next.sha
                        /\ Of(run'.next) \subseteq run'.todo[k].tree.work \cup main'.work
                        /\ next'.sha = run'.built => next'.work = run'.todo[k].tree.work
                        /\ run'.built \in merged' => Of(run'.todo[k].tree) \subseteq main'.work
                        /\ \A j \in Steps("push")' : run'.todo[j].tree = run'.todo[k].tree
      BY DEF PushIsSafe, Of, IsTree
    <2>1. PICK j \in Steps("push") : run'.todo[k] = run.todo[j]
      BY <1>1
    <2>2. \A i \in Steps("push")' : run'.todo[i].tree = run'.todo[k].tree
      BY <1>1, <1>2, <2>1
    <2>3. next'.sha = run.built => next'.work = run.todo[j].tree.work
      BY <1>2
    <2>4. run.built \in merged' => Of(run.todo[j].tree) \subseteq main'.work
      BY <1>2 DEF Of
    <2> QED BY <1>2, <2>1, <2>2, <2>3, <2>4
  <1>4. CreateIsSafe'
    <2> SUFFICES ASSUME NEW k \in Steps("create")', run'.todo[k].created # 0
                 PROVE  /\ run'.todo[k].created = run'.built
                        /\ next'.sha = run'.built => next'.work = {}
                        /\ \A j \in Steps("push")' : run'.todo[j].tree.work = {}
      BY DEF CreateIsSafe
    <2>1. PICK j \in Steps("create") : run'.todo[k] = run.todo[j]
      BY <1>1
    <2>2. /\ run.todo[j].created = run.built /\ run.built # 0
          /\ next.sha = run.built => next.work = {}
          /\ \A i \in Steps("push") : run.todo[i].tree.work = {}
      BY <2>1 DEF CreateIsSafe
    <2>3. \A i \in Steps("push")' : run'.todo[i].tree.work = {}
      BY <1>1, <2>2
    <2> QED BY <2>1, <2>2, <2>3
  <1>5. DeleteIsSafe'
    <2> SUFFICES ASSUME NEW k \in Steps("delete")'
                 PROVE  run'.todo[k].expected = run'.next.sha /\ Of(run'.next) \subseteq main'.work
      BY DEF DeleteIsSafe, Of
    <2>1. PICK j \in Steps("delete") : run'.todo[k] = run.todo[j]
      BY <1>1
    <2> QED BY <2>1 DEF DeleteIsSafe
  <1> QED BY <1>3, <1>4, <1>5

\* A run that takes its next step, or stops, forgets steps and nothing else.
LEMMA RunGoesOn ==
    ASSUME Shapes, run.todo # <<>>, Done \/ Stop
    PROVE  /\ DOMAIN run' = DOMAIN NoRun /\ run'.main = run.main /\ run'.next = run.next /\ run'.built = run.built
           /\ run'.kept = run.kept /\ run'.pc = run.pc
           /\ IsSeq(run'.todo)
           /\ \A k \in DOMAIN run'.todo : k + 1 \in DOMAIN run.todo /\ run'.todo[k] = run.todo[k + 1]
  <1>1. /\ DOMAIN run' = DOMAIN NoRun /\ run'.main = run.main /\ run'.next = run.next /\ run'.built = run.built
        /\ run'.kept = run.kept /\ run'.pc = run.pc /\ (run'.todo = Tail(run.todo) \/ run'.todo = <<>>)
    BY DEF Shapes, Done, Stop, NoRun
  <1>2. IsSeq(run.todo)
    BY DEF Shapes
  <1> QED BY <1>1, <1>2, TailOf, NoSteps

\* Nothing is left to do: nothing can go wrong with it.
LEMMA NothingToDo ==
    ASSUME run'.todo = <<>>
    PROVE  PushIsSafe' /\ CreateIsSafe' /\ DeleteIsSafe' /\ IsSeq(run'.todo)
  <1>1. Steps("push")' = {} /\ Steps("create")' = {} /\ Steps("delete")' = {}
    BY NoSteps DEF Steps
  <1> QED BY <1>1, NoSteps DEF PushIsSafe, CreateIsSafe, DeleteIsSafe

LEMMA InitIInv ==
    ASSUME Init
    PROVE  IInv
  <1>1. run.todo = <<>> /\ Steps("push") = {} /\ Steps("create") = {} /\ Steps("delete") = {}
    BY NoSteps DEF Init, NoRun, Steps
  <1>2. Shapes
    BY NoSteps, <1>1, FS_EmptySet DEF Init, Shapes, NoRun, NoNext, IsTree
  <1>3. NextIsKnown /\ MergedIsMain /\ WorkIsKept
    BY DEF Init, NextIsKnown, MergedIsMain, WorkIsKept, NoRun, NoNext, Of
  <1>4. PushIsSafe /\ CreateIsSafe /\ DeleteIsSafe
    BY <1>1 DEF PushIsSafe, CreateIsSafe, DeleteIsSafe
  <1>5. LinesAreKept
    BY <1>1 DEF Init, LinesAreKept, Leaves, NoRun, NoNext
  <1> QED BY <1>2, <1>3, <1>4, <1>5 DEF IInv, WorkInv

\* A run that reads, or ends, and has nothing to do yet.
LEMMA ReadingKeepsWork ==
    ASSUME WorkInv, run'.todo = <<>>, UNCHANGED <<main, next, merged, pushed>>,
           DOMAIN run' = DOMAIN NoRun,
           run'.main \in {run.main, main, NoRun.main}, run'.next \in {run.next, next, NoNext}
    PROVE  WorkInv'
  <1>1. PushIsSafe' /\ CreateIsSafe' /\ DeleteIsSafe' /\ IsSeq(run'.todo)
    BY NothingToDo
  <1>2. Shapes'
    BY <1>1 DEF WorkInv, Shapes, IsTree, NoRun
  <1>3. NextIsKnown'
    <2>1. NoNext.sha = 0 /\ NoNext.work = {}
      BY DEF NoNext
    <2>2. run'.next.sha = 0 => run'.next.work = {}
      BY <2>1 DEF WorkInv, NextIsKnown
    <2>3. run'.next.sha = next.sha => run'.next.work = next.work
      BY <2>1 DEF WorkInv, NextIsKnown
    <2> QED BY <2>2, <2>3 DEF WorkInv, NextIsKnown
  <1>4. MergedIsMain'
    BY DEF WorkInv, MergedIsMain, NoNext, NoRun, Of
  <1>5. WorkIsKept'
    BY DEF WorkInv, WorkIsKept
  <1> QED BY <1>1, <1>2, <1>3, <1>4, <1>5 DEF WorkInv

\* A step on GitHub that touches neither next nor main.
LEMMA QuietKeepsWork ==
    ASSUME WorkInv, run.todo # <<>>, Done \/ Stop, UNCHANGED <<main, next, merged, pushed>>
    PROVE  WorkInv'
  <1>1. /\ DOMAIN run' = DOMAIN NoRun /\ run'.main = run.main /\ run'.next = run.next /\ run'.built = run.built
        /\ run'.kept = run.kept /\ run'.pc = run.pc
        /\ IsSeq(run'.todo)
        /\ \A k \in DOMAIN run'.todo : k + 1 \in DOMAIN run.todo /\ run'.todo[k] = run.todo[k + 1]
    BY RunGoesOn DEF WorkInv
  <1>2. PushIsSafe' /\ CreateIsSafe' /\ DeleteIsSafe'
    BY <1>1, StepsStaySafe DEF WorkInv
  <1>3. Shapes'
    BY <1>1 DEF WorkInv, Shapes, IsTree
  <1>4. NextIsKnown'
    BY <1>1 DEF WorkInv, NextIsKnown
  <1>5. MergedIsMain'
    BY <1>1 DEF WorkInv, MergedIsMain, Of
  <1>6. WorkIsKept'
    BY DEF WorkInv, WorkIsKept
  <1> QED BY <1>2, <1>3, <1>4, <1>5, <1>6 DEF WorkInv

\* What a run has decided on, from what it read.
LEMMA Decided ==
    ASSUME WorkInv, BuildNext
    PROVE  \E o :
             /\ run'.todo = Build(o)
             /\ run'.built = IF o.action \in {"create", "update"} THEN o.tree.sha ELSE 0
             /\ o.action = "delete" => Of(run.next) \subseteq main.work
             /\ o.action \in {"create", "update"} =>
                  /\ IsTree(o.tree) /\ o.tree.sha = Fresh
                  /\ o.tree.pin = run.target /\ o.tree.from = run.main.pin /\ ~o.tree.carried
                  /\ Of(run.next) \subseteq o.tree.work \cup main.work
                  /\ o.action = "create" => o.tree.work = {}
  <1>1. /\ IsTree(run.next)
        /\ run.next.sha = 0 => run.next.work = {}
        /\ run.main.at \in Nat /\ DOMAIN run = DOMAIN NoRun /\ run.main.work \subseteq main.work
        /\ IsSpent(run.next) => Of(run.next) \subseteq main.work
    BY DEF WorkInv, Shapes, NextIsKnown, MergedIsMain, IsSpent
  <1> DEFINE wait == run.target # None /\ ~run.ready
             left == [action |-> "none", stage |-> "", tree |-> run.next]
             outcomes == Prepare(run.main, run.target, run.next, IsSpent(run.next))
             decided(o) == run' = [run EXCEPT !.pc = "publish", !.todo = Build(o), !.conflict = o.action = "conflict",
                                       !.built = IF o.action \in {"create", "update"} THEN o.tree.sha ELSE 0]
  <1>2. PICK o : (IF wait THEN o.action = "none" ELSE o \in outcomes) /\ decided(o)
    <2>1. PICK x : (IF wait THEN x \in {left} ELSE x \in outcomes) /\ decided(x)
      <3>1. \E x \in IF wait THEN {left} ELSE outcomes : decided(x)
        BY DEF BuildNext
      <3> HIDE DEF wait, left, outcomes, decided
      <3> QED BY <3>1
    <2>2. left.action = "none"
      OBVIOUS
    <2> HIDE DEF wait, left, outcomes, decided
    <2> QED BY <2>1, <2>2
  <1>3. /\ run'.todo = Build(o)
        /\ run'.built = IF o.action \in {"create", "update"} THEN o.tree.sha ELSE 0
    BY <1>1, <1>2 DEF NoRun
  <1>4. run.next.work \ Contents(run.main) \subseteq o.tree.work => Of(run.next) \subseteq o.tree.work \cup main.work
    <2>1. \A w \in Work : w \notin 1 .. run.main.at
      BY <1>1, ReleasesAssumption
    <2> QED BY <1>1, <2>1 DEF Of, Contents
  <1>5. CASE wait
    <2>1. o.action = "none"
      BY <1>2, <1>5
    <2> QED BY <1>3, <2>1
  <1>6. CASE ~wait
    <2>1. o \in outcomes /\ IsSpent(run.next) \in BOOLEAN
      <3> HIDE DEF wait, outcomes, decided
      <3> QED BY <1>2, <1>6 DEF IsSpent
    <2>2. /\ o.action = "delete" => IsSpent(run.next) \/ run.next.work = {}
          /\ o.action \in {"create", "update"} =>
               /\ run.target # None /\ IsTree(o.tree) /\ o.tree.sha = Fresh
               /\ o.tree.pin = run.target /\ o.tree.from = run.main.pin /\ ~o.tree.carried
               /\ IsSpent(run.next) \/ run.next.work \ Contents(run.main) \subseteq o.tree.work
               /\ o.action = "create" => o.tree.work = {}
      BY <1>1, <2>1, Prepared
    <2>3. run.next.work = {} => Of(run.next) \subseteq main.work
      BY DEF Of
    <2>4. Of(run.next) \subseteq main.work => Of(run.next) \subseteq o.tree.work \cup main.work
      OBVIOUS
    <2> QED BY <1>1, <1>3, <1>4, <2>2, <2>3, <2>4
  <1> QED BY <1>5, <1>6

LEMMA BuildKeepsWork ==
    ASSUME WorkInv, BuildNext
    PROVE  WorkInv'
  <1>1. PICK o :
             /\ run'.todo = Build(o)
             /\ run'.built = IF o.action \in {"create", "update"} THEN o.tree.sha ELSE 0
             /\ o.action = "delete" => Of(run.next) \subseteq main.work
             /\ o.action \in {"create", "update"} =>
                  /\ IsTree(o.tree) /\ o.tree.sha = Fresh
                  /\ o.tree.pin = run.target /\ o.tree.from = run.main.pin /\ ~o.tree.carried
                  /\ Of(run.next) \subseteq o.tree.work \cup main.work
                  /\ o.action = "create" => o.tree.work = {}
    BY Decided
  <1>2. /\ IsSeq(Build(o))
        /\ \A k \in DOMAIN Build(o) :
             /\ Build(o)[k].op = "push" => /\ o.action \in {"create", "update"}
                                           /\ Build(o)[k].tree = o.tree /\ Build(o)[k].expected = run.next.sha
             /\ Build(o)[k].op = "create" => Build(o)[k].created = IF o.action = "create" THEN o.tree.sha ELSE 0
             /\ Build(o)[k].op = "delete" => o.action = "delete" /\ Build(o)[k].expected = run.next.sha
    BY Built
  <1>3. /\ Fresh \in Nat \ {0} /\ Fresh \notin merged /\ Fresh # next.sha /\ Fresh # run.next.sha
    BY FreshIsFresh DEF WorkInv, Shapes
  <1>4. /\ DOMAIN run' = DOMAIN NoRun /\ run'.pc = "publish" /\ run'.main = run.main /\ run'.next = run.next
        /\ UNCHANGED <<main, next, merged, pushed>>
    <2> DEFINE decided(x) == run' = [run EXCEPT !.pc = "publish", !.todo = Build(x), !.conflict = x.action = "conflict",
                                         !.built = IF x.action \in {"create", "update"} THEN x.tree.sha ELSE 0]
    <2>1. \E x : decided(x)
      <3>1. \E x \in IF run.target # None /\ ~run.ready THEN {[action |-> "none", stage |-> "", tree |-> run.next]}
                     ELSE Prepare(run.main, run.target, run.next, IsSpent(run.next)) : decided(x)
        BY DEF BuildNext
      <3> HIDE DEF decided
      <3> QED BY <3>1
    <2> QED BY <2>1 DEF BuildNext, WorkInv, Shapes, NoRun
  <1>5. Shapes'
    BY <1>1, <1>2, <1>4 DEF WorkInv, Shapes, IsTree
  <1>6. NextIsKnown' /\ WorkIsKept'
    BY <1>4 DEF WorkInv, NextIsKnown, WorkIsKept
  <1>7. MergedIsMain'
    BY <1>4 DEF WorkInv, MergedIsMain, Of
  <1>8. PushIsSafe'
    <2> SUFFICES ASSUME NEW k \in Steps("push")'
                 PROVE  /\ IsTree(run'.todo[k].tree) /\ run'.todo[k].expected = run'.next.sha
                        /\ run'.todo[k].tree.sha = run'.built /\ run'.built # 0 /\ run'.built # run'.next.sha
                        /\ Of(run'.next) \subseteq run'.todo[k].tree.work \cup main'.work
                        /\ next'.sha = run'.built => next'.work = run'.todo[k].tree.work
                        /\ run'.built \in merged' => Of(run'.todo[k].tree) \subseteq main'.work
                        /\ \A j \in Steps("push")' : run'.todo[j].tree = run'.todo[k].tree
      BY DEF PushIsSafe, Of, IsTree
    <2>1. \A j \in Steps("push")' : o.action \in {"create", "update"} /\ run'.todo[j].tree = o.tree
      BY <1>1, <1>2 DEF Steps
    <2>2. run'.todo[k].expected = run.next.sha
      BY <1>1, <1>2 DEF Steps
    <2>3. run'.built = Fresh
      BY <1>1, <2>1
    <2> QED BY <1>1, <1>3, <1>4, <2>1, <2>2, <2>3
  <1>9. CreateIsSafe'
    <2> SUFFICES ASSUME NEW k \in Steps("create")', run'.todo[k].created # 0
                 PROVE  /\ run'.todo[k].created = run'.built
                        /\ next'.sha = run'.built => next'.work = {}
                        /\ \A j \in Steps("push")' : run'.todo[j].tree.work = {}
      BY DEF CreateIsSafe
    <2>1. o.action = "create" /\ run'.todo[k].created = o.tree.sha
      BY <1>1, <1>2 DEF Steps
    <2>2. run'.built = Fresh /\ o.tree.sha = Fresh /\ o.tree.work = {}
      BY <1>1, <2>1
    <2>3. \A j \in Steps("push")' : run'.todo[j].tree = o.tree
      BY <1>1, <1>2 DEF Steps
    <2> QED BY <1>3, <1>4, <2>1, <2>2, <2>3
  <1>10. DeleteIsSafe'
    <2> SUFFICES ASSUME NEW k \in Steps("delete")'
                 PROVE  run'.todo[k].expected = run'.next.sha /\ Of(run'.next) \subseteq main'.work
      BY DEF DeleteIsSafe, Of
    <2> QED BY <1>1, <1>2, <1>4 DEF Steps
  <1> QED BY <1>5, <1>6, <1>7, <1>8, <1>9, <1>10 DEF WorkInv

\* The step that is taken is the first of those the run has.
LEMMA TheStep ==
    ASSUME WorkInv, NEW op, Do(op)
    PROVE  run.todo # <<>> /\ Todo = run.todo[1] /\ 1 \in Steps(op)
  BY TailOf DEF Do, Todo, Steps, WorkInv, Shapes

\* A step that puts something else, of which the run knows what it is, where next was.
LEMMA NextIsReplaced ==
    ASSUME WorkInv, run.todo # <<>>, Done \/ Stop, UNCHANGED <<main, merged, pushed>>,
           IsTree(next'), pushed \subseteq next'.work \cup main.work,
           next'.sha = 0 => next'.work = {},
           next'.sha = 0 \/ \E j \in Steps("push") : next' = run.todo[j].tree
    PROVE  WorkInv'
  <1>1. /\ DOMAIN run' = DOMAIN NoRun /\ run'.main = run.main /\ run'.next = run.next /\ run'.built = run.built
        /\ run'.kept = run.kept /\ run'.pc = run.pc
        /\ IsSeq(run'.todo)
        /\ \A k \in DOMAIN run'.todo : k + 1 \in DOMAIN run.todo /\ run'.todo[k] = run.todo[k + 1]
    BY RunGoesOn DEF WorkInv
  <1>2. PushIsSafe' /\ CreateIsSafe' /\ DeleteIsSafe'
    BY <1>1, StepsStaySafe DEF WorkInv
  <1>3. Shapes'
    BY <1>1 DEF WorkInv, Shapes, IsTree
  <1>4. next'.sha # 0 =>
          /\ next'.sha = run.built /\ run.built # run.next.sha
          /\ run.built \in merged => Of(next') \subseteq main.work
    BY DEF WorkInv, PushIsSafe
  <1>5. NextIsKnown'
    BY <1>1, <1>4 DEF WorkInv, NextIsKnown
  <1>6. MergedIsMain'
    <2>1. next'.sha \in merged => Of(next') \subseteq main.work
      BY <1>4 DEF Of
    <2> QED BY <1>1, <2>1 DEF WorkInv, MergedIsMain, Of
  <1>7. WorkIsKept'
    BY DEF WorkIsKept
  <1> QED BY <1>2, <1>3, <1>5, <1>6, <1>7 DEF WorkInv

LEMMA PushKeepsWork ==
    ASSUME WorkInv, Push
    PROVE  WorkInv'
  <1>1. run.todo # <<>> /\ Todo = run.todo[1] /\ 1 \in Steps("push")
    BY TheStep DEF Push
  <1>2. CASE next.sha # Todo.expected
    BY <1>1, <1>2, QuietKeepsWork DEF Push
  <1>3. CASE next.sha = Todo.expected
    <2>1. next' = Todo.tree /\ Done /\ UNCHANGED <<main, merged, pushed>>
      BY <1>3 DEF Push
    <2>2. /\ IsTree(Todo.tree) /\ Todo.expected = run.next.sha /\ Todo.tree.sha # 0
          /\ Of(run.next) \subseteq Todo.tree.work \cup main.work
      BY <1>1 DEF WorkInv, PushIsSafe
    <2>3. Of(next) \subseteq Todo.tree.work \cup main.work
      BY <1>3, <2>2 DEF WorkInv, NextIsKnown, Of
    <2>4. pushed \subseteq next'.work \cup main.work
      BY <2>1, <2>3 DEF WorkInv, WorkIsKept, Shapes, Of
    <2> QED BY <1>1, <2>1, <2>2, <2>4, NextIsReplaced
  <1> QED BY <1>2, <1>3

LEMMA CreateRefusedKeepsWork ==
    ASSUME WorkInv, CreateRefused
    PROVE  WorkInv'
  <1>1. run.todo # <<>> /\ Todo = run.todo[1] /\ 1 \in Steps("create")
    BY TheStep DEF CreateRefused
  <1>2. Stop /\ UNCHANGED <<main, merged, pushed>>
    BY DEF CreateRefused
  <1>3. CASE ~(Todo.created # 0 /\ next.sha = Todo.created)
    <2>1. next' = next
      BY <1>3 DEF CreateRefused
    <2> QED BY <1>1, <1>2, <2>1, QuietKeepsWork
  <1>4. CASE Todo.created # 0 /\ next.sha = Todo.created
    <2>1. next' = NoNext /\ NoNext.sha = 0 /\ NoNext.work = {}
      BY <1>4 DEF CreateRefused, NoNext
    <2>2. next.work = {}
      BY <1>1, <1>4 DEF WorkInv, CreateIsSafe
    <2>3. pushed \subseteq next'.work \cup main.work
      BY <2>2 DEF WorkInv, WorkIsKept
    <2> QED BY <1>1, <1>2, <2>1, <2>3, NextIsReplaced DEF IsTree
  <1> QED BY <1>3, <1>4

LEMMA DeleteKeepsWork ==
    ASSUME WorkInv, DeleteNext
    PROVE  WorkInv'
  <1>1. run.todo # <<>> /\ Todo = run.todo[1] /\ 1 \in Steps("delete")
    BY TheStep DEF DeleteNext
  <1>2. Done /\ UNCHANGED <<main, merged, pushed>>
    BY DEF DeleteNext
  <1>3. CASE next.sha # Todo.expected
    BY <1>1, <1>2, <1>3, QuietKeepsWork DEF DeleteNext
  <1>4. CASE next.sha = Todo.expected
    <2>1. next' = NoNext /\ NoNext.sha = 0 /\ NoNext.work = {}
      BY <1>4 DEF DeleteNext, NoNext
    <2>2. Todo.expected = run.next.sha /\ Of(run.next) \subseteq main.work
      BY <1>1 DEF WorkInv, DeleteIsSafe
    <2>3. Of(next) \subseteq main.work
      BY <1>4, <2>2 DEF WorkInv, NextIsKnown, Of
    <2>4. pushed \subseteq next'.work \cup main.work
      BY <2>3 DEF WorkInv, WorkIsKept, Shapes, Of
    <2> QED BY <1>1, <1>2, <2>1, <2>4, NextIsReplaced DEF IsTree
  <1> QED BY <1>3, <1>4

\* Someone else changes next, or main: no run has built what they make of it.
LEMMA OthersKeepWork ==
    ASSUME WorkInv, run' = run, IsTree(next'), DOMAIN main' = DOMAIN NoRun.main, main'.at \in Nat,
           IsFiniteSet(merged'), pushed' \subseteq Work,
           main.work \subseteq main'.work,
           \/ next' = next
           \/ next'.sha = 0 /\ next'.work = {}
           \/ next'.sha = Fresh,
           \/ merged' = merged
           \/ merged' = merged \cup {next.sha} /\ next' = next /\ Of(next) \subseteq main'.work,
           pushed' \subseteq next'.work \cup main'.work
    PROVE  WorkInv'
  <1>1. /\ Fresh \in Nat \ {0} /\ Fresh \notin merged /\ Fresh # next.sha
        /\ Fresh # run.next.sha /\ Fresh # run.built
    BY FreshIsFresh DEF WorkInv, Shapes
  <1>2. Shapes'
    BY DEF WorkInv, Shapes, IsTree
  <1>3. NextIsKnown'
    BY <1>1 DEF WorkInv, NextIsKnown
  <1>4. MergedIsMain'
    <2>1. next'.sha \in merged' => Of(next') \subseteq main'.work
      BY <1>1 DEF WorkInv, MergedIsMain, Of
    <2>2. run.next.sha \in merged' => Of(run.next) \subseteq main'.work
      BY DEF WorkInv, MergedIsMain, NextIsKnown, Of
    <2> QED BY <2>1, <2>2 DEF WorkInv, MergedIsMain, Of
  <1>5. PushIsSafe' /\ CreateIsSafe' /\ DeleteIsSafe'
    BY <1>1, StepsStaySafe DEF WorkInv
  <1>6. WorkIsKept'
    BY DEF WorkIsKept
  <1> QED BY <1>2, <1>3, <1>4, <1>5, <1>6 DEF WorkInv

LEMMA PeopleKeepWork ==
    ASSUME WorkInv, People_
    PROVE  WorkInv'
  <1> USE DEF IsTree
  <1>1. /\ IsTree(next) /\ DOMAIN main = DOMAIN NoRun.main /\ main.at \in Nat /\ IsFiniteSet(merged)
        /\ pushed \subseteq Work /\ pushed \subseteq next.work \cup main.work
        /\ next.sha \in merged => Of(next) \subseteq main.work
        /\ IsTree(NoNext) /\ NoNext.sha = 0 /\ NoNext.work = {}
    BY DEF WorkInv, Shapes, MergedIsMain, WorkIsKept, NoNext
  <1>2. CASE MainMoves
    <2>1. UNCHANGED <<next, merged, pushed, run>>
      BY <1>2 DEF MainMoves, Act
    <2>2. DOMAIN main' = DOMAIN NoRun.main /\ main'.at \in Nat /\ main'.work = main.work
      BY <1>1, <1>2 DEF MainMoves, NoRun
    <2> QED BY <1>1, <2>1, <2>2, OthersKeepWork
  <1>3. CASE PersonRebases
    <2>1. UNCHANGED <<main, merged, pushed, run>>
      BY <1>3 DEF PersonRebases, Act
    <2>2. IsTree(next') /\ next'.sha = Fresh /\ next'.work = next.work \ Contents(main)
      BY <1>3 DEF PersonRebases, NoNext
    <2>3. \A w \in Work : w \notin 1 .. main.at
      BY <1>1, ReleasesAssumption
    <2>4. pushed \subseteq next'.work \cup main.work
      BY <1>1, <2>2, <2>3 DEF Contents
    <2> QED BY <1>1, <2>1, <2>2, <2>4, OthersKeepWork
  <1>4. CASE PersonEditsPull
    <2>1. UNCHANGED <<main, next, merged, pushed, run>>
      BY <1>4 DEF PersonEditsPull, Act
    <2> QED BY <1>1, <2>1, OthersKeepWork
  <1>5. CASE PersonDeletesMerged
    <2>1. UNCHANGED <<main, merged, pushed, run>> /\ next' = NoNext /\ next.sha \in merged
      BY <1>5 DEF PersonDeletesMerged, Act
    <2>2. pushed \subseteq main.work
      BY <1>1, <2>1 DEF Of
    <2> QED BY <1>1, <2>1, <2>2, OthersKeepWork
  <1>6. CASE Merge
    <2>1. UNCHANGED <<next, pushed, run>> /\ merged' = merged \cup {next.sha}
      BY <1>6 DEF Merge
    <2>2. DOMAIN main' = DOMAIN NoRun.main /\ main'.at \in Nat /\ main'.work = main.work \cup Of(next)
      <3>1. PICK p : main' = [at |-> main.at + 1, pin |-> p, work |-> main.work \cup (next.work \cap Work)]
        BY <1>6 DEF Merge
      <3> QED BY <1>1, <3>1 DEF NoRun, Of
    <2>3. IsFiniteSet(merged')
      BY <1>1, <2>1, FS_AddElement
    <2>4. pushed \subseteq next.work \cup main'.work
      BY <1>1, <2>2
    <2> QED BY <1>1, <2>1, <2>2, <2>3, <2>4, OthersKeepWork
  <1>7. ASSUME NEW w \in Work, PersonPushes(w)
        PROVE  WorkInv'
    <2>1. UNCHANGED <<main, merged, run>> /\ pushed' = pushed \cup {w}
      BY <1>7 DEF PersonPushes, Act
    <2>2. IsTree(next') /\ next'.sha = Fresh /\ w \in next'.work /\ (Exists(next) => next.work \subseteq next'.work)
      <3>1. CASE Exists(next)
        BY <1>1, <1>7, <3>1 DEF PersonPushes, NoNext
      <3>2. CASE ~Exists(next)
        BY <1>7, <3>2 DEF PersonPushes, NoNext
      <3> QED BY <3>1, <3>2
    <2>3. next.work \subseteq next'.work
      BY <2>2 DEF WorkInv, NextIsKnown, Exists
    <2>4. pushed' \subseteq next'.work \cup main.work /\ pushed' \subseteq Work
      BY <1>1, <1>7, <2>1, <2>2, <2>3
    <2> QED BY <1>1, <2>1, <2>2, <2>4, OthersKeepWork
  <1> QED BY <1>2, <1>3, <1>4, <1>5, <1>6, <1>7 DEF People_

LEMMA RunKeepsWork ==
    ASSUME WorkInv, RunStep \/ Fails
    PROVE  WorkInv'
  <1>1. /\ DOMAIN run = DOMAIN NoRun
        /\ run.pc # "publish" => run.todo = <<>>
    BY DEF WorkInv, Shapes
  <1>2. CASE Trigger
    <2>1. /\ run'.todo = <<>> /\ DOMAIN run' = DOMAIN NoRun /\ run'.main = main /\ run'.next = NoNext
          /\ UNCHANGED <<main, next, merged, pushed>>
      BY <1>2 DEF Trigger, NoRun
    <2> QED BY <2>1, ReadingKeepsWork
  <1>3. CASE Plan
    <2>1. /\ run'.todo = <<>> /\ DOMAIN run' = DOMAIN NoRun /\ run'.main = run.main /\ run'.next = run.next
          /\ UNCHANGED <<main, next, merged, pushed>>
      BY <1>1, <1>3 DEF Plan, NoRun
    <2> QED BY <2>1, ReadingKeepsWork
  <1>4. CASE Checkout
    <2>1. /\ run'.todo = <<>> /\ DOMAIN run' = DOMAIN NoRun /\ run'.main = run.main /\ run'.next = next
          /\ UNCHANGED <<main, next, merged, pushed>>
      BY <1>1, <1>4 DEF Checkout, NoRun
    <2> QED BY <2>1, ReadingKeepsWork
  <1>5. CASE ListOpen
    <2>1. /\ run'.todo = <<>> /\ DOMAIN run' = DOMAIN NoRun /\ run'.main = run.main /\ run'.next = run.next
          /\ UNCHANGED <<main, next, merged, pushed>>
      BY <1>1, <1>5 DEF ListOpen, NoRun
    <2> QED BY <2>1, ReadingKeepsWork
  <1>6. CASE BuildNext
    BY <1>6, BuildKeepsWork
  <1>7. CASE Report
    <2>1. /\ run'.todo = <<>> /\ DOMAIN run' = DOMAIN NoRun /\ run'.main = NoRun.main /\ run'.next = NoNext
          /\ UNCHANGED <<main, next, merged, pushed>>
      BY <1>7 DEF Report, NoRun
    <2> QED BY <2>1, ReadingKeepsWork
  <1>8. CASE Fails
    <2>1. /\ run'.todo = <<>> /\ DOMAIN run' = DOMAIN NoRun /\ run'.main = run.main /\ run'.next = run.next
          /\ UNCHANGED <<main, next, merged, pushed>>
      BY <1>1, <1>8 DEF Fails, NoRun
    <2> QED BY <2>1, ReadingKeepsWork
  <1>9. CASE CreateReleaseBranch \/ CreatePull \/ EditPull \/ MarkPull \/ Comment \/ EnableAutomerge \/ ClosePull
    <2>1. run.todo # <<>> /\ (Done \/ Stop) /\ UNCHANGED <<main, next, merged, pushed>>
      BY <1>9 DEF CreateReleaseBranch, CreatePull, EditPull, MarkPull, Comment, EnableAutomerge, ClosePull, Do
    <2> QED BY <2>1, QuietKeepsWork
  <1> QED
    BY <1>2, <1>3, <1>4, <1>5, <1>6, <1>7, <1>8, <1>9, PushKeepsWork, CreateRefusedKeepsWork, DeleteKeepsWork
    DEF RunStep, PublishStep

LEMMA NextKeepsWork ==
    ASSUME WorkInv, [Next]_vars
    PROVE  WorkInv'
  <1>1. CASE UNCHANGED <<main, next, merged, pushed, run>>
    BY <1>1
    DEF WorkInv, Shapes, NextIsKnown, MergedIsMain, PushIsSafe, CreateIsSafe, DeleteIsSafe, WorkIsKept,
        IsTree, IsSeq,
        Of, Steps
  <1>2. ASSUME NEW r \in Releases, UpstreamTags(r) \/ UpstreamPublishes(r)
        PROVE  UNCHANGED <<main, next, merged, pushed, run>>
    BY <1>2 DEF UpstreamTags, UpstreamPublishes
  <1>3. UNCHANGED vars => UNCHANGED <<main, next, merged, pushed, run>>
    BY DEF vars
  <1> QED BY <1>1, <1>2, <1>3, RunKeepsWork, PeopleKeepWork DEF Next

\* A step of the run that is taken: if it was the one that makes the branch, the
\* line has its branch now.
LEMMA StepKeepsLines ==
    ASSUME WorkInv, LinesAreKept, run.todo # <<>>, Done \/ Stop, kept \subseteq kept',
           run.todo[1].op = "branch" => run.todo[1].line \in kept',
           Leaves(next') => LineOf[next'.from] \in kept'
    PROVE  LinesAreKept'
  <1>1. /\ run'.kept = run.kept
        /\ \A k \in DOMAIN run'.todo : k + 1 \in DOMAIN run.todo /\ run'.todo[k] = run.todo[k + 1]
    BY RunGoesOn DEF WorkInv
  <1>2. run'.kept \subseteq kept'
    BY <1>1 DEF LinesAreKept
  <1>3. ASSUME NEW k \in Steps("push")', Leaves(run'.todo[k].tree)
        PROVE  LineOf[run'.todo[k].tree.from] \in kept'
    <2>1. k + 1 \in Steps("push") /\ run'.todo[k] = run.todo[k + 1]
      BY <1>1, <1>3 DEF Steps
    <2>2. \/ LineOf[run.todo[k + 1].tree.from] \in kept
          \/ run.todo[1].op = "branch" /\ run.todo[1].line = LineOf[run.todo[k + 1].tree.from]
      BY <1>3, <2>1 DEF LinesAreKept
    <2> QED BY <2>1, <2>2
  <1> QED BY <1>2, <1>3 DEF LinesAreKept, Leaves

\* Reading, ending and failing leave no step to take.
LEMMA ReadingKeepsLines ==
    ASSUME LinesAreKept, run'.todo = <<>>, UNCHANGED <<next, kept>>, run'.kept \subseteq run.kept \cup kept
    PROVE  LinesAreKept'
  <1>1. Steps("push")' = {}
    BY NoSteps DEF Steps
  <1>2. Leaves(next)' => LineOf[next'.from] \in kept'
    BY DEF LinesAreKept, Leaves
  <1>3. run'.kept \subseteq kept'
    BY DEF LinesAreKept
  <1> QED BY <1>1, <1>2, <1>3 DEF LinesAreKept

\* People change next and main, never the branches or the run.
LEMMA OthersKeepLines ==
    ASSUME LinesAreKept, UNCHANGED <<kept, run>>, Leaves(next') => LineOf[next'.from] \in kept
    PROVE  LinesAreKept'
  BY DEF LinesAreKept, Leaves, Steps

LEMMA BuildKeepsLines ==
    ASSUME IInv, BuildNext
    PROVE  LinesAreKept'
  <1>1. PICK o :
             /\ run'.todo = Build(o)
             /\ run'.built = IF o.action \in {"create", "update"} THEN o.tree.sha ELSE 0
             /\ o.action = "delete" => Of(run.next) \subseteq main.work
             /\ o.action \in {"create", "update"} =>
                  /\ IsTree(o.tree) /\ o.tree.sha = Fresh
                  /\ o.tree.pin = run.target /\ o.tree.from = run.main.pin /\ ~o.tree.carried
                  /\ Of(run.next) \subseteq o.tree.work \cup main.work
                  /\ o.action = "create" => o.tree.work = {}
    BY Decided DEF IInv
  <1>2. ASSUME NEW k \in DOMAIN Build(o), Build(o)[k].op = "push"
        PROVE  /\ o.action \in {"create", "update"} /\ Build(o)[k].tree = o.tree
               /\ LineOf[run.target] # LineOf[run.main.pin] /\ run.target \in StableReleases
                    => \/ LineOf[run.main.pin] \in run.kept
                       \/ Build(o)[1].op = "branch" /\ Build(o)[1].line = LineOf[run.main.pin]
    BY <1>2, Built
  <1>3. UNCHANGED <<next, kept>> /\ run'.kept = run.kept
    <2> DEFINE decided(x) == run' = [run EXCEPT !.pc = "publish", !.todo = Build(x), !.conflict = x.action = "conflict",
                                         !.built = IF x.action \in {"create", "update"} THEN x.tree.sha ELSE 0]
    <2>1. \E x : decided(x)
      <3>1. \E x \in IF run.target # None /\ ~run.ready THEN {[action |-> "none", stage |-> "", tree |-> run.next]}
                     ELSE Prepare(run.main, run.target, run.next, IsSpent(run.next)) : decided(x)
        BY DEF BuildNext
      <3> HIDE DEF decided
      <3> QED BY <3>1
    <2> QED BY <2>1 DEF BuildNext, IInv, WorkInv, Shapes, NoRun
  <1>4. run'.kept \subseteq kept' /\ (Leaves(next) => LineOf[next.from] \in kept)
    BY <1>3 DEF IInv, LinesAreKept
  <1>5. ASSUME NEW k \in Steps("push")', Leaves(run'.todo[k].tree)
        PROVE  \/ LineOf[run'.todo[k].tree.from] \in kept
               \/ run'.todo[1].op = "branch" /\ run'.todo[1].line = LineOf[run'.todo[k].tree.from]
    <2>1. k \in DOMAIN Build(o) /\ Build(o)[k].op = "push" /\ run'.todo[k] = Build(o)[k]
      BY <1>1, <1>5 DEF Steps
    <2>2. o.action \in {"create", "update"} /\ run'.todo[k].tree = o.tree
      BY <1>2, <2>1
    <2>3. o.tree.pin = run.target /\ o.tree.from = run.main.pin
      BY <1>1, <2>2
    <2>4. LineOf[run.target] # LineOf[run.main.pin] /\ run.target \in StableReleases
      BY <1>5, <2>2, <2>3 DEF Leaves
    <2>5. \/ LineOf[run.main.pin] \in run.kept
          \/ Build(o)[1].op = "branch" /\ Build(o)[1].line = LineOf[run.main.pin]
      BY <1>2, <2>1, <2>4
    <2>6. run.kept \subseteq kept
      BY DEF IInv, LinesAreKept
    <2> QED BY <1>1, <2>2, <2>3, <2>5, <2>6
  <1> QED BY <1>3, <1>4, <1>5 DEF LinesAreKept, Leaves

LEMMA NextKeepsLines ==
    ASSUME IInv, [Next]_vars
    PROVE  LinesAreKept'
  <1>1. /\ WorkInv /\ LinesAreKept /\ DOMAIN run = DOMAIN NoRun /\ IsTree(next)
        /\ run.pc # "publish" => run.todo = <<>>
    BY DEF IInv, WorkInv, Shapes
  <1>2. Leaves(next) => LineOf[next.from] \in kept
    BY <1>1 DEF LinesAreKept
  <1>3. ~Leaves(NoNext)
    BY DEF Leaves, NoNext
  <1>4. CASE Trigger \/ Plan \/ Checkout \/ ListOpen \/ Report \/ Fails
    <2>1. run'.todo = <<>> /\ UNCHANGED <<next, kept>> /\ run'.kept \subseteq run.kept \cup kept
      <3>1. CASE Trigger \/ Report
        <4>1. run'.todo = NoRun.todo /\ run'.kept = NoRun.kept /\ UNCHANGED <<next, kept>>
          <5>1. CASE Trigger
            BY <5>1 DEF Trigger, NoRun
          <5>2. CASE Report
            BY <5>2 DEF Report
          <5> QED BY <3>1, <5>1, <5>2
        <4> QED BY <4>1 DEF NoRun
      <3>2. CASE Plan
        BY <1>1, <3>2 DEF Plan, NoRun
      <3>3. CASE Checkout
        BY <1>1, <3>3 DEF Checkout, NoRun
      <3>4. CASE ListOpen
        BY <1>1, <3>4 DEF ListOpen, NoRun
      <3>5. CASE Fails
        BY <1>1, <3>5 DEF Fails, NoRun
      <3> QED BY <1>4, <3>1, <3>2, <3>3, <3>4, <3>5
    <2> QED BY <1>1, <2>1, ReadingKeepsLines
  <1>5. CASE CreateReleaseBranch
    <2>1. run.todo # <<>> /\ Todo = run.todo[1] /\ Done /\ next' = next /\ kept' = kept \cup {Todo.line}
      BY <1>1, <1>5, TheStep DEF CreateReleaseBranch
    <2> QED BY <1>1, <1>2, <2>1, StepKeepsLines
  <1>6. CASE \/ CreatePull \/ CreateRefused \/ EditPull \/ MarkPull \/ Comment \/ EnableAutomerge \/ ClosePull
             \/ DeleteNext
    <2>1. run.todo # <<>> /\ run.todo[1].op # "branch"
      BY <1>1, <1>6, TheStep
      DEF CreatePull, CreateRefused, EditPull, MarkPull, Comment, EnableAutomerge, ClosePull, DeleteNext, Steps
    <2>2. (Done \/ Stop) /\ kept' = kept /\ next' \in {next, NoNext}
      BY <1>6 DEF CreatePull, CreateRefused, EditPull, MarkPull, Comment, EnableAutomerge, ClosePull, DeleteNext
    <2> QED BY <1>1, <1>2, <1>3, <2>1, <2>2, StepKeepsLines
  <1>7. CASE Push
    <2>1. run.todo # <<>> /\ Todo = run.todo[1] /\ 1 \in Steps("push") /\ run.todo[1].op = "push"
      BY <1>1, <1>7, TheStep DEF Push, Steps
    <2>2. (Done \/ Stop) /\ kept' = kept /\ (next' = next \/ next' = run.todo[1].tree)
      BY <1>7, <2>1 DEF Push
    <2>3. Leaves(run.todo[1].tree) => LineOf[run.todo[1].tree.from] \in kept
      BY <1>1, <2>1 DEF LinesAreKept
    <2> QED BY <1>1, <1>2, <2>1, <2>2, <2>3, StepKeepsLines
  <1>8. CASE MainMoves \/ PersonEditsPull \/ PersonDeletesMerged \/ Merge
    <2>1. UNCHANGED <<kept, run>> /\ next' \in {next, NoNext}
      BY <1>8 DEF MainMoves, PersonEditsPull, PersonDeletesMerged, Merge, Act
    <2> QED BY <1>1, <1>2, <1>3, <2>1, OthersKeepLines
  <1>9. CASE PersonRebases
    <2>1. UNCHANGED <<kept, run>>
      BY <1>9 DEF PersonRebases, Act
    <2>2. ASSUME Leaves(next')
          PROVE  LineOf[next'.from] \in kept
      <3> DEFINE first == next.first /\ next.pin > main.pin
      <3>1. /\ next'.from = main.pin /\ next'.pin = IF first THEN next.pin ELSE main.pin
            /\ next'.carried = (first /\ (next.carried \/ LineOf[next.from] # LineOf[main.pin]))
        BY <1>9 DEF PersonRebases
      <3> HIDE DEF first
      <3>2. first /\ next'.pin = next.pin
        BY <2>2, <3>1 DEF Leaves
      <3>3. ~next.carried /\ LineOf[next.from] = LineOf[main.pin]
        BY <2>2, <3>1, <3>2 DEF Leaves
      <3> QED BY <1>2, <2>2, <3>1, <3>2, <3>3 DEF Leaves
    <2> QED BY <1>1, <2>1, <2>2, OthersKeepLines
  <1>10. ASSUME NEW w \in Work, PersonPushes(w)
         PROVE  LinesAreKept'
    <2>1. UNCHANGED <<kept, run>>
      BY <1>10 DEF PersonPushes, Act
    <2>2. Leaves(next') => Leaves(next) /\ next'.from = next.from
      BY <1>1, <1>10 DEF PersonPushes, Leaves, IsTree, NoNext
    <2> QED BY <1>1, <1>2, <2>1, <2>2, OthersKeepLines
  <1>11. CASE UNCHANGED <<next, kept, run>>
    BY <1>1, <1>2, <1>11, OthersKeepLines
  <1>12. ASSUME NEW r \in Releases, UpstreamTags(r) \/ UpstreamPublishes(r)
         PROVE  UNCHANGED <<next, kept, run>>
    BY <1>12 DEF UpstreamTags, UpstreamPublishes
  <1>13. UNCHANGED vars => UNCHANGED <<next, kept, run>>
    BY DEF vars
  <1> QED
    BY <1>4, <1>5, <1>6, <1>7, <1>8, <1>9, <1>10, <1>11, <1>12, <1>13, BuildKeepsLines
    DEF Next, RunStep, PublishStep, People_

-----------------------------------------------------------------------------

\* The invariant holds of every behaviour, which is what the theorems come from.
LEMMA IInvHolds == Spec => []IInv
  <1>1. Init => IInv
    BY InitIInv
  <1>2. IInv /\ [Next]_vars => IInv'
    <2> SUFFICES ASSUME IInv, [Next]_vars PROVE IInv'
      OBVIOUS
    <2>1. WorkInv'
      BY NextKeepsWork DEF IInv
    <2>2. LinesAreKept'
      BY NextKeepsLines
    <2> QED BY <2>1, <2>2 DEF IInv
  <1> QED BY <1>1, <1>2, PTL DEF Spec

\* Whatever people push to next is on next or in main, for any number of people's
\* commits, rebases, deletions and merges, between any two steps of a run, and of
\* failures (publish.py, prepare_next.py).
THEOREM NoWorkIsLost == Spec => []WorkIsKept
  <1>1. IInv => WorkIsKept
    BY DEF IInv, WorkInv
  <1> QED BY <1>1, IInvHolds, PTL

\* main leaves a release line only once the line has its branch, for any number of
\* lines, unless the pin move was carried over by hand from another line (publish.py,
\* what the run makes before it pushes).
THEOREM LeftLinesAreKept == Spec => LineIsKept
  <1>1. IInv /\ [Next]_vars =>
          [LineOf[main'.pin] # LineOf[main.pin] => LineOf[main.pin] \in kept \/ next.carried]_vars
    <2> SUFFICES ASSUME IInv, Next, LineOf[main'.pin] # LineOf[main.pin], ~next.carried
                 PROVE  LineOf[main.pin] \in kept
      OBVIOUS
    <2>1. main' # main
      OBVIOUS
    <2>2. MainMoves \/ Merge
      BY <2>1
      DEF Next, RunStep, PublishStep, People_, Trigger, Plan, Checkout, ListOpen, BuildNext,
          CreateReleaseBranch, Push,
          CreatePull, CreateRefused, EditPull, MarkPull, Comment, EnableAutomerge, ClosePull, DeleteNext, Fails, Report,
          PersonRebases, PersonEditsPull, PersonDeletesMerged, PersonPushes, UpstreamTags, UpstreamPublishes
    <2>3. CASE MainMoves
      <3>1. PICK p : LineOf[p] = LineOf[main.pin] /\ main' = [main EXCEPT !.at = @ + 1, !.pin = p]
        BY <2>3 DEF MainMoves
      <3>2. main'.pin = p
        BY <3>1 DEF IInv, WorkInv, Shapes, NoRun
      <3> QED BY <3>1, <3>2
    <2>4. CASE Merge
      <3>1. PICK p : /\ p = (IF next.pin = next.from THEN main.pin ELSE next.pin)
                     /\ p \in StableReleases
                     /\ main' = [at |-> main.at + 1, pin |-> p, work |-> main.work \cup (next.work \cap Work)]
        BY <2>4 DEF Merge, RequireStable
      <3>2. main'.pin = p
        BY <3>1
      <3>3. p = next.pin /\ main.pin = next.from
        BY <2>4, <3>1, <3>2 DEF Merge
      <3>4. Leaves(next)
        BY <3>1, <3>2, <3>3 DEF Leaves
      <3> QED BY <3>3, <3>4 DEF IInv, LinesAreKept
    <2> QED BY <2>2, <2>3, <2>4
  <1> QED BY <1>1, IInvHolds, PTL DEF Spec, LineIsKept

=============================================================================
