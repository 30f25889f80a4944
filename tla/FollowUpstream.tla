--------------------------- MODULE FollowUpstream ---------------------------
(* The hourly workflow that keeps the branch `next` on the upcoming release of OpenShell: plan, list, build what       *)
(* `next` should be, push it and keep its pull request (deploy/ci/upstream, .github/workflows/follow-upstream.yml),    *)
(* beside people who push, merge, close and rebase, and upstream, which tags and publishes when it likes. A run is     *)
(* for the commit main was on when it was triggered. Releases are numbered in their order; a commit of main is its     *)
(* position; a person's commit is a value of Work.                                                                     *)
EXTENDS Naturals, FiniteSets, Sequences

CONSTANTS Releases, StableReleases, LineOf, Pinned, Work, MaxMain, MaxActs, MaxFailures

ASSUME ReleasesAssumption ==
    /\ Releases \subseteq Nat \ {0}
    /\ StableReleases \subseteq Releases
    /\ Pinned \in StableReleases
    /\ LineOf \in [Releases -> Nat]
    /\ {MaxMain, MaxActs, MaxFailures} \subseteq Nat
    /\ \A w \in Work : w \notin Nat

VARIABLES
    upstream,  \* what upstream has done for each release: nothing, tagged it, or published its images too
    main,      \* how many commits main has, the release it pins, and the people's commits that reached it over `next`
    kept,      \* the release lines that have a branch release/<line>
    next,      \* the branch: the commit it is on, main's commit it starts at, what that pinned, what it pins itself,
               \* whether the pin move is its first commit, and what is on top; history: whether the pin move was
               \* carried by hand to a main on another line than the one it was made for
    pull,      \* the open pull request of this repository from next into main
    merged,    \* the commits of next that a pull request was merged at
    issue,     \* the release that the open issue of check A is about
    run,       \* the run in progress: how far it is, what it has read, and the steps it still has to take
    stuck,     \* whether the last run met a conflict
    pushed,    \* history: people's commits that have been on next
    acts, failures

vars == <<upstream, main, kept, next, pull, merged, issue, run, stuck, pushed, acts, failures>>

None == 0
NoNext == [sha |-> 0, base |-> 0, from |-> 0, pin |-> 0, first |-> FALSE, work |-> {}, carried |-> FALSE]
NoPull == [id |-> 0, title |-> 0, draft |-> FALSE, auto |-> FALSE, told |-> {}]
NoRun == [pc |-> "idle", main |-> [at |-> 0, pin |-> Pinned, work |-> {}], target |-> None, ready |-> FALSE,
          next |-> NoNext, kept |-> {}, pull |-> NoPull, todo |-> <<>>, conflict |-> FALSE, built |-> 0]

Init ==
    /\ upstream = [r \in Releases |-> IF r = Pinned THEN "published" ELSE "no"]
    /\ main = [at |-> 1, pin |-> Pinned, work |-> {}]
    /\ kept = {}
    /\ next = NoNext
    /\ pull = NoPull
    /\ merged = {}
    /\ issue = None
    /\ run = NoRun
    /\ stuck = FALSE
    /\ pushed = {}
    /\ acts = 0
    /\ failures = 0

Exists(n) == n.sha # 0
(* What a commit of main contains: every position up to it, and the people's commits that were merged. *)
Contents(m) == (1 .. m.at) \union m.work
Fresh == CHOOSE s \in 1 .. (Cardinality(merged) + 4) : s \notin merged \union {next.sha, run.next.sha, run.built}

-----------------------------------------------------------------------------
(* Upstream and people. *)

UpstreamTags(r) ==
    /\ upstream[r] = "no"
    /\ upstream' = [upstream EXCEPT ![r] = "tagged"]
    /\ UNCHANGED <<main, kept, next, pull, merged, issue, run, stuck, pushed, acts, failures>>

UpstreamPublishes(r) ==
    /\ upstream[r] = "tagged"
    /\ upstream' = [upstream EXCEPT ![r] = "published"]
    /\ UNCHANGED <<main, kept, next, pull, merged, issue, run, stuck, pushed, acts, failures>>

Act == acts < MaxActs /\ acts' = acts + 1 /\ UNCHANGED <<upstream, kept, issue, run, stuck, failures>>

(* Another pull request is merged into main. It may move the pin, by hand, within the line. *)
MainMoves ==
    /\ Act
    /\ main.at < MaxMain
    /\ \E p \in {r \in StableReleases : r >= main.pin /\ upstream[r] = "published" /\ LineOf[r] = LineOf[main.pin]} :
         main' = [main EXCEPT !.at = @ + 1, !.pin = p]
    /\ UNCHANGED <<next, pull, merged, pushed>>

(* Someone pushes work to next, or makes next by hand. Nobody but the workflow moves the pin on it. *)
PersonPushes(w) ==
    /\ Act
    /\ w \notin pushed
    /\ next' = IF Exists(next)
               THEN [next EXCEPT !.sha = Fresh, !.work = @ \union {w}]
               ELSE [sha |-> Fresh, base |-> main.at, from |-> main.pin, pin |-> main.pin, first |-> FALSE, work |-> {w},
                     carried |-> FALSE]
    /\ pushed' = pushed \union {w}
    /\ UNCHANGED <<main, pull, merged>>

(* Someone rebases next by hand, which is what the comment about a conflict asks for. *)
PersonRebases ==
    /\ Act
    /\ Exists(next) /\ next.base < main.at
    /\ LET first == next.first /\ next.pin > main.pin IN
         next' = [sha |-> Fresh, base |-> main.at, from |-> main.pin, pin |-> IF first THEN next.pin ELSE main.pin,
                  first |-> first, work |-> next.work \ Contents(main),
                  carried |-> first /\ (next.carried \/ LineOf[next.from] # LineOf[main.pin])]
    /\ UNCHANGED <<main, pull, merged, pushed>>

(* Someone closes the pull request, or changes whether it is a draft. *)
PersonEditsPull ==
    /\ Act
    /\ pull.id # 0
    /\ pull' \in {NoPull, [pull EXCEPT !.draft = ~@]}
    /\ UNCHANGED <<main, next, merged, pushed>>

(* After the merge someone presses "Delete branch", which closes what was opened from it since. *)
PersonDeletesMerged ==
    /\ Act
    /\ next.sha \in merged
    /\ next' = NoNext
    /\ pull' = NoPull
    /\ UNCHANGED <<main, merged, pushed>>

(* The check that main and release branches pin a stable release; it runs on what the merge would make. *)
RequireStable(p) == p \in StableReleases

(* The pull request is merged: it is no draft, its checks pass and git can do it. A person does it, or auto-merge. *)
Merge ==
    /\ pull.id # 0 /\ ~pull.draft
    /\ main.at < MaxMain
    /\ main.pin \in {next.from, next.pin} \/ next.pin = next.from
    /\ LET p == IF next.pin = next.from THEN main.pin ELSE next.pin IN
         /\ RequireStable(p)
         /\ main' = [at |-> main.at + 1, pin |-> p, work |-> main.work \union (next.work \intersect Work)]
    /\ merged' = merged \union {next.sha}
    /\ pull' = NoPull
    /\ UNCHANGED <<upstream, kept, next, issue, run, stuck, pushed, acts, failures>>

-----------------------------------------------------------------------------
(* What a run decides. *)

Newest(S) == CHOOSE r \in S : \A s \in S : s <= r

(* The newest stable release above the pin, or else the newest pre-release above it. *)
SelectTarget(pin, found) ==
    LET stable == {r \in found \intersect StableReleases : r > pin}
        ahead == {r \in found \ StableReleases : r > pin}
    IN IF stable # {} THEN Newest(stable) ELSE IF ahead # {} THEN Newest(ahead) ELSE None

(* A plausible mistake in the definition below it; used by no specification (and so are the other Fault_ operators). *)
Fault_SpentByName(n) == merged # {}
Fault_NeverSpent(n) == FALSE
(* A pull request from next was merged at exactly this commit. *)
IsSpent(n) == n.sha \in merged

People(n, m) == n.work \union ((m.at + 1) .. n.base)

(* Every way `git rebase` of n onto m can end: rebased, or stopped by a conflict. The pin commit conflicts when main's *)
(* pin moved to another release, and is dropped as empty when main has moved to the same one.                          *)
Rebase(n, m) ==
    IF m.at <= n.base THEN {[tree |-> n, conflict |-> FALSE]}
    ELSE LET first == n.first /\ n.pin # m.pin
             clean == [tree |-> [n EXCEPT !.base = m.at, !.from = m.pin, !.pin = IF first THEN n.pin ELSE m.pin,
                                         !.first = first, !.work = @ \ Contents(m), !.carried = FALSE],
                       conflict |-> FALSE]
             stopped == [tree |-> n, conflict |-> TRUE]
         IN IF first /\ m.pin # n.from THEN {stopped}
            ELSE IF n.work = {} THEN {clean} ELSE {clean, stopped}

AtTarget(n, t) == n.pin = t
Moved(n, m, t) == [n EXCEPT !.base = m.at, !.from = m.pin, !.pin = t, !.first = TRUE, !.work = People(n, m),
                             !.carried = FALSE]

(* The pin move: committed on main, folded into the pin commit that is there, or put under the commits of a branch     *)
(* made by hand. Always the first commit after m, with the rest on top. A branch that starts at a later commit of main *)
(* than the run is for looks like one made by hand, unless main's first commit after m is itself a pin move.           *)
MovePin(n, m, t) ==
    LET moves == ~AtTarget(n, t) \/ n.base > m.at IN
    {[tree |-> n, conflict |-> c] : c \in (IF AtTarget(n, t) THEN {FALSE} ELSE {})
                                           \union (IF moves /\ People(n, m) # {} THEN {TRUE} ELSE {})}
    \union (IF moves THEN {[tree |-> Moved(n, m, t), conflict |-> FALSE]} ELSE {})

(* The outcomes of preparing next. *)
Prepare(m, t, n, spent) ==
    IF t = None THEN
        {[action |-> IF ~Exists(n) THEN "none" ELSE IF spent \/ People(n, m) = {} THEN "delete" ELSE "leave",
          stage |-> "", tree |-> n]}
    ELSE
        LET start == IF ~Exists(n) \/ spent
                     THEN [sha |-> 0, base |-> m.at, from |-> m.pin, pin |-> m.pin, first |-> FALSE, work |-> {},
                           carried |-> FALSE]
                     ELSE n
        IN UNION {IF r.conflict THEN {[action |-> "conflict", stage |-> "rebase", tree |-> n]}
                  ELSE {IF p.conflict THEN [action |-> "conflict", stage |-> "pin", tree |-> n]
                        ELSE IF ~Exists(n) THEN [action |-> "create", stage |-> "", tree |-> [p.tree EXCEPT !.sha = Fresh]]
                        ELSE IF p.tree = n THEN [action |-> "none", stage |-> "", tree |-> n]
                        ELSE [action |-> "update", stage |-> "", tree |-> [p.tree EXCEPT !.sha = Fresh]]
                        : p \in MovePin(r.tree, m, t)}
                  : r \in Rebase(start, m)}

(* What makes two conflicts the same one, so that it is told once. *)
ConflictKey(stage) == <<run.next.sha, stage>>
When(cond, step) == IF cond THEN <<step>> ELSE <<>>

(* The steps to take on GitHub for an outcome, in the order they are taken. *)
Build(o) ==
    LET t == run.target
        own == run.pull
        new == t # None /\ LineOf[t] # LineOf[run.main.pin] /\ t \in StableReleases
        pin == o.tree.pin
        draft == pin \notin StableReleases
        key == ConflictKey(o.stage)
        push == o.action \in {"create", "update"}
    IN IF o.action = "delete" THEN
           When(own.id # 0, [op |-> "close", id |-> own.id]) \o <<[op |-> "delete", expected |-> run.next.sha]>>
       ELSE IF o.action = "leave" \/ t = None \/ ~run.ready THEN <<>>
       ELSE When(new /\ LineOf[run.main.pin] \notin run.kept, [op |-> "branch", line |-> LineOf[run.main.pin]])
            \o When(push, [op |-> "push", tree |-> o.tree, expected |-> run.next.sha])
            \o When(own.id = 0, [op |-> "create", title |-> pin, draft |-> draft,
                                 created |-> IF o.action = "create" THEN o.tree.sha ELSE 0])
            \o When(own.id # 0 /\ own.title # pin, [op |-> "edit", id |-> own.id, title |-> pin])
            \o When(own.id # 0 /\ own.draft # draft, [op |-> "ready", id |-> own.id, draft |-> draft])
            \o When(o.action = "conflict" /\ (own.id = 0 \/ key \notin own.told), [op |-> "comment", key |-> key])
            \o When(~draft /\ o.action # "conflict" /\ pin = t /\ ~own.auto, [op |-> "auto", id |-> own.id])

-----------------------------------------------------------------------------
(* A run. One at a time, for the commit main is on when it is triggered. *)

Trigger ==
    /\ run.pc = "idle"
    /\ run' = [NoRun EXCEPT !.pc = "plan", !.main = main]
    /\ UNCHANGED <<upstream, main, kept, next, pull, merged, issue, stuck, pushed, acts, failures>>

Plan ==
    /\ run.pc = "plan"
    /\ LET t == SelectTarget(run.main.pin, {r \in Releases : upstream[r] # "no"}) IN
         run' = [run EXCEPT !.pc = "checkout", !.target = t, !.ready = t # None /\ upstream[t] = "published"]
    /\ UNCHANGED <<upstream, main, kept, next, pull, merged, issue, stuck, pushed, acts, failures>>

Checkout ==
    /\ run.pc = "checkout"
    /\ run' = [run EXCEPT !.pc = "list", !.next = next, !.kept = kept]
    /\ UNCHANGED <<upstream, main, kept, next, pull, merged, issue, stuck, pushed, acts, failures>>

ListOpen ==
    /\ run.pc = "list"
    /\ run' = [run EXCEPT !.pc = "build", !.pull = pull]
    /\ UNCHANGED <<upstream, main, kept, next, pull, merged, issue, stuck, pushed, acts, failures>>

(* The merged pull requests are listed, what next should be is built, and the steps are decided. A target that is not *)
(* ready is left alone.                                                                                              *)
BuildNext ==
    /\ run.pc = "build"
    /\ \E o \in IF run.target # None /\ ~run.ready THEN {[action |-> "none", stage |-> "", tree |-> run.next]}
                ELSE Prepare(run.main, run.target, run.next, IsSpent(run.next)) :
         run' = [run EXCEPT !.pc = "publish", !.todo = Build(o), !.conflict = o.action = "conflict",
                            !.built = IF o.action \in {"create", "update"} THEN o.tree.sha ELSE 0]
    /\ UNCHANGED <<upstream, main, kept, next, pull, merged, issue, stuck, pushed, acts, failures>>

(* The next step of the run is op; it succeeds, and the run goes on. *)
Do(op) == run.pc = "publish" /\ run.todo # <<>> /\ Head(run.todo).op = op
Done == run' = [run EXCEPT !.todo = Tail(@)]
Stop == run' = [run EXCEPT !.todo = <<>>]
Todo == Head(run.todo)

Fault_IgnoreBranch == Do("branch") /\ Done /\ UNCHANGED <<upstream, main, kept, next, pull, merged, issue, stuck, pushed, acts, failures>>
CreateReleaseBranch ==
    /\ Do("branch")
    /\ kept' = kept \union {Todo.line}
    /\ Done
    /\ UNCHANGED <<upstream, main, next, pull, merged, issue, stuck, pushed, acts, failures>>

(* Pushed with a lease: when next is not where it was read, nothing is pushed and nothing else is done. *)
Push ==
    /\ Do("push")
    /\ IF next.sha = Todo.expected THEN next' = Todo.tree /\ Done ELSE Stop /\ UNCHANGED next
    /\ UNCHANGED <<upstream, main, kept, pull, merged, issue, stuck, pushed, acts, failures>>

(* GitHub refuses a second pull request for a branch, and one for a branch that is gone. *)
CreatePull ==
    /\ Do("create")
    /\ Exists(next) /\ pull.id = 0
    /\ pull' = [id |-> IF run.pull.id = 1 THEN 2 ELSE 1, title |-> Todo.title, draft |-> Todo.draft, auto |-> FALSE, told |-> {}]
    /\ Done
    /\ UNCHANGED <<upstream, main, kept, next, merged, issue, stuck, pushed, acts, failures>>

(* The pull request was refused: a branch that was just created is taken away again, unless someone pushed to it. *)
CreateRefused ==
    /\ Do("create")
    /\ \/ ~Exists(next) /\ UNCHANGED failures
       \/ failures < MaxFailures /\ failures' = failures + 1
    /\ next' = IF Todo.created # 0 /\ next.sha = Todo.created THEN NoNext ELSE next
    /\ Stop
    /\ UNCHANGED <<upstream, main, kept, pull, merged, issue, stuck, pushed, acts>>

(* The title and the text can be changed whatever has become of the pull request; whether it is a draft cannot. *)
EditPull ==
    /\ Do("edit")
    /\ pull' = IF pull.id = Todo.id THEN [pull EXCEPT !.title = Todo.title] ELSE pull
    /\ Done
    /\ UNCHANGED <<upstream, main, kept, next, merged, issue, stuck, pushed, acts, failures>>

MarkPull ==
    /\ Do("ready")
    /\ IF pull.id = Todo.id THEN pull' = [pull EXCEPT !.draft = Todo.draft] /\ Done ELSE Stop /\ UNCHANGED pull
    /\ UNCHANGED <<upstream, main, kept, next, merged, issue, stuck, pushed, acts, failures>>

Comment ==
    /\ Do("comment")
    /\ pull' = IF pull.id = 0 THEN pull ELSE [pull EXCEPT !.told = @ \union {Todo.key}]
    /\ Done
    /\ UNCHANGED <<upstream, main, kept, next, merged, issue, stuck, pushed, acts, failures>>

(* GitHub may refuse auto-merge, which is only noted. *)
EnableAutomerge ==
    /\ Do("auto")
    /\ pull' \in {pull, IF pull.id = 0 THEN pull ELSE [pull EXCEPT !.auto = TRUE]}
    /\ Done
    /\ UNCHANGED <<upstream, main, kept, next, merged, issue, stuck, pushed, acts, failures>>

ClosePull ==
    /\ Do("close")
    /\ pull' = IF pull.id = Todo.id THEN NoPull ELSE pull
    /\ Done
    /\ UNCHANGED <<upstream, main, kept, next, merged, issue, stuck, pushed, acts, failures>>

(* Deleted with a lease; a pull request whose branch goes is closed by GitHub. *)
DeleteNext ==
    /\ Do("delete")
    /\ IF next.sha = Todo.expected THEN next' = NoNext /\ pull' = NoPull ELSE UNCHANGED <<next, pull>>
    /\ Done
    /\ UNCHANGED <<upstream, main, kept, merged, issue, stuck, pushed, acts, failures>>

(* Any call, and the jobs around them, can fail: the next job stops there. *)
Fails ==
    /\ run.pc \in {"checkout", "list", "build"} \/ (run.pc = "publish" /\ run.todo # <<>>)
    /\ failures < MaxFailures
    /\ failures' = failures + 1
    /\ run' = [run EXCEPT !.pc = "publish", !.todo = <<>>, !.conflict = FALSE]
    /\ UNCHANGED <<upstream, main, kept, next, pull, merged, issue, stuck, pushed, acts>>

(* Check A: nothing ahead closes the issue, a pass closes it, a failure writes it, and no result changes nothing. *)
CheckDecision(outcome) ==
    IF run.target = None THEN None
    ELSE IF ~run.ready THEN issue
    ELSE CASE outcome = "passed" -> None [] outcome = "failed" -> run.target [] OTHER -> issue

(* Of the steps of check A only the suite itself gives a pass or a failure. *)
CheckOutcomes == {"passed", "failed", "no_result"}

(* The next job is over, and check A reports; they share nothing but the plan, so their order shows nowhere. *)
Report ==
    /\ run.pc = "publish" /\ run.todo = <<>>
    /\ \E outcome \in CheckOutcomes : issue' = CheckDecision(outcome)
    /\ stuck' = run.conflict
    /\ run' = NoRun
    /\ UNCHANGED <<upstream, main, kept, next, pull, merged, pushed, acts, failures>>

PublishStep ==
    \/ CreateReleaseBranch \/ Push \/ CreatePull \/ CreateRefused \/ EditPull \/ MarkPull
    \/ Comment \/ EnableAutomerge \/ ClosePull \/ DeleteNext

RunStep == Trigger \/ Plan \/ Checkout \/ ListOpen \/ BuildNext \/ PublishStep \/ Report

People_ ==
    \/ MainMoves \/ PersonRebases \/ PersonEditsPull \/ PersonDeletesMerged \/ Merge
    \/ \E w \in Work : PersonPushes(w)

Next == RunStep \/ Fails \/ People_ \/ \E r \in Releases : UpstreamTags(r) \/ UpstreamPublishes(r)

(* The workflow runs every hour, and a run that is not failed by anything gets to its end. *)
Spec == Init /\ [][Next]_vars /\ WF_vars(RunStep)

-----------------------------------------------------------------------------

(* Whatever people push to next is on next or in main, through rebases, re-pins, deletions, merges with any number of  *)
(* steps of a run in between.                                                                                          *)
WorkIsKept == pushed \subseteq next.work \union main.work

(* main leaves a release line only once the line has a branch that keeps it, unless the pin move that takes it there *)
(* was carried over by hand from the line before: a run that is for an older commit of main than the one it is made   *)
(* ready beside keeps the line that commit was on, and no other.                                                      *)
LineIsKept == [][LineOf[main'.pin] # LineOf[main.pin] => LineOf[main.pin] \in kept \/ next.carried]_vars

(* What GitHub should look like for what upstream and main are now. *)
Settled ==
    LET t == SelectTarget(main.pin, {r \in Releases : upstream[r] # "no"}) IN
    CASE t = None -> issue = None /\ (IF Exists(next) THEN next.work \ main.work # {} ELSE pull.id = 0)
      [] t # None /\ upstream[t] = "published" ->
           /\ next.base = main.at /\ next.pin = t /\ next.first
           /\ pull.id # 0 /\ pull.title = t /\ pull.draft = (t \notin StableReleases)
           /\ (LineOf[t] # LineOf[main.pin] /\ t \in StableReleases) => LineOf[main.pin] \in kept
      [] OTHER -> TRUE

(* Once upstream, people and GitHub's failures leave it alone, next and its pull request come to be what they should,  *)
(* unless a conflict waits for a person: whatever half a failed or overtaken run has left is repaired by later ones.   *)
Converges == <>[](Settled \/ stuck)

=============================================================================
