------------------------------ MODULE MCReads ------------------------------
(* What gh reads of a repository, a topic at a time: the verdict on a pull *)
(* request, its branch, a scheduled merge; the conversations on it and the *)
(* references to an issue; searches of up to two terms, and lists; the runs *)
(* of Actions, and what names them.                                        *)
EXTENDS PullView, Threads, Listing, ActionsRuns

CONSTANTS ann, bob, c1, c2, main, own, yml, new

VARIABLE topic

MCUsers == {ann, bob}
MCWriters == {ann}
MCContexts == {c1, c2}
MCJobs == {c2}

Rule == [plain |-> TRUE, covers |-> TRUE, on |-> FALSE, patterns |-> {}, approvals |-> 0, rejected |-> FALSE,
         stale |-> FALSE, requests |-> FALSE, outdated |-> FALSE, files |-> FALSE, limits |-> FALSE]
Approved == [Rule EXCEPT !.approvals = 1]
Strict == [Approved EXCEPT !.rejected = TRUE, !.stale = TRUE, !.requests = TRUE]
Built == [Rule EXCEPT !.on = TRUE, !.outdated = TRUE]
Glob(r) == [r EXCEPT !.plain = FALSE]
MCRuleLists ==
    {<<>>, <<Strict>>, <<[Rule EXCEPT !.rejected = TRUE]>>, <<Built>>,
     <<[Built EXCEPT !.patterns = {{c1}}, !.limits = TRUE]>>, <<[Rule EXCEPT !.files = TRUE]>>,
     <<Glob(Approved), Rule>>, <<[Strict EXCEPT !.covers = FALSE], Glob(Built), Glob(Approved)>>}

Owner == [login |-> ann, admin |-> TRUE, confined |-> FALSE, writes |-> TRUE, listed |-> TRUE,
          issues |-> TRUE, archived |-> FALSE]
MCViewers ==
    {Owner, [Owner EXCEPT !.confined = TRUE, !.listed = FALSE], [Owner EXCEPT !.issues = FALSE],
     [Owner EXCEPT !.archived = TRUE],
     [Owner EXCEPT !.login = bob, !.admin = FALSE, !.writes = FALSE, !.listed = FALSE]}

MCPlaces == {"file"}
MCPulls == {1, 2}

Item(kind, state, assignee, of, labels, title, body) ==
    [kind |-> kind, state |-> state, author |-> ann, assignee |-> assignee,
     asked |-> IF kind = "pr" THEN of ELSE {}, mentions |-> IF kind = "issue" THEN of ELSE {}, labels |-> labels,
     title |-> title, body |-> body, branch |-> IF title = {} THEN "topic" ELSE "fix",
     fork |-> IF body = {} THEN bob ELSE None, base |-> IF assignee = None THEN "main" ELSE "next"]
MCItems ==
    {Item(k, s, a, r, l, w[1], w[2]) :
        k \in {"pr", "issue"}, s \in {"open", "closed", "merged"}, a \in {None, ann}, r \in {{}, {bob}},
        l \in {{}, {"bug"}}, w \in {<<{}, {}>>, <<{"x"}, {}>>, <<{}, {"x"}>>}}
    \ {Item("issue", "merged", a, r, l, w[1], w[2]) :
        a \in {None, ann}, r \in {{}, {bob}},
        l \in {{}, {"bug"}}, w \in {<<{}, {}>>, <<{"x"}, {}>>, <<{}, {"x"}>>}}
MCKnown == {"bug"}
MCSplit == [v \in {"topic", "bob:topic"} |-> [owner |-> IF v = "topic" THEN None ELSE bob, branch |-> "topic"]]

Firsts == {<<Term("repo", "here"), Term("type", "pr")>>, <<Term("repo", "here"), Term("type", "issue")>>,
           <<Term("repo", "here")>>, <<>>}
Terms ==
    {Term("repo", "other"), Term("type", "pr"), Term("state", "open"), Term("state", "closed"),
     Term("state", "merged"), Term("state", "draft"), Term("author", "@me"), Term("author", bob),
     Term("assignee", "@me"), Term("review-requested", bob), Term("label", "bug"), Term("label", "odd"),
     Term("base", "main"), Term("head", "topic"), Term("head", "bob:topic"), Term("in", "title"),
     Term("in", "body"), Term("word", "x"), Term("open", ""), Term("close", ""), Term("or", ""), Term("sort", "updated-asc"), Term("sort", "reactions")}
MCAsks ==
    {[op |-> "search", terms |-> f \o t] :
        f \in Firsts, t \in {<<>>} \union {<<a>> : a \in Terms} \union {<<a, b>> : a, b \in Terms}}
    \union {[op |-> "issues", states |-> s, author |-> a, assignee |-> g, mention |-> m, labels |-> l] :
              s \in SUBSET {"open", "closed"}, a \in {None, ann, bob}, g \in {None, ann}, m \in {None, bob},
              l \in {{}, {"bug"}, {"odd"}}}
    \union {[op |-> "pulls", states |-> s, base |-> b, head |-> h] :
              s \in SUBSET {"open", "closed", "merged"}, b \in {None, "main"}, h \in {None, "topic", "bob:topic"}}

MCFiles == {yml, new}
MCDirectories == <<".forgejo", ".github">>
MCRunQueries ==
    {[status |-> "", limit |-> l, workflow |-> w] : l \in 0..4, w \in {"", new}}
    \union {[status |-> s, limit |-> 2, workflow |-> w] : w \in {"", yml}, s \in {"queued", "in_progress", "completed", "success", "odd"}}

Ordinary == head.kind = "own" /\ head.name = "topic"
Plain == ~pull.draft /\ ~pull.touches
NoList ==
    /\ ask = [op |-> "none"] /\ pc = "idle" /\ query = NoQuery
    /\ items = <<>> /\ were = {} /\ left = {} /\ answered = {}

NoTree == [c \in {main, own} |-> [d \in {".forgejo", ".github"} |-> {"none"}]]
NoRuns == runs = <<>> /\ tree = NoTree /\ broken = {} /\ wanted = [status |-> "", limit |-> 1, workflow |-> ""] /\ RunsInit
Run(f, c, s) == [file |-> f, commit |-> c, status |-> s]

\* Lists of runs of every status, and two runs of files in any place.
ListedInit ==
    /\ tree = NoTree /\ broken = {}
    /\ \/ \E n \in 0..4 : runs = [i \in 1..n |-> Run(yml, own, <<"success", "waiting", "blocked", "running">>[i])]
       \/ \E s \in Native \union {"new"} :
             runs = <<Run(yml, own, "success"), Run(yml, own, s), Run(new, own, "waiting")>>
NamedInit ==
    /\ tree \in [{main, own} -> [{".forgejo", ".github"} -> {{"none"}, {}, {yml}, {yml, new}}]]
    /\ broken \in SUBSET {main, own}
    /\ \E c \in {main, own}, f, g \in MCFiles :
          runs = <<Run(f, own, "success"), Run(g, c, "success"), Run(new, own, "running")>>

MCInit ==
    \/ topic = "verdict" /\ ViewInit /\ Ordinary /\ ThreadInit /\ NoList /\ NoRuns
    \/ topic = "head" /\ ViewInit /\ rules = <<>> /\ Plain /\ ThreadInit /\ NoList /\ NoRuns
    \/ topic = "plan" /\ ViewInit /\ Ordinary /\ Plain /\ ThreadInit /\ NoList /\ NoRuns
    \/ topic \in {"talk", "refer"} /\ ViewInit /\ rules = <<>> /\ Ordinary /\ Plain /\ ThreadInit /\ NoList /\ NoRuns
    \/ topic = "list" /\ ViewInit /\ rules = <<>> /\ Ordinary /\ Plain /\ ThreadInit /\ ListInit /\ NoRuns
    \/ /\ topic \in {"runs", "names"} /\ ViewInit /\ rules = <<>> /\ Ordinary /\ Plain /\ ThreadInit /\ NoList
       /\ \/ topic = "runs" /\ ListedInit
          \/ topic = "names" /\ NamedInit /\ wanted = [status |-> "", limit |-> 3, workflow |-> ""]
       /\ RunsInit

OfPull == UNCHANGED <<topic, threadVars, listVars, runVars>>
MCNext ==
    \/ topic = "verdict" /\ OfPull
       /\ (Follow \/ (moves < 3 /\ (Reviewing \/ Building \/ PushHead \/ Edit \/ Protect)))
    \/ topic = "head" /\ OfPull /\ (Branching \/ Edit \/ Merge)
    \/ topic = "plan" /\ OfPull /\ moves < 4 /\ (Scheduling \/ Merge \/ Edit \/ Protect)
    \/ topic = "talk" /\ Talking /\ UNCHANGED <<topic, viewVars, listVars, runVars>>
    \/ topic = "refer" /\ Referring /\ UNCHANGED <<topic, viewVars, listVars, runVars>>
    \/ topic = "list" /\ ListNext /\ UNCHANGED <<topic, viewVars, threadVars, runVars>>
    \/ topic = "runs" /\ RunsNext /\ UNCHANGED <<topic, viewVars, threadVars, listVars>>

MCSpec == MCInit /\ [][MCNext]_<<topic, viewVars, threadVars, listVars, runVars>>
=============================================================================
