---------------------------- MODULE ActionsRuns ----------------------------
(***************************************************************************)
(* Actions runs in GitHub's form (the gateway's /actions routes, fga_core  *)
(* actions): a list of runs that gh follows by its `next` links while CI   *)
(* starts more of them, and the workflow that names a run.  The newest run *)
(* is the first.  A workflow's ID, its file name's hash, is the file name. *)
(***************************************************************************)
EXTENDS Naturals, Sequences, FiniteSets, SequencesExt

CONSTANTS
    Files,          \* workflow file names
    WORKFLOW_DIRECTORIES,
    Main,           \* the default branch, among the commits
    RECENT,         \* how many runs find_workflow reads
    MAX_LIMIT, MAX_RUN_PAGES,
    SIZE,           \* the forge's page size
    RunQueries,     \* [status, limit, workflow], as gh asks
    MaxStarts       \* bound: runs that start meanwhile

ASSUME RunsAssumption ==
    /\ {RECENT, MAX_LIMIT, MAX_RUN_PAGES, SIZE} \subseteq Nat \ {0} /\ MaxStarts \in Nat
    /\ Files # {} /\ "none" \notin Files
    /\ WORKFLOW_DIRECTORIES \in Seq(Range(WORKFLOW_DIRECTORIES)) /\ WORKFLOW_DIRECTORIES # <<>>
    /\ \A query \in RunQueries : query.limit \in Nat

VARIABLES
    runs,    \* [file, commit, status], the newest first
    tree,    \* commit -> directory -> its files, or {"none"} without it
    broken,  \* the commits whose files cannot be read
    wanted,   \* what gh asks
    walk,    \* [page, upstream, batch, got, total]
    began,   \* history: the runs that were there when gh began
    stage    \* "ask", "read", "done", "failed"

runVars == <<runs, tree, broken, wanted, walk, began, stage>>

(***************************************************************************)
(* fga_core::actions                                                       *)
(***************************************************************************)

Native == {"waiting", "blocked", "unknown", "running", "success", "failure", "cancelled", "skipped"}

\* status: <<status, conclusion>>; a native status it does not know fails.
RunStatus(native) ==
    CASE native \in {"waiting", "blocked", "unknown"} -> <<"queued", "">>
      [] native = "running" -> <<"in_progress", "">>
      [] OTHER -> <<"completed", native>>

\* A workflow: the file, where it is, and the commit whose text names it; a
\* workflow named after its file has no commit.
Workflow(file, dir, commit) == [id |-> file, path |-> <<dir, file>>, of |-> commit]

Dirs == Range(WORKFLOW_DIRECTORIES)
DirsAt(commit) == {d \in Dirs : tree[commit][d] # {"none"}}

\* The first of some directories, as Forgejo looks for them.
FirstOf(dirs) ==
    WORKFLOW_DIRECTORIES[CHOOSE i \in DOMAIN WORKFLOW_DIRECTORIES :
        WORKFLOW_DIRECTORIES[i] \in dirs /\ \A j \in 1..(i - 1) : WORKFLOW_DIRECTORIES[j] \notin dirs]

\* workflows: the files of the first directory there is, be it an empty one.
Workflows ==
    IF DirsAt(Main) = {} THEN {}
    ELSE LET d == FirstOf(DirsAt(Main)) IN {Workflow(f, d, Main) : f \in tree[Main][d] \cap Files}
Unlisted == Workflows # {} /\ Main \in broken

\* workflow_for: the default branch's, or the run's own, or its file name.
WorkflowFor(run) ==
    LET known == {w \in Workflows : w.id = run.file}
        used == {w.path[1] : w \in Workflows}
        first(dirs) == FirstOf(IF dirs \cap used # {} THEN dirs \cap used ELSE dirs)
        holding == {d \in Dirs : run.file \in tree[run.commit][d]}
    IN  IF known # {} THEN CHOOSE w \in known : TRUE
        ELSE IF holding # {} /\ run.commit \notin broken
             THEN Workflow(run.file, first(holding), run.commit)
        ELSE Workflow(run.file, first(Dirs), "")

(***************************************************************************)
(* fga_server::runs                                                        *)
(***************************************************************************)

\* Mutant: a workflow ID is looked for among the default branch's only.
FindWorkflow_Default(id) == {w \in Workflows : w.id = id}

\* find_workflow, for an ID; {} is a 404.
FindWorkflow(id) ==
    LET known == {w \in Workflows : w.id = id}
        recent == {i \in DOMAIN runs : i <= RECENT /\ runs[i].file = id}
    IN  IF known # {} THEN known
        ELSE {WorkflowFor(runs[i]) : i \in {i \in recent : \A j \in recent : i <= j}}

\* The native statuses of a filter of GitHub's.
NativeOf(status) ==
    CASE status = "" -> Native \union {"new"}
      [] status = "queued" -> {"waiting", "blocked", "unknown"}
      [] status = "in_progress" -> {"running"}
      [] status = "completed" -> {"success", "failure", "cancelled", "skipped"}
      [] OTHER -> {status} \cap {"success", "failure", "cancelled", "skipped"}

Clamp(limit) == IF limit < 1 THEN 1 ELSE IF limit > MAX_LIMIT THEN MAX_LIMIT ELSE limit
Meets(run, query) == run.status \in NativeOf(query.status) /\ query.workflow \in {"", run.file}
Matching(all, query) ==
    LET meeting[n \in 0..Len(all)] ==
            IF n = 0 THEN <<>>
            ELSE meeting[n - 1] \o (IF Meets(all[n], query) THEN <<all[n]>> ELSE <<>>)
    IN  meeting[Len(all)]

\* list, as gh asks for a page: what a query or the repository makes fail.
AskPage ==
    /\ stage = "ask"
    /\ stage' = IF \/ NativeOf(wanted.status) = {} \/ Unlisted
                   \/ wanted.workflow # "" /\ FindWorkflow(wanted.workflow) = {}
                THEN "failed" ELSE "read"
    /\ walk' = [walk EXCEPT !.upstream = ((walk.page - 1) * Clamp(wanted.limit)) \div SIZE + 1,
                            !.batch = <<>>]
    /\ UNCHANGED <<runs, tree, broken, wanted, began>>

\* links: the page after this one, while there is one.
LastPage_Whole(total) == total \div Clamp(wanted.limit)
LastPage(total) == (total + Clamp(wanted.limit) - 1) \div Clamp(wanted.limit)

\* action_runs, a page of the forge's; with enough of them, the answer.
ReadRuns ==
    LET limit == Clamp(wanted.limit)
        skip == ((walk.page - 1) * limit) % SIZE
        first == ((walk.page - 1) * limit) \div SIZE + 1
        there == Matching(runs, wanted)
        total == Len(there)
        page == SubSeq(there, (walk.upstream - 1) * SIZE + 1,
                       IF walk.upstream * SIZE < total THEN walk.upstream * SIZE ELSE total)
        batch == walk.batch \o page
        window == SubSeq(batch, skip + 1, IF skip + limit < Len(batch) THEN skip + limit ELSE Len(batch))
    IN  /\ stage = "read"
        /\ \/ /\ page = <<>> \/ Len(batch) >= skip + limit \/ walk.upstream * SIZE >= total
              /\ IF \E i \in DOMAIN window : window[i].status \notin Native
                 THEN stage' = "failed" /\ UNCHANGED walk
                 ELSE /\ stage' = IF walk.page < LastPage(total) THEN "ask" ELSE "done"
                      /\ walk' = [walk EXCEPT !.page = @ + 1, !.batch = <<>>, !.got = @ \o window,
                                              !.total = total]
           \/ /\ page # <<>> /\ Len(batch) < skip + limit /\ walk.upstream * SIZE < total
              /\ stage' = IF walk.upstream + 1 < first + MAX_RUN_PAGES THEN "read" ELSE "failed"
              /\ walk' = [walk EXCEPT !.upstream = @ + 1, !.batch = batch]
        /\ UNCHANGED <<runs, tree, broken, wanted, began>>

\* Forgejo starts a run.
Start(r) ==
    /\ stage \in {"ask", "read"}
    /\ Len(runs) < Len(began) + MaxStarts
    /\ runs' = <<r>> \o runs
    /\ UNCHANGED <<tree, broken, wanted, walk, began, stage>>

\* What Forgejo holds: the commits' files, and runs of some of the commits.
Hosted ==
    /\ runs \in Seq([file : Files, commit : DOMAIN tree, status : Native \union {"new"}])
    /\ tree \in [DOMAIN tree -> [Dirs -> {{"none"}} \union SUBSET Files]]
    /\ Main \in DOMAIN tree /\ "" \notin DOMAIN tree

RunsInit ==
    /\ Hosted /\ wanted \in RunQueries
    /\ walk = [page |-> 1, upstream |-> 1, batch |-> <<>>, got |-> <<>>, total |-> 0]
    /\ began = runs /\ stage = "ask"

RunsNext == AskPage \/ ReadRuns \/ \E i \in DOMAIN began : Start([began[i] EXCEPT !.commit = Main])
RunsSpec == RunsInit /\ [][RunsNext]_runVars

(***************************************************************************)
(* Properties                                                              *)
(***************************************************************************)

Times(r, all) == Cardinality({i \in DOMAIN all : all[i] = r})

\* A walk along the `next` links ends with every run that was there when it
\* began and has the status asked for, however the pages of gh and of the forge
\* overlap and however many runs start between two of them; with none starting
\* it holds each once, in the forge's order.  What GitHub's status or conclusion
\* says of each run is what was asked for (runs.rs list, actions.rs action_runs).
RunsListed ==
    stage = "done" =>
        /\ \A r \in {began[i] : i \in DOMAIN began} :
              Times(r, walk.got) >= Times(r, Matching(began, wanted))
        /\ runs = began => walk.got = Matching(began, wanted)
        /\ \A i \in DOMAIN walk.got :
              wanted.status = ""
              \/ wanted.status \in {RunStatus(walk.got[i].status)[1], RunStatus(walk.got[i].status)[2]}

\* gh's `run view` asks for the workflow a run names, and stops on a 404: it
\* finds one for every recent run, under the name of a listed run of that file;
\* and a name comes from a text that is there (runs.rs find_workflow,
\* actions.rs workflow_for).
RunsNamed ==
    Unlisted \/
        /\ \A i \in {i \in DOMAIN runs : i <= RECENT} :
              LET workflows == FindWorkflow(WorkflowFor(runs[i]).id)
              IN  /\ workflows # {}
                  /\ \A w \in workflows : \E j \in DOMAIN runs :
                        runs[j].file = runs[i].file /\ WorkflowFor(runs[j]) = w
        /\ \A i \in DOMAIN runs :
              LET w == WorkflowFor(runs[i])
              IN  /\ w.of # "" => w.path[2] \in tree[w.of][w.path[1]] /\ w.of \in {Main, runs[i].commit}
                  /\ w.of = "" => \/ runs[i].commit \in broken
                                  \/ \A d \in DOMAIN tree[runs[i].commit] :
                                        runs[i].file \notin tree[runs[i].commit][d]
=============================================================================
