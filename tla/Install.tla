------------------------------ MODULE Install ------------------------------
(***************************************************************************)
(* What gfj puts into the user's home beside its stores: the `gh` wrapper, *)
(* the launch agent and the git recorder; `install-shim`,                  *)
(* `uninstall-shim`, `bootstrap`, `trace git-recorder create` and its      *)
(* removal, at once with each other, with `gfj auth` and `gfj config`, and *)
(* with the user, who may put a gh or git of his own in the same places.   *)
(***************************************************************************)
EXTENDS Stores, SequencesExt

CONSTANTS
    HomeDirs,   \* directories on or off PATH under the user's home
    SysDirs,    \* directories the user cannot write
    Local,      \* ~/.local/bin
    Cellar,     \* where a package manager keeps a gh it links to
    GitHub,     \* github.com, in the checkout's remotes
    MaxUser     \* bound: the user's own changes

Dirs == HomeDirs \union SysDirs
Places == Dirs \union {Cellar}

\* A name is missing, a gh new enough, one too old (or no gh at all), a wrapper
\* of ours, this dispatcher under the name gh, or a link to the gh elsewhere.
Files == {"missing", "gh", "old", "wrapper", "dispatcher"}

\* Its commands, and where one may be beside the places of Stores.
Installers == {"install", "bootstrap"}
Recorders == {"record", "unrecord"}
InstallOps == Installers \union Recorders \union {"uninstall"}
InstallPlaces == {"inspect", "place", "path", "agent", "apply", "finish", "gather", "sift",
                  "unlink_shim", "open", "put_git", "put_marker", "drop_git", "drop_marker", "drop_dir"}

ASSUME InstallAssumption ==
    /\ OtherOps = InstallOps /\ OtherPlaces = InstallPlaces
    /\ Local \in HomeDirs /\ HomeDirs \cap SysDirs = {} /\ IsFiniteSet(HomeDirs) /\ IsFiniteSet(SysDirs)
    /\ Cellar \notin HomeDirs \union SysDirs /\ GitHub \notin Hosts \union {None} /\ MaxUser \in Nat
    /\ None \notin Places /\ Places \cap Files = {}

VARIABLES
    entry,     \* place -> what the name `gh` is there
    path,      \* the directories of PATH, in order
    paths_gh,  \* the configured real gh, or None
    agent,     \* whether the launch agent is written
    launchd,   \* whether launchd's PATH has the directories GUI tools need
    checkout,  \* the checkout bootstrap runs in
    args,      \* process -> its options
    view,      \* process -> what it found and decided
    box,       \* the git recorder's directory
    users,     \* how often the user changed something
    raced,     \* commands the user changed something under after they looked
    defaults   \* places a bootstrap with no --bin-dir put the wrapper

installs == <<entry, path, paths_gh, agent, launchd, checkout, args, view, box, users, raced, defaults>>

\* The places a chain of links from d passes through, and where it ends: at a file,
\* or nowhere if it is a loop.
Chain(e, d) ==
    LET closed == {S \in SUBSET Places : d \in S /\ \A x \in S : e[x] \in Places => e[x] \in S}
    IN  {x \in Places : \A S \in closed : x \in S}
Canonical(e, d) ==
    LET ends == {x \in Chain(e, d) : e[x] \in Files}
    IN  IF ends = {} THEN None ELSE CHOOSE x \in ends : TRUE
Reaches(e, d) == IF Canonical(e, d) = None THEN "missing" ELSE e[Canonical(e, d)]

\* shim::is_managed_shim, external::should_skip_gh_candidate, is_executable_file:
\* each follows links.
Managed(e, d) == Reaches(e, d) = "wrapper"
Skipped(e, d) == Reaches(e, d) \in {"wrapper", "dispatcher"}
Runs(e, d) == Reaches(e, d) # "missing"

(***************************************************************************)
(* Which gh is found                                                       *)
(***************************************************************************)

Listed(seq) == {seq[i] : i \in DOMAIN seq}
FirstIn(seq, good) ==
    IF Listed(seq) \cap good = {} THEN None
    ELSE seq[CHOOSE i \in DOMAIN seq : seq[i] \in good /\ \A j \in 1..(i - 1) : seq[j] \notin good]

\* The fallback directories: ~/.local/bin first, then the system's.
Fallback == <<Local>> \o SetToSeq(SysDirs)

\* external::find_program_with_fallbacks: what a wrapper runs.  A configured gh
\* that cannot be run ends the search, one that is the shim does not.
WrapperFinds(e) ==
    IF paths_gh # None /\ ~Runs(e, paths_gh) THEN None
    ELSE IF paths_gh # None /\ ~Skipped(e, paths_gh) THEN paths_gh
    ELSE FirstIn(path \o Fallback, {d \in Places : Runs(e, d) /\ ~Skipped(e, d)})

\* Mutant: the gh a wrapper finds now, whatever the new one replaces.
SetupFinds_Now(e, replaced) == WrapperFinds(e)

\* setup::find_tool_passing_over: what install and bootstrap take for the gh the
\* wrapper will run, with `replaced` the place --force writes over (same_location:
\* a chain of links that passes through it counts).
SetupFinds(e, replaced) ==
    LET over(d) == Skipped(e, d) \/ replaced \in Chain(e, d)
        found == {d \in Places : Runs(e, d) /\ ~over(d)}
        onPath == FirstIn(path, found)
    IN  IF paths_gh # None /\ ~Runs(e, paths_gh) THEN None
        ELSE IF paths_gh # None /\ ~over(paths_gh) THEN paths_gh
        ELSE IF onPath # None THEN onPath
        ELSE FirstIn(Fallback, found \ Listed(path))

\* gh_version::check: an old gh, one that does not say its version, or none is
\* refused.
Supported(e, d) == d # None /\ Reaches(e, d) = "gh"

\* setup::select_target_bin_dir: the first directory of PATH under home whose gh
\* is missing (a dangling link counts) or ours, else ~/.local/bin.
SafeTargets(e) == {d \in HomeDirs : ~Runs(e, d) \/ Managed(e, d)}
Target(e, a) ==
    IF a.dir # None THEN a.dir
    ELSE IF a.user_local \/ Listed(path) \cap SafeTargets(e) = {} THEN Local
    ELSE FirstIn(path, SafeTargets(e))

(***************************************************************************)
(* bootstrap::plan_repo                                                    *)
(***************************************************************************)

\* What gh resolves here now, the host of the first remote, the hosts the user's
\* gh hosts.yml lists, those whose spelling the shim cannot use, those whose
\* hostname another entry has with another port, and those gh would act on here
\* were they allowlisted.
AnyHost == Hosts \union {GitHub, None}
Checkouts == [now: AnyHost, first: AnyHost, yml: SUBSET Hosts, odd: SUBSET Hosts,
              shared: SUBSET Hosts, routed: SUBSET Hosts]

Plan(allowed) ==
    LET now == checkout.now
        first == checkout.first
        github(h) == h = GitHub \/ h \in checkout.yml
        leave == [plan |-> IF now # None THEN "leave" ELSE "not_resolved", host |-> None]
        candidate == FirstIn(<<now, first>>, Hosts \ checkout.yml)
    IN  IF now = None /\ first = None THEN [plan |-> "none", host |-> None]
        ELSE IF now # None /\ now \in allowed
             THEN [plan |-> IF github(now) THEN "github_allowlisted" ELSE "allowlist", host |-> now]
        ELSE IF candidate = None THEN leave
        ELSE IF candidate \in checkout.odd
             THEN IF now = None THEN [plan |-> "unusable", host |-> None] ELSE leave
        ELSE IF candidate \notin allowed /\ candidate \in checkout.shared
             THEN [plan |-> "conflict", host |-> None]
        ELSE IF candidate \in checkout.routed THEN [plan |-> "allowlist", host |-> candidate]
        ELSE leave

(***************************************************************************)
(* install-shim and bootstrap                                              *)
(***************************************************************************)

Options == [dir: Dirs \union {None}, user_local: BOOLEAN, force: BOOLEAN, dry_run: BOOLEAN]
NoView == [target |-> None, gh |-> None, plan |-> "none", hosts |-> {}, fixes |-> {},
           left |-> <<>>, done |-> FALSE]

Same == UNCHANGED <<stores, cmd, locals, crashes, history>>
World == <<path, paths_gh, checkout, args>>

BeginInstall(p) ==
    /\ Begin(p)
    /\ cmd[p].op \in InstallOps
    /\ Goto(p, CASE cmd[p].op \in Installers -> "inspect"
                 [] cmd[p].op = "uninstall" -> "gather"
                 [] OTHER -> "open")
    /\ UNCHANGED installs

\* The config, the plan, the target and the gh the wrapper would run.  Nothing is
\* written for a gh the shim cannot use; a dry run goes on to report.
Inspect(p) ==
    LET a == args[p]
        target == IF cmd[p].op = "install" /\ a.dir = None THEN Local ELSE Target(entry, a)
        gh == SetupFinds(entry, IF a.force THEN target ELSE None)
        plan == IF cmd[p].op = "install" THEN [plan |-> "none", host |-> None] ELSE Plan(Allowed)
        fine == Supported(entry, gh)
        bad == (IF fine THEN {} ELSE {"real gh"})
               \union (IF cmd[p].op = "bootstrap" /\ plan.plan \in {"none", "unusable", "conflict", "github_allowlisted"}
                       THEN {"repository"} ELSE {})
    IN  /\ pc[p] = "inspect"
        /\ IF config.corrupt \/ (~fine /\ ~a.dry_run)
           THEN Goto(p, "error") /\ UNCHANGED <<view, cmd>>
           ELSE /\ view' = [view EXCEPT ![p] = [NoView EXCEPT !.target = target, !.gh = gh,
                                                !.plan = plan.plan, !.hosts = Allowed,
                                                !.fixes = bad]]
                /\ IF plan.plan = "allowlist"
                   THEN cmd' = [cmd EXCEPT ![p].host = plan.host]
                   ELSE UNCHANGED cmd
                /\ Goto(p, IF plan.plan = "allowlist" /\ ~a.dry_run THEN "load" ELSE "look")
        /\ UNCHANGED <<stores, locals, faults, crashes, history, World, entry, agent, launchd, box,
                       users, raced, defaults>>

\* shim::install_shim looks without following a link; what is there and is not
\* ours needs --force.  A dry run asks whether the file exists, so a dangling
\* link passes.  bootstrap notes a failure and goes on.
Refuse(p) == IF cmd[p].op = "bootstrap"
             THEN view' = [view EXCEPT ![p].fixes = @ \union {"shim"}] /\ Goto(p, "path")
             ELSE Goto(p, "error") /\ UNCHANGED view

LookAtTarget(p) ==
    LET t == view[p].target
        there == IF args[p].dry_run THEN Runs(entry, t) ELSE entry[t] # "missing"
    IN  /\ pc[p] = "look"
        /\ IF there /\ ~Managed(entry, t) /\ ~args[p].force THEN Refuse(p)
           ELSE Goto(p, IF args[p].dry_run THEN "path" ELSE "place") /\ UNCHANGED view
        /\ Same /\ UNCHANGED <<faults, World, entry, agent, launchd, box, users, raced, defaults>>

\* shim::replace_file: a new file renamed over the name, so a link is replaced and
\* what it points to stays.
Place(p) ==
    LET t == view[p].target
        after == IF cmd[p].op = "bootstrap" THEN "path" ELSE "ok"
    IN  /\ pc[p] = "place"
        /\ \/ /\ t \in HomeDirs /\ NoFault
              /\ entry' = [entry EXCEPT ![t] = "wrapper"]
              /\ defaults' = IF args[p].dir = None THEN defaults \union {t} ELSE defaults
              /\ Goto(p, after)
              /\ UNCHANGED view
           \/ /\ t \in SysDirs /\ NoFault /\ Refuse(p) /\ UNCHANGED <<entry, defaults>>
           \/ /\ Fault /\ Refuse(p) /\ UNCHANGED <<entry, defaults>>
        /\ Same /\ UNCHANGED <<World, agent, launchd, box, users, raced>>

\* bootstrap::path_check on what is there after installing, or planned_path_check
\* before: whether the gh found first on PATH is, or will be, a wrapper.
FirstGh == FirstIn(path, {d \in Places : Runs(entry, d)})
PathFine(p) ==
    LET t == view[p].target
        index(d) == CHOOSE i \in DOMAIN path : path[i] = d
    IN  IF args[p].dry_run
        THEN \/ FirstGh # None /\ Canonical(entry, FirstGh) = Canonical(entry, t) /\ Managed(entry, t)
             \/ t \in Listed(path) /\ (FirstGh = None \/ index(t) <= index(FirstGh))
        ELSE FirstGh # None /\ Managed(entry, FirstGh)

CheckPath(p) ==
    /\ pc[p] = "path"
    /\ view' = [view EXCEPT ![p].fixes = @ \union (IF PathFine(p) THEN {} ELSE {"current PATH"})]
    /\ Goto(p, "agent")
    /\ Same /\ UNCHANGED <<faults, World, entry, agent, launchd, box, users, raced, defaults>>

\* gui_path_action: on a Mac whose launchd PATH lacks a directory, the agent is
\* written; a failure ends the command, which has installed the wrapper by then.
WriteAgent(p) ==
    /\ pc[p] = "agent"
    /\ IF onMac /\ ~launchd /\ ~args[p].dry_run
       THEN \/ agent' = TRUE /\ Goto(p, "apply") /\ NoFault
            \/ UNCHANGED agent /\ Goto(p, "error") /\ Fault
       ELSE UNCHANGED agent /\ Goto(p, "finish") /\ NoFault
    /\ Same /\ UNCHANGED <<World, entry, launchd, view, box, users, raced, defaults>>

\* apply_gui_path: a launchctl that fails is a warning.  It runs after the checks;
\* nothing they read changes in between, so it is kept with the agent here.
ApplyAgent(p) ==
    /\ pc[p] = "apply"
    /\ \/ launchd' = TRUE /\ NoFault
       \/ UNCHANGED launchd /\ Fault
    /\ Goto(p, "finish")
    /\ Same /\ UNCHANGED <<World, entry, agent, view, box, users, raced, defaults>>

\* bootstrap::auth_check: no advice for what is left to gh or is GitHub's; else a
\* token for the host just allowlisted, or for the only one there is.
NeedsToken(p) == view[p].plan \notin {"leave", "not_resolved", "github_allowlisted"}
TokenFound(p) ==
    LET h == IF view[p].plan = "allowlist" THEN cmd[p].host
             ELSE IF Cardinality(view[p].hosts) = 1 THEN CHOOSE g \in view[p].hosts : TRUE
             ELSE None
    IN  h # None /\ StoredToken[h] # None

Finish(p) ==
    LET without == NeedsToken(p) /\ ~TokenFound(p)
    IN  /\ pc[p] = "finish"
        /\ view' = [view EXCEPT ![p].fixes = @ \union (IF without THEN {"auth"} ELSE {})]
        /\ Goto(p, IF view[p].fixes = {} /\ ~without THEN "ok" ELSE "error")
        /\ Same /\ UNCHANGED <<faults, World, entry, agent, launchd, box, users, raced, defaults>>

(***************************************************************************)
(* uninstall-shim                                                          *)
(***************************************************************************)

Rest == UNCHANGED <<World, agent, launchd, box, users, raced, defaults>>

\* Mutant: without --bin-dir only ~/.local/bin.
Gather_Local(p) ==
    /\ pc[p] = "gather"
    /\ view' = [view EXCEPT ![p].left = <<Local>>] /\ Goto(p, "sift")
    /\ Same /\ UNCHANGED <<faults, entry>> /\ Rest

\* With --bin-dir uninstall_shim: follows a link, so a link to a wrapper goes too.
\* Without, uninstall_default_shims: ~/.local/bin and the directories of PATH under
\* home, the places bootstrap chooses from.
Gather(p) ==
    LET d == args[p].dir
    IN  /\ pc[p] = "gather"
        /\ IF d = None
           THEN view' = [view EXCEPT ![p].left = <<Local>> \o path] /\ Goto(p, "sift")
           ELSE /\ view' = [view EXCEPT ![p].left = <<d>>]
                /\ Goto(p, IF ~Runs(entry, d) THEN "ok"
                           ELSE IF Managed(entry, d) THEN "unlink_shim" ELSE "error")
        /\ Same /\ UNCHANGED <<faults, entry>> /\ Rest

\* The next candidate: only a regular file under home that is ours.  With nothing removed,
\* what ~/.local/bin holds decides: nothing is fine, a link or a gh of the user's
\* is refused.
Sift(p) ==
    LET left == view[p].left
        mine == Head(left) \in HomeDirs /\ entry[Head(left)] = "wrapper"
    IN  /\ pc[p] = "sift"
        /\ IF left = <<>>
           THEN /\ UNCHANGED view
                /\ Goto(p, IF view[p].done \/ entry[Local] = "missing" THEN "ok"
                           ELSE IF entry[Local] = "wrapper" THEN "unlink_shim" ELSE "error")
           ELSE IF mine THEN UNCHANGED view /\ Goto(p, "unlink_shim")
           ELSE view' = [view EXCEPT ![p].left = Tail(left)] /\ UNCHANGED pc
        /\ Same /\ UNCHANGED <<faults, entry>> /\ Rest

\* remove_file, by name; that it is gone already is an error here.
UnlinkShim(p) ==
    LET left == view[p].left
        d == IF left = <<>> THEN Local ELSE Head(left)
        goOn == /\ view' = [view EXCEPT ![p].left = IF left = <<>> THEN left ELSE Tail(left),
                                         ![p].done = TRUE]
                /\ Goto(p, IF args[p].dir = None THEN "sift" ELSE "ok")
    IN  /\ pc[p] = "unlink_shim"
        /\ \/ /\ d \in HomeDirs /\ entry[d] # "missing" /\ NoFault
              /\ entry' = [entry EXCEPT ![d] = "missing"]
              /\ goOn
           \/ /\ (d \in SysDirs \/ entry[d] = "missing") /\ NoFault
              /\ Goto(p, "error") /\ UNCHANGED <<entry, view>>
           \/ Fault /\ Goto(p, "error") /\ UNCHANGED <<entry, view>>
        /\ Same /\ Rest

(***************************************************************************)
(* git_recorder: create and remove, in one directory                       *)
(***************************************************************************)

\* The directory, its `git` and its marker, each missing, the recorder's or the
\* user's, and whether anything else is in it.  The marker says whether the
\* recorder made the directory.
Box == [dir: BOOLEAN, git: {"missing", "recorder", "user"},
        marker: {"missing", "made", "found", "user"}, other: BOOLEAN]
NoBox == [dir |-> FALSE, git |-> "missing", marker |-> "missing", other |-> FALSE]
BoxOnly == UNCHANGED <<World, entry, agent, launchd, users, raced, defaults>>
Mine(b) == b.git = "recorder" /\ b.marker \in {"made", "found"}

\* create: make the directory if need be; a git or a marker of somebody else's is
\* refused.  remove: a missing directory is fine; both files must be the recorder's.
OpenBox(p) ==
    /\ pc[p] = "open"
    /\ IF cmd[p].op = "record"
       THEN /\ box' = [box EXCEPT !.dir = TRUE]
            /\ view' = [view EXCEPT ![p].done = ~box.dir]
            /\ Goto(p, IF box.git = "user" \/ box.marker = "user" THEN "error" ELSE "put_git")
       ELSE /\ view' = [view EXCEPT ![p].done = box.marker = "made"]
            /\ Goto(p, IF ~box.dir THEN "ok" ELSE IF Mine(box) THEN "drop_git" ELSE "error")
            /\ UNCHANGED box
    /\ Same /\ UNCHANGED faults /\ BoxOnly

\* create: the wrapper, then the marker, which keeps an older one's word for it
\* that the recorder made the directory.
PutGit(p) ==
    /\ pc[p] = "put_git"
    /\ \/ box.dir /\ box' = [box EXCEPT !.git = "recorder"] /\ Goto(p, "put_marker") /\ NoFault
       \/ ~box.dir /\ UNCHANGED box /\ Goto(p, "error") /\ NoFault
       \/ UNCHANGED box /\ Goto(p, "error") /\ Fault
    /\ UNCHANGED view /\ Same /\ BoxOnly

PutMarker(p) ==
    /\ pc[p] = "put_marker"
    /\ \/ /\ box.dir /\ NoFault /\ Goto(p, "ok")
          /\ box' = [box EXCEPT !.marker = IF view[p].done \/ @ = "made" THEN "made" ELSE "found"]
       \/ ~box.dir /\ UNCHANGED box /\ Goto(p, "error") /\ NoFault
       \/ UNCHANGED box /\ Goto(p, "error") /\ Fault
    /\ UNCHANGED view /\ Same /\ BoxOnly

\* remove_recorder_file, twice: each name is checked again just before it goes.
DropGit(p) ==
    /\ pc[p] = "drop_git"
    /\ \/ /\ box.git = "recorder" /\ NoFault
          /\ box' = [box EXCEPT !.git = "missing"] /\ Goto(p, "drop_marker")
       \/ box.git # "recorder" /\ NoFault /\ UNCHANGED box /\ Goto(p, "error")
       \/ Fault /\ UNCHANGED box /\ Goto(p, "error")
    /\ UNCHANGED view /\ Same /\ BoxOnly

DropMarker(p) ==
    /\ pc[p] = "drop_marker"
    /\ \/ /\ box.marker \in {"made", "found"} /\ NoFault
          /\ box' = [box EXCEPT !.marker = "missing"]
          /\ Goto(p, IF view[p].done THEN "drop_dir" ELSE "ok")
       \/ box.marker \notin {"made", "found"} /\ NoFault /\ UNCHANGED box /\ Goto(p, "error")
       \/ Fault /\ UNCHANGED box /\ Goto(p, "error")
    /\ UNCHANGED view /\ Same /\ BoxOnly

\* Mutant: the directory goes with what is in it.
DropDir_All(p) ==
    /\ pc[p] = "drop_dir"
    /\ box' = [box EXCEPT !.dir = FALSE, !.other = FALSE] /\ Goto(p, "ok")
    /\ UNCHANGED <<view, faults>> /\ Same /\ BoxOnly

\* rmdir: a directory with something in it stays, and that is fine.
DropDir(p) ==
    LET empty == box.git = "missing" /\ box.marker = "missing" /\ ~box.other
    IN  /\ pc[p] = "drop_dir"
        /\ \/ box.dir /\ empty /\ box' = [box EXCEPT !.dir = FALSE] /\ Goto(p, "ok") /\ NoFault
           \/ box.dir /\ ~empty /\ UNCHANGED box /\ Goto(p, "ok") /\ NoFault
           \/ UNCHANGED box /\ Goto(p, "error") /\ (IF box.dir THEN Fault ELSE NoFault)
        /\ UNCHANGED view /\ Same /\ BoxOnly

(***************************************************************************)
(* The user                                                                *)
(***************************************************************************)

\* He puts a gh of his own, or a link, somewhere he may write, or a git or
\* something else into the recorder's directory.
User ==
    /\ users < MaxUser /\ users' = users + 1
    /\ raced' = raced \union Running
    /\ \/ /\ \E d \in HomeDirs, f \in {"gh", Cellar} : entry' = [entry EXCEPT ![d] = f]
          /\ UNCHANGED box
       \/ /\ box.dir
          /\ box' \in {[box EXCEPT !.git = "user"], [box EXCEPT !.other = TRUE]}
          /\ UNCHANGED entry
    /\ UNCHANGED <<pc, faults, World, agent, launchd, view, defaults>> /\ Same

(***************************************************************************)
(* The specification                                                       *)
(***************************************************************************)

InitInstall ==
    /\ entry \in {e \in [Places -> Files \union Places] :
                    e[Cellar] = "gh" /\ \A d \in Places : e[d] # d}
    /\ path \in {s \in BoundedSeq(Dirs, Cardinality(Dirs)) : IsInjective(s)}
    /\ paths_gh \in {None} \union Places
    /\ agent \in BOOLEAN /\ launchd \in BOOLEAN
    /\ checkout \in Checkouts
    /\ args \in [Procs -> Options]
    /\ box \in {b \in Box : b.dir} \union {NoBox}
    /\ view = [p \in Procs |-> NoView]
    /\ users = 0 /\ raced = {} /\ defaults = {}

InstallStep(p) ==
    \/ BeginInstall(p) \/ Inspect(p) \/ LookAtTarget(p) \/ Place(p) \/ CheckPath(p)
    \/ WriteAgent(p) \/ ApplyAgent(p) \/ Finish(p)
    \/ Gather(p) \/ Sift(p) \/ UnlinkShim(p)
    \/ OpenBox(p) \/ PutGit(p) \/ PutMarker(p) \/ DropGit(p) \/ DropMarker(p) \/ DropDir(p)

GfjNext ==
    \/ \E p \in Procs : (Step(p) /\ UNCHANGED installs) \/ InstallStep(p)
    \/ User

GfjInit == Init /\ InitInstall
GfjSpec == GfjInit /\ [][GfjNext]_<<vars, installs>>

(***************************************************************************)
(* Properties                                                              *)
(***************************************************************************)

\* Every variable has its type.
InstallTypeOK ==
    /\ TypeOK
    /\ entry \in [Places -> Files \union Places] /\ Listed(path) \subseteq Dirs
    /\ paths_gh \in Places \union {None} /\ agent \in BOOLEAN /\ launchd \in BOOLEAN
    /\ checkout \in Checkouts /\ args \in [Procs -> Options] /\ box \in Box
    /\ users \in 0..MaxUser /\ raced \subseteq Procs /\ defaults \subseteq HomeDirs
    /\ \A p \in Procs : view[p].fixes \subseteq {"real gh", "repository", "shim", "current PATH", "auth"}

Undisturbed(p) == Alone(p) /\ p \notin raced

\* The gh that install-shim and bootstrap checked is the one the wrapper they put
\* in place then runs, and new enough: links that pass through the place, --force
\* and a configured gh do not come between (setup.rs find_real_gh_after_install:
\* "the gh the wrapper will delegate to once the shim is installed").  And a
\* bootstrap that finds nothing to fix leaves a setup that works: a wrapper first
\* on PATH, the checkout's forge allowed and with a token, GitHub still out.
WrapperWorks ==
    [][\A p \in Procs : Undisturbed(p) /\ pc[p] # pc'[p] =>
        /\ pc[p] = "place" /\ entry' # entry
             => WrapperFinds(entry') = view[p].gh /\ Supported(entry', view[p].gh)
        /\ pc'[p] = "ok" /\ cmd[p].op = "bootstrap" /\ ~args[p].dry_run
             => /\ FirstGh # None /\ Managed(entry, FirstGh) /\ Supported(entry, WrapperFinds(entry))
                /\ view[p].plan = "allowlist" => cmd[p].host \in Allowed /\ StoredToken[cmd[p].host] # None
                /\ Allowed # AllowedThen(p)
                     => Allowed \ AllowedThen(p) = {cmd[p].host} /\ cmd[p].host \notin checkout.yml
      ]_<<vars, installs>>

\* A plain uninstall-shim finds every wrapper a bootstrap without --bin-dir put
\* anywhere on this PATH (shim.rs uninstall_default_shims: "since `bootstrap`
\* installs into the first writable one of those"), and leaves links alone.
UninstallUndoes ==
    [][\A p \in Procs : cmd[p].op = "uninstall" /\ args[p].dir = None =>
        /\ Ends(p) /\ pc'[p] = "ok" /\ Undisturbed(p) => \A d \in defaults : entry'[d] # "wrapper"
        /\ pc[p] = "unlink_shim" /\ pc'[p] # pc[p] /\ p \notin raced
             => \A d \in Places : entry[d] \in Places => entry'[d] = entry[d]
      ]_<<vars, installs>>

\* What is the user's stays: a gh of his is overwritten only with --force and
\* removed never, a dry run touches nothing, his git and the directory he made
\* outlive the recorder, whichever commands run beside each other and wherever
\* they die.  What he puts there between a command's look and its rename is
\* beyond it; the recorder's removal looks again.
UserFilesStay ==
    [][users' = users =>
        /\ \A d \in Places : entry[d] \in {"gh", "old", "dispatcher"} /\ entry'[d] # entry[d]
             => \E p \in Procs : pc[p] \in {"place", "unlink_shim"} /\ pc'[p] # pc[p]
                   /\ (p \in raced \/ (pc[p] = "place" /\ args[p].force /\ ~args[p].dry_run))
        /\ box.git = "user" /\ box'.git # "user"
             => \E p \in raced : pc[p] = "put_git" /\ pc'[p] # pc[p]
        /\ box.other => box'.other /\ box'.dir
        /\ box.dir /\ ~box'.dir => \E p \in Procs : pc[p] = "drop_dir" /\ view[p].done
      ]_<<vars, installs>>
=============================================================================
