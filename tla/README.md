# Verification of gh-forgejo-shim

TLA+ models of the parts of gh-forgejo-shim whose correctness depends on the
order in which things happen, or on several parts reading the same thing the same
way; the TLC configurations that check them on small instances; and proofs,
checked by TLAPS, that the main properties hold for every value of the constants.

Paths below are relative to `src/crates/`. The map from every definition to the
lines it models is in `PROJECT.json`, and so are the hazards: what is hard to
test in this code, at the line where it bites, with the properties that would
catch it going wrong.

## 1. The system

`gh-forgejo-shim` (alias `gfj`) installs a wrapper named `gh` in front of the
real GitHub CLI. In a checkout of an allowlisted Forgejo host the wrapper
*launches* real gh against a gateway it starts for this one call, or answers the
call with its *built-in client*, or *steps aside* to real gh when the user has
logged gh in to that forge himself (server mode); anywhere else it *delegates*.
The gateway (`fga-core`, `fga-server`) answers GitHub's GraphQL and REST API from
Forgejo's; it also runs as a service beside a forge.

### 1.1 Components

| Component | State | Operations | Hard behaviour | What makes it correct | Module |
| --- | --- | --- | --- | --- | --- |
| Run directories (`gh-forgejo-shim/src/launcher/rundir.rs`) | directories `gfj-*` with token files, a locked and marked `lock` in each | sweep, create, write, remove, drop | launches of one user run at once, die at any system call, calls fail | a token is never where no later sweep finds it; a live launch loses nothing; the user's files stay | `RunDir` |
| Launched call (`launcher/run.rs`, `external.rs`) | handlers, signal flag, streams, gh's process, outcome | register, look logins up, check, spawn, forward, reap, clean up | signals at any step; a silent forge; a gh that never ends | nothing left behind; signals neither lost nor doubled; the exit status is gh's | `Launch` |
| Environment (`launcher/env.rs`, guards of `launcher.rs`, edits of `launcher/start.rs`) | the variables and the record `FJ_SHIM_ORIG_*`, `_SET_*`, `_SAVED`, `_LAUNCHER`, `_DEPTH` | apply, remove_unrecorded, revert, guards | wrappers, gh and scripts nest in any order, by spawn or exec; git appends to a variable | a nested wrapper routes with the user's environment; recursion ends | `EnvEdits` |
| Merging (`fga-core/src/graphql/mutations.rs`, `forgejo/writes.rs`) | a request's step, retries, memo; Forgejo's pull request | merge, auto-merge, cancel, read back | pushes and checks in between, several requests, an answer that comes too late | the head named is the head merged; a refusal or success told is true | `PullMerge` |
| Other mutations (same files) | as above | create, edit, comment, draft, close, delete branch | two writes of which one fails; read, then write | what is answered is what was done | `PullEdits` |
| Routing (`routing.rs`, `repo.rs`, `launcher/start.rs`, `ghconfig.rs`, `gateway.rs`, `upstream.rs`) | none of its own; reads the configuration, gh's hosts, the environment, the remotes | decide, launch, step aside, delegate, built-in; check a push | what is read twice may change; gh and the router must agree on the host; git and SSH rewrite it | a token reaches the forge it is for; gh never meets a forge unrouted | `Route`, `Pushes` |
| Words of a call (`invocation.rs`, `create.rs`, parts of `routing.rs`) | none | discover the command, parse, rewrite for the handler | three parsers of one grammar | one reading | `Words` |
| Request session (`fga-core/src/forgejo.rs`, `forgejo/cache.rs`, `forgejo/reads.rs`) | memo, byte budget, deadline, identity and page size caches | authenticate, get, page, write | concurrent resolvers, a write between reads, caches at their limits, lost replies | a read after a write sees it; the budget bounds the request; the request ends | `Session` |
| Gateway server (`fga-server/src/lib.rs`, `rest.rs`, `config.rs`) | the upstreams | choose by Host, authenticate, answer | a host that is not served; a placeholder token | only the addressed upstream gets the token | `Session`, `Route` |
| Actions runs (`fga-server/src/runs.rs`, `fga-core/src/actions.rs`) | none | list, page, name the workflow | lists that grow while they are paged | no run is missed, each has a name | `ActionsRuns` |
| Checks, reviews, pull requests (`fga-core/src/map*`, `graphql/pulls.rs`, `checks.rs`, `normalize.rs`) | none | map, roll up, judge | tokens that see a part of the rules, stale reviews, branches made again | the verdict is the one Forgejo would give | `Checks`, `PullView` |
| GraphQL reads and search (`fga-core/src/graphql/*`, `search.rs`) | none | threads, references, search, lists | objects put together from flat lists that change | a conversation is whole; a search means its terms | `Threads`, `Listing` |
| Token store (`auth.rs`, `auth_import.rs`) and allowlist (`config.rs`, parts of `cli.rs`) | auth.json, the Keychain, config.toml | login, import, logout, add-host, remove-host | no lock; two stores; kills between temporary file and rename; files read twice | others' entries stay; a command does what it says | `Stores` |
| Installation (`shim.rs`, `setup.rs`, `bootstrap.rs`, `gui_path.rs`, `gh_version.rs`) | the wrapper, the launch agent | install, uninstall, bootstrap | check, then replace or unlink by name; links | the user's own gh stays; the wrapper finds the gh that was checked | `Install` |
| Recorder and traces (`git_recorder.rs`, `trace.rs`, `trace_summary.rs`) | recorder directory, pipes, JSONL files | create, remove, run git, append, redact, load | pipes kept open by a grandchild; short writes; secrets in every spelling | git's behaviour is unchanged; records are whole; secrets are hidden | `Install`, `Trace`, `Redact` |
| Built-in client (`forgejo.rs`, `read_only.rs`, `create.rs`) | none | view, list, checks, create, comment, checkout | one request after another on things that change | the exit status is true; nothing is done twice | `BuiltIn` |
| Command line and diagnosis (`cli.rs`, `doctor.rs`) | none | prompts, reports | none | none beyond the stores they call | – |

### 1.2 Interactions

* A wrapper process runs the guards and `env::revert`, routes, and then launches,
  execs gh, or answers itself. What a child process sees of it is the
  environment only (**EnvEdits**).
* A launching process sweeps, registers signal handlers, creates its run
  directory, writes gh's configuration into it, serves the gateway on a socket
  there, spawns gh, forwards signals, reaps, removes (**Launch**, **RunDir**).
  Launches share nothing but the parent directories and the locks in them.
* gh calls the gateway, whose resolvers share a session (**Session**): they read
  through its memo and write past it (**PullEdits**, **PullMerge**). Two requests
  share the identity and page size caches, two gateways only Forgejo.
* `gfj auth` and `gfj config` change the files the next wrapper reads; bootstrap
  does both and installs (**Stores**, **Install**, and **Route**, whose files change
  between two readings).
* git's recorder stands between a caller and git; it and every call of the wrapper
  append to one trace (**Trace**), after taking the secrets out (**Redact**).

## 2. Modules

| Module | What it is |
| --- | --- |
| `RunDir` | run directories, launches, sweeps, crashes, failing calls |
| `TokenLease`, `RunDirLease` | what run directories promise about tokens; the refinement mapping from `RunDir` to it |
| `Launch` | one launched call and its signals |
| `EnvEdits` | the environment along a chain of processes |
| `PullMerge` | merge, auto-merge and cancellation against Forgejo |
| `Route` | one gh call: routing, launch or step-aside, and where gh then goes |
| `Pushes` | where git takes what a gh command pushes |
| `Words` | a call's words as the parser, the handler and gh read them |
| `Stores` | auth.json, the Keychain and config.toml under several commands |
| `Install` | wrapper, launch agent and recorder directory, beside the commands of `Stores`, which it extends |
| `Session` | what the resolvers of requests share: memo, budget, deadline, identity, page size |
| `PullEdits` | what each resolver asks and writes; extends `Session` |
| `Checks` | statuses, GitHub's checks, roll-ups and the merge gate, as operators |
| `BuiltIn` | the commands the shim answers itself; extends `Checks` |
| `PullView` | what gh is told of a pull request; extends `Checks` |
| `Threads`, `Listing`, `ActionsRuns` | conversations and closing references; search and lists; runs and workflows |
| `Trace` | the recorder's pipes and waits, the trace and its reading |
| `Redact` | what arguments and output look like in a trace |
| `MC*` | families of small worlds for TLC; some put modules that do not meet side by side in one run, each in its own states (`topic`, or a family of initial states) |
| `RunDirProofs`, `LaunchProofs`, `EnvEditsProofs`, `GatewayProofs`, `RouteProofs`, `InstallProofs`, `SessionProofs`, `BuiltInProofs` | the proofs: of the module named, and of `RunDirLease`, `Trace`, `Pushes`, `PullEdits` and `PullView` with `RunDir`, `EnvEdits`, `Route`, `Session` and `BuiltIn`; `GatewayProofs` is about `PullMerge`, `Threads`, `ActionsRuns` and `Listing` |

Some definitions are preceded by a *variant* (`SweepTryLock_Unasked`, `Join_Stdout`,
...): the same operation with a plausible mistake. Each property has one that
violates it; no specification uses one.

### 2.1 RunDir

`pc[p]` is where launch `p` is in `sweep_one`, `RunDir::create`, `run`,
`RunDir::remove`; `own`, `at`, `idx` are the locals of those functions. The file
system is `dirs`, `entries`, `flock` (by lock inode) and `marked` (inodes whose
content is exactly `MARKER`). A step is one system call: mkdir, create the
temporary lock, flock, write, rename; the files of `WRITES`; each unlink of
`NAMES`, in order; rmdir and close. `Crash` is SIGKILL, after which the kernel
drops the locks. `*Fails` are calls failing for any other reason than "not
found", with the early return the code has there. `LeaveForeignFile` puts a file
the launcher does not know into a directory. `Panic` writes the `panic` file.

Left out: a name is fresh (64 random bits), so it stands for one inode. A
sweep starts from every name; a name that has no directory when looked at is
skipped. The ownership and symlink checks of `sweep_one`, as every directory is the
user's. The choice among the three parents does not matter to any step.

### 2.2 Launch

`pc` follows `run` and `serve_gh`. Handlers and streams are installed one by one,
in the order of `SIGNALS`, so a signal may come between any two. `caught` is the
flag (the last signal wins, as in the code), `stream` the streams with an
unreceived delivery (several deliveries of one signal coalesce, as in tokio).
`Caller` signals the launcher alone, `Terminal` its whole foreground group and so
gh too, `Hangup` and `JobControl` change who is in the foreground. A launcher
that is pid 1 is not killed by a signal without a handler and exits `128 + s`
instead of dying. gh ends by itself, by a signal it was sent, or of SIGPIPE.

`rundir` is where its directory is: in use, removed, or what a removal that failed left,
unlocked, for a later sweep; the launch ends with the same result either way
(`run.rs:147`).

Left out: a failing call ends the launch with its exit code (1, or 126/127 for a
spawn). SIGKILL, and what a failed removal leaves in the directory, are RunDir's.

### 2.3 EnvEdits

The state is the environment of the newest process of a chain and what that
process is. `Apply`, `Reverted`, `Enter`, `Guard2` and `Guard3` are the functions of
`env.rs` and `launcher.rs`. Between wrappers, gh or a script may run
the wrapper again, by exec (same pid and parent) or spawn; a script may change a
variable on purpose, and git may append an entry to `GIT_CONFIG_PARAMETERS`.
`want` is the environment there would be had no launcher ever changed it.

Left out: pids are not reused; an exec that fails ends the chain; the
credential helper's own variable; an appended remainder is never
empty, because git appends an entry or nothing. A script that sets a variable to
exactly the value the launcher gave it is not modelled: the code cannot tell it
from leaving the variable alone.

### 2.4 PullMerge

Each GraphQL mutation of a pull request is a request with its own gateway
session; `phase` is its step, `memo` the memoized pull request, `retries` the second
try a moved base gets. `merge_pull`'s waiting for "try again later" is `TryAgain`
any number of times. Forgejo (external) handles what was sent at one moment,
possibly after the gateway gave up (`gone ...`), and its worker runs only after
a status, a review or a push, with the head of that moment; it may lose the schedule to a base
that moves (`docs/gateway/MAPPING.md:170-176`). What Forgejo checks and
answers is taken from the comments of `writes.rs` and `mutations.rs`.

Left out: the deadline (giving up is possible at any step); the
repository's allowed merge styles do not change during the run; an answer the
gateway cannot understand, a 2xx too, counts as lost: its sender is not told success,
but nothing says that he is told it may have happened.

### 2.5 Route and Pushes

`Route`'s state is one call's world (allowlist, the user's hosts.yml, `GH_HOST`,
`GH_REPO`, remotes), the call, and where it is. `Decision` is `decide_invocation_route`
as a function of these; `Decide` is `run_gh` up to the branch it takes. The actions at
`launch` read the files again, after an `Edit` perhaps: `LaunchAside`, `NotLaunched`
and `Launch` are the outcomes of `start::launch`, `LateAside` and `BuiltIn` those of the
rest of `run_gh`. `PlainGh`, `AsideGh` and `LaunchedGh` are requests of the gh
that then runs, with the `GH_HOST` and the hosts.yml it was given; `Answering` is the
gateway's `select_host` and `authenticate`. A call is abstracted to its kind, to whether
its command word comes first, and to where it names a host. gh is external. Where the
launch list or the grammar makes the parser and gh agree (`Precise`), gh takes its host
as `detect_repo` does; for any other call it may go to any host in its reach: one a word
names, its default, `GH_REPO`'s, a usable remote's. Whether the push checks refuse is a
field of the call.

Those checks are `Pushes`: a URL is the sequence of its parts, git's `insteadOf` and
`pushInsteadOf` rules rewrite its beginning, `ssh -G` its host. `PushGoesElsewhere` is
what the shim concludes from them, `Reached` where git really takes a URL. The two take a
remote for the forge's in different ways. The shim asks for the host of the fetch URL as
SSH sees it (`HostOf`); gh, as `repo.rs:753-758` and `:614-620` translate it
(`HostOfRemote`), asks SSH for the host without the user, and takes the last push URL
when the fetch URL names no host (`repo.rs:568-569`). `ReadAlike` says of a remote that the
two come to the same. `PushesStay` is about those remotes and the ones gh adds itself; what
happens to the others is in 3.2.

Left out: hosts are lowercase and have no aliases; remotes come in gh's order
(`go_sort`); the settings and the token of an entry are usable or not, at random;
nothing is said of calls from inside a launched gh (`helper_call`). Rewriting prefixes
end between two parts of a URL, no two of one kind are equal, a remote that is not
fetched from the forge has one push URL, and the configuration does not change between
the check and the push.

### 2.6 Words

A word is a long flag, a cluster of short ones, `--` or anything else. `Discover` and
`Parse` are `invocation.rs`'s, with the grammar of the commands the shim answers
(`contract/tiers.toml`); `HandlerArgv` is what the handler is then given, and `Handler`
how it reads that; `CobraCommands` and the operators after it are how gh's library reads
the words. The run types a call word by word. Left out: aliases and extensions; values of
`--json` are one valid list, clusters have at most two letters, and no argument after
`--` begins with a dash. Of calls with a boolean flag before the last word of the command,
which gh reads otherwise, only the routing of `route_aside` speaks.

### 2.7 Stores and Install

A command is a process; a step is one call another command may come before or after:
`Obtain` the token, `Load` and `Reread` config.toml (add_host reads it twice), `Replace` it, `Save` and
`Forget` in the Keychain, `Write` the temporary file beside auth.json and `Publish` it, `Erase`, `Unlink`. Calls may
fail, commands may be killed; files may be missing, malformed or unreadable at the
start. `before` remembers what there was when a command began, `overlapped` those that
another ran beside, of which `DoesWhatItSays` says nothing: without a lock the last
writer wins, and the first of two logins at once may lose its own token.

`Install` adds the places of PATH, each with a file or a link, and the commands that look
at them: `Inspect` and `LookAtTarget` before `Place`, bootstrap's further steps (path,
launch agent, login), `Gather` and `Sift` before the uninstall's unlinks, and the
recorder's directory with its marker. A logout whose Keychain refuses to delete goes on and
says it is done, as in the code. `Chain` has the places a chain of links passes through, which may be a
loop. The user may change a place at any moment. Left
out: bootstrap's `origin_checks`, tokens from the environment and `FJ_SHIM_HOSTS`, two names of one
directory, directories that do not exist; gh versions are old or new, and
`FJ_SHIM_ALLOW_UNKNOWN_GH` (`gh_version.rs:26`, `:83`), by which a user has a version
accepted that is neither, is not set.

### 2.8 Session and PullEdits

A *request* is one HTTP request of gh, a *field* a resolver of it. `Authenticate`,
`Identify` and `Identified` fill the identity cache, with its time to live, eviction and
late replies; `Ask` joins or makes a cell of the memo; `Handle` is Forgejo acting on a
call at one moment, perhaps after nobody waits any more; `Receive` or `Break` settles
the cell for all who wait; a write forgets all cells; `Tick` is time, which
ends a request at its deadline. `PullEdits` is a table: which call a resolver makes at each step
and what it makes of the reply. A document's mutations run one after another (`after`),
a query's resolvers at once. Lists are paged by the forge's own page size, which is
cached for ten minutes. A title is its draft prefixes and a text.

Left out: a forge that sends no links, or hides its settings, has a page of at least
`PAGE_SIZE`; a page size the forge lowers is stale for those ten minutes. What an
unparseable 2xx says of a write counts as lost, as in `PullMerge`.

A reply has a size and comes in parts. Each is charged to the budget of the request, which
its resolvers share, unless the reply grows past `MAX_RESPONSE` or the part past what is
left; then the reply is refused, and what it has drawn so far stays drawn
(`forgejo.rs:294-309`). An identity's reply is one part, and so is one refused by the
length it declares.

### 2.9 Checks, BuiltIn and PullView

`Checks` has the projections of a commit's statuses as operators: GraphQL's roll-up,
REST's check runs and combined status, `pr checks`' rows, the built-in roll-up, and the
merge gate. `VerdictsAgree` is their agreement in every state of a run.

`BuiltIn` takes a command through its requests: `pc` is the next request, at the end
the exit status. It starts with any call the parser can make, any repository and any checkout;
`MCBuiltIn` picks those of the run. Between any two steps others post statuses, open and close pull
requests, push, and rename or delete labels; a request may be refused or
its reply lost; servers may not page at all. As in the code, the
roll-up shown in lists reads the first page of the statuses only, and a checkout fetches
by the branch's name before it falls back on the pull request's ref.

A label has an id and a name. One asked for by a number is sent as an id and never
looked up (`read_only.rs:2154`, `:2170`), be a label of that name there or not; the others are
looked up, and may have another name or be gone when the issue is made. Of ids the
repository does not have, Forgejo (external) makes an issue without them or refuses.

Another shell in the checkout fetches, which replaces the `FETCH_HEAD` the two share, makes, moves
and deletes branches, and commits to the one checked out. `got.fetched` is
what the command itself fetched: with a fork's pull request that may be the branch of
the same name at origin, as the code asks for the name first (`read_only.rs:806`). A
`git checkout` of a branch deleted since it was found makes it again from a remote's.

Left out: the filters of `issue list` (the code drops `--assignee @me`), labels beyond
the first page the lookup reads, and another shell that switches branches meanwhile.

`PullView` keeps, beside each list Forgejo serves, what really happened: reviews and the
latest word of each official reviewer, statuses and the newest state of each context,
the timeline and the schedule, the branch and its name, and whether Forgejo holds the merge
for a reason no read of the gateway's shows (`pull.held`: unsigned commits, an open dependency, a hook;
`writes.rs:24`, `:59-60`). The order of reviews plays no part
in what the code derives from them, so they are a set. Its operators are `map::pulls` and
`graphql::pulls`. A document's reads happen at one moment. Official
reviews are modelled as the code's comments describe them; a pull request whose branch is
gone does not merge cleanly. A compare the server lacks is not behind
(`forgejo.rs:617`), and so an outdated head may be called clean. `Drop` is Forgejo's worker deleting a
schedule before a merge that then fails: no event says so
(`docs/gateway/MAPPING.md:170-191`, F16), and a cancel that finds none leaves none, so gh is told of that schedule until another
is made and cancelled or the pull request ends. Left out: `viewer_can_update`, `_close` and `_reopen`,
`latest_reviews`, the counts, the order of commits, an administrator's exemption.

### 2.10 Threads, Listing and ActionsRuns

`Threads`: people comment, reply, review, resolve and push, and `ReviewThreads` makes conversations of
the flat comments; keywords come and go in texts, and `ClosingPulls` reads the timeline.
`Listing`: a search is a sequence of terms; Forgejo filters by some in two reads,
between which an item may change, the gateway by the rest. `ActionsRuns`: gh follows `next` links
while runs start; a run's workflow is looked up on the default branch, then in the run's own
commit.

A conversation is placed by the file, the line and the review Forgejo keeps with its comments.
A thread's current `line` is left out: the code gives it while the head is the commit of the thread's
review, and Forgejo sets the commit of a pending review to the head when it is submitted, so an old line may
read as current (`docs/gateway/MAPPING.md:225-236`). Nothing is said of it. A search's or a list's `head` is a branch,
or an owner and a branch (`Split`), and the gateway filters by it after Forgejo's own
filters. While gh walks the runs, new ones start, but none changes its status or is deleted:
a run that a filter on the status passes over for that reason is beyond `RunsListed`.

Left out besides: cursors, jobs and artifacts, the pages of the workflow list and links
backwards; the hash of a file name that serves as a workflow's number is taken for
injective.

### 2.11 Trace and Redact

`Trace`: git and perhaps a process it leaves behind write to two pipes; a forwarder per
stream copies and counts; the recorder waits for git, then for both, and appends its
record in one write, which may come out short; `Loaded` is `load_trace`. An
interrupted write that is tried again is a stutter. Left out: the recorder's own death,
a `wait` that fails.

`Redact`: a text is a sequence of words and marks. `RedactText` is `redact_text_with`,
pass by pass; `GhArgument` and `GitArgument` are the two `redact_argv`. Words are told apart only by what the
code makes of them, so how a key is spelled is left out, and so are the excerpts' cut and malformed
texts. The inputs are the forms the repository's `README.md:246` and the comments of `trace.rs` name; the
documents do not claim every form. What follows the closing bracket of a value spread
over lines is not among them (outside JSON it stays), nor is such a value that begins on
a line another secret has already hidden.

## 3. Runs

| Run | Bounds | Distinct states |
| --- | --- | --- |
| `rundir` | 3 launches of one name; 2 kills or failing calls in all, or a foreign file | 369,669 |
| `launch` | 3 signals, 1 change of foreground, 1 failing call, 1 login | 815,984 |
| `env_edits` | chains of depth 3 and 8 pids with 2 changes; 3 traced calls, 3 chunks, pipes of 1, 2 short writes; texts of 2 pieces, up to 3 groups of arguments | 2,409,441 |
| `route` | 4 hosts (one with a port, one GitHub), 5 allowlists, 7 hosts.yml files, 6 checkouts, 49 calls, 1 change of files; each small configuration of git and SSH; 2 merging requests, 2 styles of which 1 allowed, 1 push | 4,244,865 |
| `gfj` | 2 commands, 3 hosts, 3 directories of PATH, 1 failing call, 1 kill, 1 change by the user | 6,458,292 |
| `gateway` | 3 requests, 3 resolvers, 2 tokens, cache of 1, pages of 2, 1 deadline, 1 lost reply, 1 change; two replies of up to 3 parts, a cap of 2 | 928,220 |
| `built_in` | 2 pull requests, 3 commits, 2 contexts, up to 4 pages of 1, 2 changes; labels by name and by id; calls of up to 3 words after the command | 4,049,681 |
| `reads` | 2 people, 2 contexts, 5 events (3 for a verdict, 4 for a schedule); 4 posts; searches of up to 2 terms after the type; 4 runs and 2 that start | 1,372,890 |
| `route_aside`, `route_push`, `gfj_keychain`, `built_in_status` | as the runs they are named after | violated, see 3.2 |

Every run has `CHECK_DEADLOCK FALSE`: launches, gh, requests and commands end, and
then nothing is left to do.

### 3.1 What the properties say

* `rundir`. `DirectoriesSafe`: no token file without `lock` beside it, in every state,
  crashes and failing calls included; a launch between naming its lock and leaving
  still has all it wrote; an owner and a sweep, or two sweeps, never take one
  directory apart together; the error "a fresh lock file was already locked" is
  unreachable. `ImplementsLease`: refinement of `TokenLease`. `OrphanSwept`: a sweep that
  has yet to look at a dead launch's directory takes its tokens away, unless more
  fails. `LaunchProgress`: every sweep ends, whoever holds a lock, and a launch gets to gh or
  to its end.
* `launch`. `CleansUp`: no end of the launch leaves its run directory as it was; it is removed, or
  a removal that failed has let go of its lock. `SignalsHonoured`: early signals keep gh from starting, late
  ones change no exit status, and none is delivered twice (while the foreground group
  does not change; when it does, the terminal may have delivered a signal the
  launcher then forwards, which the code cannot know). `SignalReaches`: no caught
  signal is lost to gh. `LaunchEnds`.
* `env_edits`. `NestedSound`: a nested wrapper routes in the user's own environment, the
  chain is bounded, and guard 2 refuses exactly the wrapper started as gh.
  `GitUnchanged`: through the recorder, streams are whole and in order, the code is git's, and the record
  says so. `TraceWhole`: a cut record spoils at most itself and the one that follows on
  its line. `SecretsHidden`: no secret in a documented form comes into a trace, and what is
  to stay readable does.
* `route`. `RightHost`: off the delegate list plain gh never asks a served forge
  anything, whichever host in its reach it picks; a stepped-aside gh stays on the
  forge routing chose, whatever changed since; a launched gh is answered by the routed
  forge and no other, and refused only if the files changed; the gateway starts. (A
  host-less `auth status` shows all the user's hosts by design and is left out.)
  `PushesStay`: a push that is let through ends on the forge, if it is to a remote that gh reads as
  the shim does or one that gh adds.
* `route`, of merges. `MergesAsAsked`: a merge that named a head merges that head, be it
  retried or overtaken by a push, and the worker never drops a schedule for its style.
  `RefusedDidNothing`: who was told "refused" has neither merged nor
  scheduled, and will not. `SuccessIsTrue`: who was told "merged" merged and sees it; a
  cancelled schedule is gone.
* `gfj`. `BystandersKept`: a host no command names keeps token and entry, whatever the
  commands do to one another. `DoesWhatItSays`: a command alone does what it says and
  nothing else, wherever it fails or dies. `WrapperWorks`: the gh that was checked is the one the
  wrapper runs; a bootstrap with nothing to fix leaves a setup that works.
  `UninstallUndoes`, `UserFilesStay`.
* `gateway`. `ReadsSound`: resolvers that read one thing are told the same, after a write
  none is told what was before, the budget is not overdrawn, and a reply refused for its size is past the
  cap, or what was still to come of it past what was left.
  `IdentityFresh`: a request acts as a user its token named at most TTL and one call
  before. `EditsHonest`: an answer says what was done, and a write follows from what was read.
  `ListsWhole`: a list, or a window of runs, is that list. `RequestEnds`: every resolver is answered,
  though the forge never answer.
* `built_in`. `WritesOnce` (one write, to what was asked for; an issue has the labels asked for by id,
  and those that had the names asked for when looked up, except the ones that are gone), `ChecksTruthful` (exit status 0 or 8 only if each check there was when the
  command began is counted, as it was then or as it was posted later, and none so counted has
  failed; with 0 none is pending, with 8 one is that nothing had followed), `VerdictsAgree`, `OneReading`, `CheckoutKeeps` (no
  branch there was moves unless `--force` names it; a checkout that succeeds ends where it was asked to be, at
  what it fetched unless another shell fetched since or the branch was there).
* `reads`. `VerdictTruthful`: a pull request said to be clean or unstable Forgejo would merge,
  whoever asks, but for what holds it unseen and for a head whose compare is missing; one said blocked or behind it would refuse for that reason.
  `HeadNeverMistaken`: gh is led to fetch or delete a branch by name only while that name is the
  pull request's. `AutoMergeOffered`: a schedule there is is shown, with its maker, one never made or cancelled is not
  (one dropped unannounced still is), and what is offered Forgejo would allow. `ThreadsWhole`: each
  conversation once, whole and in order, on its side of the diff. `SearchMeansIt`: what is found met every term, `head:`
  included, and what met them throughout is found. `ClosesOnMerge`, `RunsListed`, `RunsNamed`.

### 3.2 Where the code and its documents differ

* `route_aside`: `docs/release-notes.md:134` says a call naming another host never
  steps aside, as does `routing.rs:905`. The word check is skipped for `api` and `auth`,
  whose words are data, but also when a flag comes before the word, so that the command
  gh runs may be another one: in a checkout of forge-a, with gh logged in to both forges,
  `gh --homepage api repo create forge-b/o/r --private` steps aside for forge-a and
  goes to forge-b.
* `route_push`: `repo.rs:638` says of `push_leaves` that it is "`None` when every push to the forge
  stays there". It passes over a remote it does not take for the forge's, and takes
  one by its fetch URL, with the SSH user in it. gh resolves the host without the user and may take
  the push URL instead (`repo.rs:753-758`, `:568-569`, `:664`). Where SSH's configuration
  gives a host another name for one user (`Match user`), or a fetch URL names no host, gh takes for the forge's a remote
  whose pushes were never looked at, and they may leave the forge.
* `gfj_keychain`: `docs/configuration.md:155` says that after a login "routed `gh` commands
  can use the saved token immediately". When the Keychain refuses the write, the token goes
  to auth.json (`auth.rs:158`), while reads ask the Keychain first: where it holds an
  older token, that one is used.
* `built_in_status`: `README.md` says `pr status` returns a null `currentBranch` when the branch
  has no open pull request. It returns null as well when the pull request is beyond the
  first page of the open ones (`forgejo.rs:530`).

Three more, of comments, without a run of their own: `launcher/run.rs:101` says the
panic redirection is dropped before the run directory on every path, while the normal
path removes the directory first (`:147`); `run.rs:211` says a forge that is down must not
hold off Ctrl-C, while a Ctrl-C between the flag handlers and the streams is looked at
after the lookups (`:229`); `graphql/mutations.rs:488` says an auto-merge is scheduled only
after a refusal a status, a review or a push can lift, while one because Forgejo is still
checking for conflicts is scheduled too (`:499`).

### 3.3 Why the bounds are enough

* Three launches of one name are every pair of owner and sweeper, sweeper and sweeper, and
  a third that can die while another sweeps what the first left. Two kills or failing
  calls put a failure into the removal of what a failure left. Names do not
  interact: a second would only repeat the first. The proofs have no bounds.
* Three signals are one before the streams, one during gh and one during the
  cleanup, or three of one kind. One change of the foreground is the case both
  before and after a signal.
* Depth 3 with 8 processes has launch, step aside and delegation each below
  another. Any single chain is longer in the proofs. Three traced calls are one whose record is cut,
  one that continues its line, and one that must be read again.
* Two pieces of text are a secret and what follows it on the same line or the next; redaction
  looks no further than the end of a value.
* Two merging requests meet in every way two can, on one push; a third would only repeat
  one of the two.
* Routing compares hosts only for being equal, having one name, and being GitHub: two names,
  one of them also with a port, and GitHub are every case of three. Two remotes are one that
  is taken and one that is passed over.
* Two commands interleave their reads and writes in every way; three hosts are the two
  they name and a bystander. Three directories of PATH are one before, at and after the
  wrapper's, and with the package manager's place links of length two.
* A reply of two parts and one of three, with a cap of two parts and two or three left for
  both, are: both fit, either alone would, one is past the cap, and one is cut off after a part was charged.
* Two resolvers that share a cell and a third that fails are the cases of the memo; three
  requests with two tokens overfill a cache of one and come back. Lists of up to three
  items have pages that are full, short, and cut at the last page.
* Pages of one status make every status a page of its own; one more posted between two
  pages shifts all that follow. A call's flags interact in pairs (a flag and what might be its
  value), and three words have a pair and a neighbour.
* Five events are a review, a push, another review, a status and an edit; the verdict's part needs
  three, since its rules take two facts and one change. Four posts are two conversations with a
  reply each.

Five properties are conjunctions whose parts have names and theorems of their own:
`DirectoriesSafe`, `SignalsHonoured`, `NestedSound`, `MergesAsAsked` and `RightHost`.

## 4. Fairness

* `rundir`: weak fairness of each launch's own steps. A living process is
  scheduled, its system calls return (`try_lock` does not wait). Nothing is said of gh's
  exit, failures, kills or foreign files.
* `launch`: weak fairness of the launcher's next step. The lookups have a
  time limit in the code (`LOGIN_BUDGET`), so one of them ending is a step of the launcher.
  Nothing is assumed of gh, which may run for ever, nor of callers and terminals.
* `gateway`: weak fairness of the clock, on which the deadline rests, and of each resolver's own
  steps, which the runtime polls when they are ready. The forge owes nothing: it may
  never answer.
* The other runs have safety properties only.

## 5. Proofs

All for every value of the constants that satisfies the modules' named assumptions
(`RunDirAssumption`, `LaunchAssumption`, `EnvAssumption`, `TraceAssumption`, `MergeAssumption`,
`RouteAssumption`, `PushesAssumption`, `StoresAssumption`, `InstallAssumption`, `SessionAssumption`, `ChecksAssumption`,
`BuiltInAssumption`, `PullViewAssumption`, `ThreadsAssumption`, `RunsAssumption`, `ListAssumption`), which say that bounds
and sizes are natural numbers, kinds are disjoint, null values are not ordinary ones and the ids of labels are
some of the words a label may be asked for by. `ListAssumption` adds that a
search is a sequence of terms and a list shows finitely many states. `RunsInit` starts from any host that
is `Hosted`: a sequence of runs of files at commits it has, each with a tree over the directories Forgejo looks in.

* **RunDirProofs.** `IInv` adds to the type: who holds which lock (`LockInv`), a directory
  has one owner (`OwnInv`), nobody can look into a directory before its lock file has its
  name (`FreshInv`), and a removal has removed the tokens before it gets to `lock`
  (`RemovalInv`). That a token has a lock beside it is not inductive alone: a removal at
  `lock` needs the last; that a live launch is not swept needs the first two, since a sweep
  that holds a lock and an owner that holds it would otherwise both be possible. From
  `Invariance`: `TypeCorrect`, `TokensFindable`, `LiveKept`, `Exclusive`, `FreshLock`,
  together `Safe`; and `PlantedSafe`, an action property: directories of the user's lose
  nothing, as only a marked lock condemns a directory and none of his is marked.
  `Implements`: every step of a launch, crash or failure is a step of
  `TokenLease` or a stutter, under the mapping of `RunDirLease`; one lemma per kind of step.
* **LaunchProofs.** `IInv`: handlers before the directory, streams after it
  (`HandlersFirst`); until the last check the flag holds a caught signal and only
  caught signals are in the streams (`Flagged`); the outcome decided is what the result will be
  (`Decided`); a pending interrupt and those delivered are no more than those
  sent (`OncePending`). Gives `TypeCorrect`, `CleanedUp`, and `Aborted`, `StandsIn`,
  `OneInterrupt`, together `Honoured`.
* **EnvEditsProofs.** The invariant `Recoverable`: at every moment reverting would
  yield what the user wants. It needs `Recorded` (only saved names have a record, and
  what a launch set `GIT_CONFIG_PARAMETERS` to ends in an entry of its own, so the
  user's value never extends it by chance), and `Parented` and `Counted` for the guards.
  Gives `TypeCorrect`, `NothingRecorded`, and `RoutesAsTheUser`, `BoundedDepth`,
  `NeverItsOwnGh`, together `Sound`.
  Of `Trace`: `FlowOK`: what was written is what the forwarder counted and what is still in
  the pipe, in order, and who still reads has got all that was counted; `OrderOK`: a forwarder ends only when
  nobody can write any more, and the recorder appends only when both have ended; `FileOK`: a record
  has the counts of that moment; `OnePiece`: a call appends once. Gives `TraceTypeCorrect`, `RecorderTrue`,
  and `TraceReads`, as every bad line begins with a record that was cut off.
* **GatewayProofs.** Of `PullMerge`, `MergeInv`: what is being scheduled names no head and has an allowed
  style (`AskedRight`); Forgejo answers what was sent once (`SentOnce`); a request
  that Forgejo has not answered with success has neither merged nor scheduled (`Clean`).
  Gives `TypeCorrect`, `RefusalIsTrue`, and `MergesTheHead`, `NeverDropped`, together
  `DoneAsAsked`. `SuccessHonest` needs `SInv`, which follows a schedule through the requests that
  find and cancel it: a request whose schedule is there, or was found by a cancellation, has nothing
  left to send (`Spent`), so that what was cancelled does not come back; a request takes its own
  steps and reads back after it forgot what it had read (`OnTrack`); and once Forgejo has done it,
  it stays done (`DoneFor`).
  Of `Threads`, two invariants. `ReferInv`: ids are given out once (`OwnIds`), a text's keywords are in the
  order written (`InOrder`), and they are the deciding events of its pull request, one for one (`Mirrors`);
  so the newest event is the last keyword, and `ClosesWhatItShows`. `TalkInv`: a conversation Forgejo keeps
  is the ids of the comments with one review, place and line (`Held`: replies carry all three, so a reply
  joins the class of what it answers), it is resolved exactly when its first comment says by whom, and a comment's review is
  one that lists (`Posted`). That the threads come out in order needs that a finite set has an
  order by keys that differ (`OrderExists`, by the least size that had none), which makes `Ordered` a sorted sequence of all
  of them. Gives `TalksWholly`.
  Of `ActionsRuns`, `HostInv`: the host keeps its shape. `NamesARun` is then about the operators: the
  directory of the workflows is the first with any, and a run's workflow is the listed one of its id, since two listed with one
  id are the same.
  `ListsEveryRun` needs `WalkInv`: the runs that matched at the beginning are still the last of those
  that match, behind the ones that started since (`Behind`); what has been read, answered or not, continues the forge's
  pages without a gap (`Paged`), as a page of the forge's begins where the last one ended; and each of the runs there at the beginning
  that must have been passed by now has a place of its own in what was read, no later than where it is (`Placed`): a run that
  starts pushes the others on, so the walk can see a run twice but cannot step over it. So each is listed at least as often as
  it is there, by an injection. That the matching runs are a recursive function's value is shown by the least length at which it would not be.
  Of `Listing`, `ListInv`: the query is the reading of all the terms, what the first read left is what fits
  the pull requests' filters as they were then, and the second read keeps of it what fits the rest. `TermDoes` says
  what one term does to a query it leaves acceptable, `TermHeld` that it loses no term read before, and
  `ReadFaithful` carries both along any number of terms: an acceptable query holds each term and nothing no term said. Gives
  `SearchesAsAsked`.
* **RouteProofs.** First what the decision's parts give: a host that is served has the
  name of the entry serving it, the default host is a host, the remote taken is one of the
  usable ones. From them `ReachesNone` (nothing in reach names a forge, so gh reaches none),
  `StaysOnForge` (with `GH_HOST` the forge, every way gh finds a host leads there) and
  `LaunchReach` (with the files as routing read them, gh asks for hosts the routed
  entry serves). `IInv` adds to the properties that until the files change the route is
  routing's decision on them (`Decided`), that what the call names agrees with the
  route even after they change (`Agrees`), and how the call came where it is (`CameHere`). Gives
  `TypeCorrect`, `PlainGhStaysAway`, `AsideGhStays`, `LaunchedGhStays`, `GatewayStarts`,
  together `GhGoesWhereRouted`. `PushesStayOnForge`, of `Pushes`: any configuration of git, SSH
  and gh is a state, so the proof is of the operators. A URL is a sequence of names and marks; what git makes
  of it with the longest `insteadOf` prefix is read by the shim and by git as having one host,
  and a remote read alike that gh takes is one the shim has taken, so that the URLs of every push
  it speaks of have been looked at. It is assumed that no name
  is a mark.
* **InstallProofs.** About `Install` over `Stores`: any home, PATH, checkout and mix of commands. A link's
  chain is the least set of places closed under following, so what a chain reaches is
  proved of that set: it has one end at most (`OneEnd`), what passes through a place reaches what that place
  reaches (`ReachesThrough`), and a wrapper put at a place ends the chains through it and no others
  (`WrapperAt`). From these `WrapperFindsChecked`: what setup finds while passing over the place is what
  the wrapper finds once it is there. `IInv` says of each command where it may be
  (`OrderOK`), and how what it read some steps ago bears on the files as they are. `StoresOK`: a copy about to be published agrees
  with the file on the hosts nobody names, since no step changes those
  (`Steady`); a bootstrap names a host only once it has looked. `HomeOK`: what is about to be replaced or removed is not the user's,
  as only he makes a file his. `UndisturbedOK`, of a command nobody disturbs, which `Solo` makes one that
  runs alone: the gh it checked is still the one (`ShimOK`), wrappers an uninstall has
  not come to are in its list (`SiftOK`), and the stores are as it found them but for what it has done so far
  (`ProgressOK`). Gives `TypeCorrect`, `OthersKept`, and the action properties `FilesStay`, `UninstallFinds`,
  `ChecksWhatRuns` and `SaysWhatItDoes`.
* **SessionProofs.** About `PullEdits` over `Session`, from any documents and repository. The only
  condition is `Document`, as the executor has it: of two mutations of one document one follows the other.
  `IInv`: whoever reads holds the cell of what he reads (`Holds`), a mutation at work is alone
  (`InTurn`), what a resolver was told since the request's last write is still in its
  cell (`Told`), a cell or a reply on its way is no older than that write (`Filled`, `Replied`), what
  is drawn and what is left make the budget (`Spent`), and a reply that was refused is still too large, for the cap or for
  what is left, as nothing is given back (`Weighed`). `ReadsTrue` follows. For
  `IdentityTrue`: an identity asked for on a deadline was true at most one such time ago, and a cached one
  when it was put there (`Identities`). `CacheBounded`: making room empties a place whenever the
  cache is full, by well-founded choice of the oldest, so it never holds more than its
  capacity. For `EditsHonest`: `HonestInv`, on top of `IInv`. A creation or a comment leaves what it
  is to leave exactly when its reply says so, and whether it did is open only while the reply is lost or
  unread (`Leaves`); "not found" is Forgejo's word (`Looks`); a mutation was told what is in its
  cell (`Fetched`), and as mutations of a request are at work alone that cell and what was seen last until
  the edit is sent (`Rests`). The property speaks of the base the request itself has read: two requests may
  move one pull request's base at once, and then the forge's is neither's business. `MCGateway` starts
  some requests midway, to fit: those states satisfy `IInv` and `HonestInv`.
* **BuiltInProofs.** `IInv`: requests are made with a token of a call that could be read (`Asked`),
  nothing is written before a command's last step (`Unwritten`), the pull request is the one asked for
  (`PullKnown`), each step is reached with what it needs (`Ready`), and the statuses there were at
  first are read or on pages still to come (`Gathered`): a status posted between two pages shifts the rest
  towards later pages and never out of reach. Gives `BuiltInTypeCorrect`, `WrittenOnce`,
  `ChecksTrue` and, as an action property, `CheckoutsKeep`. `ProjectionsAgree` is about the operators
  of `Checks` on any list of statuses and any protection; the newest status of a context exists as
  the naturals are well-founded.
  Of `PullView`, from `ViewInv`: a branch is at the pull request's own ref, ahead of it or gone,
  and a commit made later is never one seen before (`Ahead`); each official reviewer's
  latest word is his one review that counts, stale exactly when it is about another commit
  than the ref's (`Spoken`), so that the approvals the code counts are as many as
  the reviewers who approve, by a bijection; the newest status of a context is its state (`Reported`); until the merge the newest event of
  a schedule is of the one last made and not cancelled, whether or not Forgejo still has it (`Planned`). The rule the code picks is the one
  Forgejo applies (`SameRule`), and the part a lesser token sees refuses no more than the whole.
  Gives `ViewInvariance`, `VerdictsTrue`, `HeadsTrue` and `OffersTrue`, for any lists of rules.

Only model-checked:

* all liveness (fairness and ENABLED are beyond the prover);
* `OneReading`: `Words` reads a call with recursive operators, which the prover does not take; `SecretsHidden`:
  `Redact` folds over the text, and a fold for every input is an induction over data;
* `ListsWhole`: what the pages of a list come to.

## 6. Plan

1. The credential helper (`launcher/credentials.rs`) and calls from inside a launched gh, in `Route`.
2. Proofs: `ListsWhole`, by a bound on how far a list that grows shifts between two pages.
3. A session that implements an atomic snapshot per epoch, as an abstract specification of
   `Session`.
4. Cursors of connections over lists that change; jobs and artifacts of Actions.
5. Composition of `PullEdits` and `PullMerge` on one pull request.

## 7. Not modelled

* The credential helper and the browser helper (`launcher/credentials.rs`, `browser.rs`); `doctor`;
  `gfj`'s own arguments, prompts and reports; the summary's counts and the smoke probes.
* Parsing of TOML, YAML, JSON and remotes; settings of the configuration other than the allowlist;
  field by field translation of Forgejo's answers; jq, templates, tables and the layout of output.
  These keep no state between calls, and a mistake in them is one an ordinary test finds.
* HTTP, TLS and tokio themselves; Windows.
* Tests, fixtures, contract cases, scripts and packaging, which are not part of the program.
