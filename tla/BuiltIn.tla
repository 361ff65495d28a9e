------------------------------ MODULE BuiltIn ------------------------------
(***************************************************************************)
(* A command the shim answers itself (read_only.rs, its Forgejo client and *)
(* git): one request after another, with a repository that others change   *)
(* in between, and a checkout in which somebody else works too.  Forgejo   *)
(* handles a request at one moment; it may refuse it, or its reply may be  *)
(* lost.  `call` is what the parser made of the words.                     *)
(***************************************************************************)
EXTENDS Checks

CONSTANTS
    Branches, Shas,
    Labels, Ids,   \* how a label may be given; the numbers among these are ids
    PAGE,          \* how many pull requests Forgejo lists when no limit is asked for
    STATUSES,      \* how many statuses it puts on a page
    MAX_PAGES,
    MaxOthers      \* bound: what others change, at the forge and in the checkout

ASSUME BuiltInAssumption ==
    /\ {PAGE, STATUSES, MAX_PAGES} \subseteq Nat \ {0} /\ MaxOthers \in Nat
    /\ None \notin Branches \union Shas \union Labels /\ Ids \subseteq Labels

PullType == [n : Nat, head : Branches, sha : Shas \union {None}, state : {"open", "closed", "merged"}, fork : BOOLEAN]

VARIABLES
    call,     \* the command and its options
    pc,       \* its step, at the end its exit status
    forge,    \* the repository
    git,      \* the checkout
    got,      \* what it has read
    written,  \* history: what it has written at the forge
    others

vars == <<call, pc, forge, git, got, written, others>>

Exits == {"ok", "fail", "pending"}   \* 0, 1 (or git's own), 8
Requests == {"user", "repo", "issue", "issues", "pull", "pulls", "rollup", "statuses", "protection",
             "files", "diff", "labels", "comment", "create_pull", "create_issue"}
OfPull == {"pr_checks", "pr_checkout", "pr_comment", "pr_diff", "pr_view", "pr_status"}
Has(flag) == flag \in call.flags

Nothing == [pull |-> None, queue |-> <<>>, shown |-> <<>>, page |-> 1, statuses |-> <<>>,
            labels |-> {}, missed |-> FALSE, first |-> {}, fetched |-> None]

(***************************************************************************)
(* What the forge answers                                                  *)
(***************************************************************************)

OnPage(list, page, size) == SubSeq(list, (page - 1) * size + 1,
                                   IF page * size < Len(list) THEN page * size ELSE Len(list))

StateAsked == IF call.state = "merged" THEN "closed" ELSE call.state
InState(p, asked) == asked = "all" \/ (p.state = "open") = (asked = "open")

\* list_pulls reads one page, newest first, and keeps the asked head's.
Listed(asked, head) ==
    {i \in DOMAIN forge.pulls :
        /\ InState(forge.pulls[i], asked) /\ (head = None \/ forge.pulls[i].head = head)
        /\ Cardinality({j \in 1..i : InState(forge.pulls[j], asked)}) <= PAGE}

\* A page of a commit's statuses, newest first; a server may not know pages.
StatusPage(sha, page) ==
    OnPage(forge.statuses[sha], IF forge.pages THEN page ELSE 1, STATUSES)

(***************************************************************************)
(* From the words to the first request                                     *)
(***************************************************************************)

\* The branch asked for or the checkout's own; None when HEAD is detached.
TargetBranch == IF call.branch # None THEN call.branch ELSE git.on

CreateStep ==
    IF TargetBranch = None \/ ~(Has("title") \/ Has("fill")) THEN "fail"
    ELSE IF Has("web") THEN "ok" ELSE "create_pull"

\* The labels given by a name: a number is an id and is not looked up.
Names == call.labels \ Ids

IssueStep ==
    IF Has("web") THEN "ok"
    ELSE IF ~Has("title") THEN "fail"
    ELSE IF Names # {} THEN "labels" ELSE "create_issue"

NoPullStep == IF call.cmd \in {"pr_checks", "pr_checkout", "pr_comment"} THEN "fail" ELSE "ok"

AuthStep == "ok"
ApiStep == "user"
RepoViewStep == "repo"
IssueViewStep == IF call.number = 0 THEN "fail" ELSE "issue"
IssueListStep == IF Has("web") THEN "ok" ELSE "issues"

IssueFirst ==
    CASE call.cmd = "issue_view" -> IssueViewStep
      [] call.cmd = "issue_list" -> IssueListStep
      [] OTHER -> IssueStep

\* resolve_pull: by its number, or as the branch's.
ResolveStep ==
    IF call.number # 0 THEN "pull" ELSE IF TargetBranch # None THEN "pulls" ELSE NoPullStep

StatusStep == IF TargetBranch # None THEN "pulls" ELSE NoPullStep

PullFirst ==
    CASE call.cmd = "pr_create" -> CreateStep
      [] call.cmd = "pr_list" -> "pulls"
      [] call.cmd = "pr_status" -> StatusStep
      [] OTHER -> ResolveStep

FirstStep ==
    CASE call.cmd \in {"auth_status", "auth_token"} -> AuthStep
      [] call.cmd = "api" -> ApiStep
      [] call.cmd = "repo_view" -> RepoViewStep
      [] call.cmd \in {"issue_view", "issue_list", "issue_create"} -> IssueFirst
      [] OTHER -> PullFirst

\* run: nothing is asked before the words are read and there is a token.
Start ==
    /\ pc = "start"
    /\ pc' = IF call.ok /\ call.token THEN FirstStep ELSE "fail"
    /\ UNCHANGED <<call, forge, git, got, written, others>>

(***************************************************************************)
(* The pull request it is about                                            *)
(***************************************************************************)

ChecksStep(p) == IF p.sha = None THEN "fail" ELSE "statuses"
CommentStep == IF Has("web") THEN "ok" ELSE IF Has("body") THEN "comment" ELSE "fail"
DiffStep == IF Has("web") THEN "ok" ELSE IF Has("name_only") THEN "files" ELSE "diff"
ViewStep == IF Has("rollup") THEN "rollup" ELSE "ok"

PullStep(p) ==
    CASE call.cmd = "pr_checks" -> ChecksStep(p)
      [] call.cmd = "pr_checkout" -> "fetch_head"
      [] call.cmd = "pr_comment" -> CommentStep
      [] call.cmd = "pr_diff" -> DiffStep
      [] OTHER -> ViewStep

\* get_pull: the number asked for.
GetPull ==
    /\ pc = "pull"
    /\ \/ \E i \in DOMAIN forge.pulls :
            /\ forge.pulls[i].n = call.number
            /\ got' = [got EXCEPT !.pull = forge.pulls[i], !.queue = <<forge.pulls[i]>>]
            /\ pc' = PullStep(forge.pulls[i])
       \/ /\ \A i \in DOMAIN forge.pulls : forge.pulls[i].n # call.number
          /\ pc' = "fail" /\ UNCHANGED got
    /\ UNCHANGED <<call, forge, git, written, others>>

\* list_pulls for a branch: the first open one of it.  `missed`: there is one on another page.
FindPull ==
    LET found == Listed("open", TargetBranch)
    IN  /\ pc = "pulls" /\ call.cmd # "pr_list"
        /\ IF found = {}
           THEN /\ got' = [got EXCEPT !.missed = \E i \in DOMAIN forge.pulls :
                                /\ forge.pulls[i].state = "open" /\ forge.pulls[i].head = TargetBranch]
                /\ pc' = NoPullStep
           ELSE LET p == forge.pulls[CHOOSE i \in found : \A j \in found : i <= j]
                IN  /\ got' = [got EXCEPT !.pull = p, !.queue = <<p>>]
                    /\ pc' = PullStep(p)
        /\ UNCHANGED <<call, forge, git, written, others>>

\* pr list: the first page's, of the asked state, head and base.
ListPulls ==
    LET kept == {forge.pulls[i] : i \in {i \in Listed(StateAsked, call.branch) :
                    call.state = "merged" => forge.pulls[i].state = "merged"}}
        some == OnPage(SelectSeq(forge.pulls, LAMBDA p : p \in kept), 1, call.limit)
    IN  /\ pc = "pulls" /\ call.cmd = "pr_list"
        /\ got' = [got EXCEPT !.queue = some]
        /\ pc' = IF Has("rollup") /\ some # <<>> THEN "rollup" ELSE "ok"
        /\ UNCHANGED <<call, forge, git, written, others>>

\* enrich_pull_statuses: the first page of the statuses of the next pull request's head.
ReadRollup ==
    LET p == Head(got.queue)
        page == IF p.sha = None THEN <<>> ELSE StatusPage(p.sha, 1)
    IN  /\ pc = "rollup"
        /\ got' = [got EXCEPT !.queue = Tail(@),
                              !.shown = Append(@, [pull |-> p, rollup |-> LatestShown(page)])]
        /\ pc' = IF Len(got.queue) = 1 THEN "ok" ELSE "rollup"
        /\ UNCHANGED <<call, forge, git, written, others>>

(***************************************************************************)
(* pr checks                                                               *)
(***************************************************************************)

Verdict(statuses, rule) ==
    LET rows == Rows(statuses, Has("required"), rule)
    IN  IF rows = {} THEN "fail" ELSE IF Has("json") THEN "ok" ELSE ExitOf(rows)

\* Mutant: a page shorter than the fifty asked for is the last.
StatusesDone_Short(batch) == Len(batch) <= STATUSES

\* get_pages_up_to: only an empty page shows that all has been read.
StatusesDone(batch) == batch = <<>>

\* `first` keeps what there was when the first page was read.
ReadStatuses ==
    LET batch == StatusPage(got.pull.sha, got.page)
        all == got.statuses \o batch
    IN  /\ pc = "statuses"
        /\ IF got.page > MAX_PAGES
           THEN pc' = "fail" /\ UNCHANGED got
           ELSE /\ got' = [got EXCEPT !.page = @ + 1, !.statuses = all,
                              !.first = IF got.page = 1 THEN Latest(forge.statuses[got.pull.sha]) ELSE @]
                /\ pc' = IF ~StatusesDone(batch) THEN "statuses"
                         ELSE IF all = <<>> THEN "fail"
                         ELSE IF Has("required") THEN "protection"
                         ELSE Verdict(all, [on |-> FALSE, patterns |-> {}])
        /\ UNCHANGED <<call, forge, git, written, others>>

\* get_branch_protection of the pull request's base.
ReadProtection ==
    /\ pc = "protection"
    /\ got' = [got EXCEPT !.queue = <<>>]
    /\ pc' = Verdict(got.statuses, forge.rule)
    /\ UNCHANGED <<call, forge, git, written, others>>

(***************************************************************************)
(* Reads that end a command, and the writes                                *)
(***************************************************************************)

\* What it prints is the answer's.
Printed(request) ==
    /\ pc = request /\ pc' = "ok"
    /\ UNCHANGED <<call, forge, git, got, written, others>>

ReadUser == Printed("user")
ReadRepo == Printed("repo")
ReadIssue == Printed("issue")
ReadIssues == Printed("issues")
ReadFiles == Printed("files")
ReadDiff == Printed("diff")

\* resolve_label_ids: a label for each name, or an error for a name that no label has of those
\* Forgejo lists, one page of them.
ReadLabels ==
    /\ pc = "labels"
    /\ \/ \E label \in [Names -> forge.labels] :
            /\ \A name \in Names : label[name].name = name
            /\ got' = [got EXCEPT !.labels = {label[name] : name \in Names}]
            /\ pc' = "create_issue"
       \/ pc' = "fail" /\ UNCHANGED got
    /\ UNCHANGED <<call, forge, git, written, others>>

\* Mutant: a failed write is sent once more.
AfterWrite_Again(step) == {"ok", step}

\* A reply may be lost on its way back.
AfterWrite(step) == {"ok", "fail"}

Wrote(what) ==
    /\ written' = Append(written, what)
    /\ pc' \in AfterWrite(pc)
    /\ UNCHANGED <<call, git, got, others>>

Comment ==
    /\ pc = "comment"
    /\ Wrote([kind |-> "comment", on |-> got.pull.n, labels |-> {}])
    /\ UNCHANGED forge

IdsOf(labels) == {l.id : l \in labels}

\* Of the ids it is sent Forgejo uses those it knows, if it does not refuse.
CreateIssue ==
    /\ pc = "create_issue"
    /\ Wrote([kind |-> "issue", on |-> 0,
              labels |-> (IdsOf(got.labels) \union (call.labels \intersect Ids)) \intersect IdsOf(forge.labels)])
    /\ UNCHANGED forge

CreatePull ==
    LET n == Len(forge.pulls) + 1
        p == [n |-> n, head |-> TargetBranch, sha |-> forge.branches[TargetBranch], state |-> "open",
              fork |-> FALSE]
    IN  /\ pc = "create_pull" /\ forge.branches[TargetBranch] # None
        /\ forge' = [forge EXCEPT !.pulls = <<p>> \o @]
        /\ Wrote([kind |-> "pull", on |-> n, labels |-> {}])

\* Forgejo refuses, cannot be reached in time or says what is not JSON.
Refused ==
    /\ pc \in Requests
    /\ pc' = "fail"
    /\ UNCHANGED <<call, forge, git, got, written, others>>

(***************************************************************************)
(* pr checkout                                                             *)
(***************************************************************************)

\* What the checkout's origin has: the repository, or with --repo another one.
OriginHead(b) == IF call.here THEN forge.branches[b] ELSE forge.elsewhere
OriginPull(p) ==
    IF call.here THEN LET i == CHOOSE i \in DOMAIN forge.pulls : forge.pulls[i].n = p.n
                      IN  forge.pulls[i].sha
    ELSE forge.elsewhere

\* git fetch origin REF: the head's name first, then the pull request's own ref.  FETCH_HEAD
\* (`git.fetched`) is every shell's; `got.fetched` keeps what this command put there.
Fetch(sha, next) ==
    \/ /\ sha # None
       /\ git' = [git EXCEPT !.fetched = sha]
       /\ got' = [got EXCEPT !.fetched = sha]
       /\ pc' = IF Has("detach") THEN "detach" ELSE IF Has("force") THEN "reset" ELSE "look"
    \/ /\ pc' = next
       /\ UNCHANGED <<git, got>>

FetchHead ==
    /\ pc = "fetch_head"
    /\ Fetch(OriginHead(got.pull.head), "fetch_pull")
    /\ UNCHANGED <<call, forge, written, others>>

FetchPull ==
    /\ pc = "fetch_pull"
    /\ Fetch(OriginPull(got.pull), "fail")
    /\ UNCHANGED <<call, forge, written, others>>

LocalBranch == IF call.local # None THEN call.local ELSE got.pull.head

\* show-ref --verify
Look ==
    /\ pc = "look"
    /\ pc' = IF git.heads[LocalBranch] # None THEN "switch" ELSE "make"
    /\ UNCHANGED <<call, forge, git, got, written, others>>

\* Mutant: `checkout -B` whether or not the branch was looked for.
Made_Over == TRUE

\* `checkout -b` makes a branch, it does not move one.
Made == git.heads[LocalBranch] = None

After == IF Has("recurse") THEN "submodules" ELSE "ok"

\* The four forms of git checkout; a dirty tree may make each of them fail.
Checkout ==
    /\ \/ /\ pc = "detach"
          /\ git' = [git EXCEPT !.on = None, !.at = git.fetched] /\ pc' = "ok"
       \/ /\ pc = "reset" \/ (pc = "make" /\ Made)
          /\ git' = [git EXCEPT !.on = LocalBranch, !.at = git.fetched,
                                !.heads[LocalBranch] = git.fetched]
          /\ pc' = After
       \/ /\ pc = "switch" /\ git.heads[LocalBranch] # None
          /\ git' = [git EXCEPT !.on = LocalBranch, !.at = git.heads[LocalBranch]]
          /\ pc' = After
       \* Deleted since it was looked for: made again from a remote's branch of that name.
       \/ /\ pc = "switch" /\ git.heads[LocalBranch] = None
          /\ \E sha \in Shas :
                git' = [git EXCEPT !.on = LocalBranch, !.at = sha, !.heads[LocalBranch] = sha]
          /\ pc' = After
       \/ /\ pc \in {"detach", "reset", "switch", "make"}
          /\ pc' = "fail" /\ UNCHANGED git
    /\ UNCHANGED <<call, forge, got, written, others>>

Submodules ==
    /\ pc = "submodules"
    /\ pc' \in {"ok", "fail"}
    /\ UNCHANGED <<call, forge, git, got, written, others>>

(***************************************************************************)
(* Others                                                                  *)
(***************************************************************************)

Running == pc \notin Exits \union {"start"}

\* A status is posted, in a later second or in the same one.
PostStatus ==
    \E sha \in Shas, c \in Contexts, s \in CommitStates, note \in Notes, later \in {0, 1} :
        LET old == forge.statuses[sha]
            now == IF old = <<>> THEN 1 ELSE Head(old).time + later
        IN  /\ note # "none" => c \in Jobs
            /\ note \in {"waiting", "blocked"} => s = "pending"
            /\ note = "skipped" => s = "success"
            /\ note = "cancelled" => s = "failure"
            /\ forge' = [forge EXCEPT !.statuses[sha] =
                    <<[context |-> c, state |-> s, note |-> note, time |-> now, id |-> Len(old) + 1]>>
                        \o old]
            /\ UNCHANGED git

\* A pull request of the repository or of a fork is opened, or one is closed.
OpenPull ==
    \E b \in Branches, sha \in Shas, fork \in BOOLEAN :
        /\ ~fork => forge.branches[b] = sha
        /\ forge' = [forge EXCEPT !.pulls =
                <<[n |-> Len(@) + 1, head |-> b, sha |-> sha, state |-> "open", fork |-> fork]>> \o @]
        /\ UNCHANGED git

ClosePull ==
    \E i \in DOMAIN forge.pulls, s \in {"closed", "merged"} :
        /\ forge.pulls[i].state = "open"
        /\ forge' = [forge EXCEPT !.pulls[i].state = s] /\ UNCHANGED git

\* A push moves a branch and the open pull requests from it.
Push ==
    \E b \in Branches, sha \in Shas :
        /\ forge.branches[b] \notin {None, sha}
        /\ forge' = [forge EXCEPT !.branches[b] = sha,
                !.pulls = [i \in DOMAIN @ |->
                    IF @[i].head = b /\ @[i].state = "open" /\ ~@[i].fork
                    THEN [@[i] EXCEPT !.sha = sha] ELSE @[i]]]
        /\ UNCHANGED git

\* A label is deleted, or given another name.
ChangeLabel ==
    \E l \in forge.labels, name \in Labels \union {None} :
        /\ forge' = [forge EXCEPT !.labels =
                (@ \ {l}) \union (IF name = None THEN {} ELSE {[l EXCEPT !.name = name]})]
        /\ UNCHANGED git

\* Another shell in the checkout fetches, or makes, moves or deletes a branch, or commits
\* to the one that is checked out.
OtherShell ==
    /\ \/ \E sha \in Shas : git' = [git EXCEPT !.fetched = sha]
       \/ \E b \in Branches, sha \in Shas \union {None} :
            /\ sha # git.heads[b] /\ (git.on = b => sha # None)
            /\ git' = [git EXCEPT !.heads[b] = sha, !.at = IF git.on = b THEN sha ELSE @]
    /\ UNCHANGED forge

Others ==
    /\ Running /\ others < MaxOthers
    /\ \/ pc \in {"statuses", "rollup"} /\ PostStatus
       \/ OpenPull \/ ClosePull \/ Push
       \/ pc \in {"labels", "create_issue"} /\ ChangeLabel
       \/ pc \in {"detach", "reset", "look", "switch", "make"} /\ OtherShell
    /\ others' = others + 1
    /\ UNCHANGED <<call, pc, got, written>>

Next ==
    \/ Start \/ GetPull \/ FindPull \/ ListPulls \/ ReadRollup \/ ReadStatuses \/ ReadProtection
    \/ ReadUser \/ ReadRepo \/ ReadIssue \/ ReadIssues \/ ReadFiles \/ ReadDiff
    \/ ReadLabels \/ Comment \/ CreateIssue \/ CreatePull \/ Refused
    \/ FetchHead \/ FetchPull \/ Look \/ Checkout \/ Submodules
    \/ Others

\* A commit's statuses come newest first.
NewestFirst(list) ==
    \A i \in DOMAIN list : list[i].id = Len(list) + 1 - i /\ \A j \in 1..i : list[i].time <= list[j].time

Answered == OfPull \union {"pr_create", "pr_list", "issue_view", "issue_list", "issue_create", "repo_view",
                           "auth_status", "auth_token", "api"}

Called ==
    /\ call.cmd \in Answered /\ call.number \in Nat /\ call.labels \subseteq Labels
    /\ {call.branch, call.local} \subseteq Branches \union {None}

Repository ==
    /\ DOMAIN forge = {"pulls", "statuses", "branches", "rule", "labels", "pages", "elsewhere"}
    /\ forge.pulls \in Seq(PullType) /\ forge.branches \in [Branches -> Shas \union {None}]
    /\ forge.statuses \in [Shas -> Seq(StatusType)] /\ \A sha \in Shas : NewestFirst(forge.statuses[sha])
    /\ forge.elsewhere \in Shas /\ forge.labels \subseteq [id : Ids, name : Labels]

CheckedOut ==
    /\ DOMAIN git = {"on", "at", "fetched", "heads"}
    /\ git.on \in Branches \union {None} /\ git.heads \in [Branches -> Shas \union {None}]
    /\ {git.at, git.fetched} \subseteq Shas \union {None}

\* The runs give the command, the repository and the checkout.
Init ==
    /\ pc = "start" /\ got = Nothing /\ written = <<>> /\ others \in 0..MaxOthers
    /\ Called /\ Repository /\ CheckedOut

Spec == Init /\ [][Next]_vars

(***************************************************************************)
(* Properties                                                              *)
(***************************************************************************)

Writing == call.cmd \in {"pr_comment", "pr_create", "issue_create"} /\ ~Has("web")

\* The requests and git commands of a command.
Way ==
    CASE call.cmd = "pr_comment" -> {"pull", "pulls", "comment"}
      [] call.cmd = "pr_create" -> {"create_pull"}
      [] call.cmd = "issue_create" -> {"labels", "create_issue"}
      [] call.cmd = "pr_checks" -> {"pull", "pulls", "statuses", "protection"}
      [] call.cmd = "pr_checkout" -> {"pull", "pulls", "fetch_head", "fetch_pull", "detach", "reset", "look", "switch",
                                      "make", "submodules"}
      [] call.cmd \in {"pr_diff", "pr_view", "pr_status"} -> {"pull", "pulls", "rollup", "files", "diff"}
      [] call.cmd = "pr_list" -> {"pulls", "rollup"}
      [] OTHER -> {"user", "repo", "issue", "issues"}

\* What the call, the repository, the checkout and what was read may be.
TypeOK ==
    /\ pc \in {"start"} \union Way \union Exits
    /\ Called /\ Repository /\ CheckedOut
    /\ DOMAIN got = DOMAIN Nothing /\ got.page \in 1..MAX_PAGES + 1
    /\ others \in 0..MaxOthers

\* A command writes at most once, and only if it is one that writes, there is a token and
\* no browser was asked for.  What it says it did it has done: status 0 means written, to
\* the pull request asked for or one of the branch's.  An issue bears the labels asked for,
\* by their ids or by the names they had when these were looked up, whatever they are called
\* since, but for those the repository no longer has, and no others (run_comment,
\* run_create, run_issue_create; a lost reply reads as a failure and is not sent again).
WritesOnce ==
    /\ Len(written) <= 1
    /\ written # <<>> => Writing /\ call.token /\ call.ok
    /\ pc = "ok" /\ Writing => written # <<>>
    /\ \A i \in DOMAIN written :
          CASE written[i].kind = "comment" ->
                  IF call.number # 0 THEN written[i].on = call.number ELSE got.pull.head = TargetBranch
            [] written[i].kind = "issue" ->
                  /\ Names = {l.name : l \in got.labels}
                  /\ \A l \in forge.labels :
                        l.id \in written[i].labels <=>
                            l.id \in call.labels \/ \E had \in got.labels : had.id = l.id
            [] OTHER -> TRUE

\* pr checks ends with 0 or 8 only if it has read each of the commit's checks (with
\* --required: each that counts) as it was when it began or as it was posted later, and
\* none of these has failed; with 0 none is pending, with 8 one is that nothing had
\* followed when it began: however many pages that took, whatever was posted in between
\* and whether or not the server knows pages (run_checks, get_pages_up_to,
\* checks::aggregate, checks::print).
ChecksTruthful ==
    call.cmd = "pr_checks" /\ ~Has("json") /\ pc \in {"ok", "pending"} =>
        LET counts(s) == Has("required") => Required(s.context, forge.rule)
            now == Posted(forge.statuses[got.pull.sha])
            bad == IF pc = "ok" THEN {"fail", "pending"} ELSE {"fail"}
        IN  /\ \A s \in got.first : counts(s) =>
                  \E t \in now : t.context = s.context /\ ~Newer(s, t) /\ Bucket(t) \notin bad
            /\ \E t \in now :
                  /\ counts(t)
                  /\ pc = "pending" => Bucket(t) = "pending"
                  /\ \A s \in got.first : s.context = t.context => ~Newer(s, t)

\* pr checkout moves no branch that there was, unless --force names it, though another
\* shell makes, moves and deletes branches and fetches between its git commands.  Where it
\* ends with 0 HEAD is where it was asked to be: detached or on the branch; and at what it
\* fetched, unless the branch was found first or somebody fetched since (run_checkout).
CheckoutKeeps ==
    [][/\ \A b \in Branches :
            pc # pc' /\ git.heads[b] # None /\ git'.heads[b] # git.heads[b] =>
                Has("force") /\ b = LocalBranch
       /\ pc # pc' /\ pc' \in {"ok", "submodules"} /\ call.cmd = "pr_checkout" /\ pc # "submodules" =>
            /\ IF Has("detach") THEN git'.on = None
               ELSE git'.on = LocalBranch /\ git'.at = git'.heads[LocalBranch]
            /\ git'.at = got.fetched \/ pc = "switch" \/ git.fetched # got.fetched]_vars

(***************************************************************************)
(* The inductive invariant                                                 *)
(***************************************************************************)

\* A request is made with a token, of a call that could be read, and nothing is written before the last one.
Asked == pc \notin {"start"} \union Exits => call.ok /\ call.token
Unwritten == pc \notin Exits => written = <<>>

\* The pull request is one of the repository's, the one asked for.
PullKnown ==
    pc \in {"comment", "statuses", "protection", "fetch_head", "fetch_pull", "detach", "reset", "look", "switch", "make"} =>
        /\ got.pull \in PullType /\ \E i \in DOMAIN forge.pulls : forge.pulls[i].n = got.pull.n
        /\ IF call.number # 0 THEN got.pull.n = call.number ELSE got.pull.head = TargetBranch

\* What a step is reached with.
Ready ==
    /\ pc \in {"comment", "create_pull", "labels", "create_issue"} => ~Has("web")
    /\ pc = "create_pull" => TargetBranch # None
    /\ pc = "start" => got.labels = {}
    /\ pc = "pull" => call.number # 0
    /\ pc = "pulls" /\ call.cmd # "pr_list" =>
          TargetBranch # None /\ (call.number = 0 \/ call.cmd = "pr_status")
    /\ pc = "create_issue" => Names = {l.name : l \in got.labels}
    /\ pc \in {"detach", "reset", "look", "switch", "make"} => (pc = "detach" <=> Has("detach"))
    /\ pc = "reset" => Has("force")

\* Of the statuses there were first, those not read yet are on pages still to come.
Gathered ==
    /\ pc \in {"start", "pull", "pulls"} => got.first = {} /\ got.statuses = <<>>
    /\ pc \in {"statuses", "protection"} =>
          LET list == forge.statuses[got.pull.sha]
          IN  /\ got.pull.sha \in Shas /\ got.statuses \in Seq(StatusType)
              /\ got.first \union Posted(got.statuses) \subseteq Posted(list)
              /\ pc = "protection" => got.first \subseteq Posted(got.statuses)
              /\ pc = "statuses" /\ forge.pages =>
                    \A i \in DOMAIN list : list[i] \in got.first =>
                        list[i] \in Posted(got.statuses) \/ i > (got.page - 1) * STATUSES

IInv ==
    /\ TypeOK /\ Asked /\ Unwritten /\ PullKnown /\ Ready /\ Gathered
    /\ WritesOnce /\ ChecksTruthful

Verdicts(sha) ==
    LET statuses == forge.statuses[sha]
        latest == Latest(statuses)
        buckets == {Bucket(s) : s \in latest}
        runs == CheckRuns(statuses)
        rest == (IF runs = {} THEN {} ELSE {Worst({CheckState(s) : s \in runs})})
                    \union (IF runs = latest THEN {} ELSE {Combined(statuses)})
        tied == \E i, j \in DOMAIN statuses :
                  i # j /\ statuses[i].context = statuses[j].context /\ statuses[i].time = statuses[j].time
        counted == {s \in latest : Required(s.context, forge.rule)}
        unmatched == \E p \in forge.rule.patterns : p \intersect ContextsOf(statuses) = {}
    IN  statuses # <<>> =>
          /\ Worst(rest) = Rollup(statuses)
          /\ Rollup(statuses) = "success" <=> (buckets \subseteq {"pass", "skipping"})
          /\ Rollup(statuses) = "failure" <=> (buckets \intersect {"fail", "cancel"} # {})
          /\ ~tied => RollupShown(statuses) = Rollup(statuses)
          /\ forge.rule.on =>
                (RequiredPass(statuses, forge.rule) <=>
                    (~unmatched /\ \A s \in counted : Bucket(s) \in {"pass", "skipping"}))

\* The projections of one commit's statuses say the same: GraphQL's roll-up, REST's check
\* runs with the combined status, the rows of pr checks, the built-in commands' roll-up
\* (unless two of a context's statuses are of one second), and the merge gate, which is
\* shut exactly when a check gh shows as required has not passed or a pattern is not
\* matched (map/checks.rs, checks.rs, normalize.rs).
VerdictsAgree == \A sha \in Shas : Verdicts(sha)

\* README.md: "gh pr view and gh pr status return successfully when the current branch has
\* no open PR"; with "currentBranch": null they say there is none.
NullMeansNone ==
    call.cmd = "pr_status" /\ pc = "ok" /\ got.pull = None => ~got.missed
=============================================================================
