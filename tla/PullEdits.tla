----------------------------- MODULE PullEdits -----------------------------
(***************************************************************************)
(* What the gateway's resolvers do with a session: the mutations other     *)
(* than merging (creating an issue or a pull request, a comment, an edit,  *)
(* the draft state), the deletion of a branch, and the lists.  A step of   *)
(* the table is one call and what is made of its reply; the mutations of a *)
(* document run one after another, a query's resolvers side by side.       *)
(***************************************************************************)
EXTENDS Session

CONSTANT SizeTTL   \* ten minutes, in ticks

Ops == {"create_issue", "create_pull", "comment", "update", "state", "draft", "ready", "delete",
        "read", "list", "runs"}

(***************************************************************************)
(* Titles: WipPrefixes                                                     *)
(***************************************************************************)

\* The host's configured prefixes, the first of which marks a draft; none at all
\* for an empty setting.
Prefixes(j) == IF j.prefix = None THEN {} ELSE {"both", "gateway"}
Strip(j, title) ==
    IF title.marks # <<>> /\ Head(title.marks) \in Prefixes(j)
    THEN [title EXCEPT !.marks = Tail(@)] ELSE title
DraftTitle(j, title) == [title EXCEPT !.marks = <<j.prefix>> \o @]
\* There was no prefix to mark it with.
Unmarkable(title) == title # None /\ title.marks # <<>> /\ Head(title.marks) = None

(***************************************************************************)
(* The calls                                                               *)
(***************************************************************************)

Reads(key) == [how |-> "memo", key |-> key]
Writes == [how |-> "write", key |-> Key("repo")]

\* The call of a resolver's step.
Call(f) ==
    CASE pc[f] \in {"repo", "pull", "settings"} -> Reads(Key(pc[f]))
      [] pc[f] = "base" -> Reads(Key(field[f].base))
      [] pc[f] \in {"subject", "read"} -> Reads(Key(field[f].key))
      [] pc[f] = "page" -> Reads(<<"list", local[f].page, PAGE_SIZE>>)
      [] pc[f] = "window" -> Reads(<<"runs", local[f].page, local[f].size>>)
      [] pc[f] = "look" -> [how |-> "get", key |-> Key("branch")]
      [] OTHER -> Writes

\* What Forgejo makes of an edit: it applies the title, then the state, which a merged
\* pull request's may not change, and finds only then that a new base is missing; a
\* merged one's base stays (pull.go 649-759).
Patched(f, change) ==
    LET pull == forge.pull
        merged == pull.state = "merged"
        moves == change.base # None /\ ~merged /\ change.base # pull.base
        missing == moves /\ change.base \notin forge.branches
        edited == [pull EXCEPT !.title = IF change.title = None THEN @ ELSE change.title,
                               !.state = IF change.state = None \/ merged THEN @ ELSE change.state,
                               !.base = IF moves /\ ~missing THEN change.base ELSE @]
    IN  IF forge.issue THEN {}
        ELSE {[after |-> [forge EXCEPT !.pull = edited],
               status |-> IF missing \/ (merged /\ change.state # None) THEN "refused" ELSE "ok"]}

Refusal == [after |-> forge, status |-> "refused"]

\* Forgejo's outcomes for a write.
Outcomes(f) ==
    {Refusal} \union
    CASE pc[f] \in {"create", "create_issue"} ->
            {[after |-> [forge EXCEPT !.made = @ \union {f}], status |-> "ok"]}
      [] pc[f] = "allow" -> {[after |-> [forge EXCEPT !.allowed = TRUE], status |-> "ok"]}
      [] pc[f] = "comment" -> {[after |-> [forge EXCEPT !.noted = @ \union {f}], status |-> "ok"]}
      [] pc[f] \in {"patch", "title"} -> Patched(f, local[f].change)
      [] pc[f] = "delete" ->
            IF "branch" \in forge.branches
            THEN {[after |-> [forge EXCEPT !.branches = @ \ {"branch"}], status |-> "ok"]}
            ELSE {[after |-> forge, status |-> "server_error"]}
      [] OTHER -> {}

\* A read of a branch in a repository the token cannot see says "not found" and
\* proves nothing.
Serve(f) ==
    IF Call(f).how = "write"
    THEN \E o \in Outcomes(f) : Handle(f, o.after, o.status, TRUE)
    ELSE Handle(f, forge, IF pc[f] = "look" /\ forge.unseen THEN "unseen" ELSE StatusOf(forge, Call(f).key),
                FALSE)

(***************************************************************************)
(* The resolvers                                                           *)
(***************************************************************************)

NoChange == [title |-> None, state |-> None, base |-> None]
NoLocal == [tries |-> 0, change |-> NoChange, page |-> 1, size |-> 1, items |-> <<>>,
            first |-> <<>>, began |-> 0]

Moves == UNCHANGED <<clock, user_of, past, sessions, rq, memo, forge, field, seen, others, lost>>

To(f, step) == pc' = [pc EXCEPT ![f] = step] /\ UNCHANGED answer
End(f, how) == answer' = [answer EXCEPT ![f] = how] /\ UNCHANGED pc
Keep(f) == UNCHANGED local
Put(f, change) == local' = [local EXCEPT ![f].change = change]

SizeCached == page_size.size # 0 /\ clock - page_size.at < SizeTTL

\* The window of Actions runs begins on the page that holds its first item.
Windowed(f, size) ==
    local' = [local EXCEPT ![f].size = size, ![f].page = field[f].start \div size + 1]

FirstStep(j) ==
    CASE j.op \in {"create_issue", "create_pull"} -> "repo"
      [] j.op = "comment" -> "subject"
      [] j.op \in {"update", "draft", "ready"} -> "pull"
      [] j.op = "state" -> "patch"
      [] j.op = "delete" -> "look"
      [] j.op = "list" -> "page"
      [] j.op = "runs" -> "settings"
      [] j.op = "read" -> "read"

\* A resolver starts: a mutation's after those before it have ended.
Begin(f) ==
    LET j == field[f]
    IN  /\ pc[f] = "ready" /\ answer[f] = None /\ rq[j.of].phase = "open"
        /\ \A g \in j.after : answer[g] # None
        /\ IF j.op = "runs" /\ SizeCached
           THEN To(f, "window") /\ Windowed(f, page_size.size)
           ELSE To(f, FirstStep(j)) /\ local' = [local EXCEPT ![f].first = IF j.op = "list" THEN forge.list ELSE @,
                    ![f].change = IF j.op = "state" THEN [NoChange EXCEPT !.state = j.state] ELSE @,
                    ![f].began = forge.ver]
        /\ Moves /\ UNCHANGED <<io, reply, page_size>>

Bad(f) == reply[f].status # "ok"
Was(f) == reply[f].was

\* named_repository; an issue in an archived repository is refused here.
NamedRepository(f) ==
    /\ pc[f] = "repo"
    /\ IF Bad(f) \/ ~field[f].same \/ (field[f].op = "create_issue" /\ Was(f).archived)
          \/ (field[f].op = "create_pull" /\ field[f].draft /\ field[f].prefix = None)
       THEN End(f, "failed")
       ELSE To(f, IF field[f].op = "create_issue" THEN "create_issue" ELSE "create")
    /\ Keep(f)

\* create_pull_request: the pull request is there now, so an edit refused is noted
\* beside it.
Created(f) ==
    /\ pc[f] \in {"create", "create_issue"}
    /\ IF Bad(f) THEN End(f, "failed")
       ELSE IF pc[f] = "create" /\ field[f].fork THEN To(f, "allow") ELSE End(f, "done")
    /\ Keep(f)

\* Mutant: the edit's refusal is the mutation's.
Allowed_Fails(f) ==
    /\ pc[f] = "allow"
    /\ End(f, IF Bad(f) THEN "failed" ELSE "done")
    /\ Keep(f)

Allowed(f) ==
    /\ pc[f] = "allow"
    /\ End(f, IF Bad(f) THEN "noted" ELSE "done")
    /\ Keep(f)

\* add_comment: the ID's kind is confirmed first.
Commented(f) ==
    /\ \/ pc[f] = "subject" /\ (IF Bad(f) THEN End(f, "failed") ELSE To(f, "comment"))
       \/ pc[f] = "comment" /\ End(f, IF Bad(f) THEN "failed" ELSE "done")
    /\ Keep(f)

\* update_pull_request: a new base is looked for before anything is written; a
\* title keeps the draft mark.
Update(f) ==
    LET j == field[f]
        pull == Was(f).pull
        title == IF j.title = None THEN None
                 ELSE IF IsDraft(pull.title) THEN DraftTitle(j, j.title) ELSE j.title
        change == [title |-> title, state |-> j.state, base |-> j.base]
    IN  /\ j.op = "update"
        /\ \/ /\ pc[f] = "pull"
              /\ IF Bad(f) THEN End(f, "failed") /\ Keep(f)
                 ELSE IF j.base # None /\ pull.state # "merged" /\ j.base # pull.base
                 THEN To(f, "base") /\ Put(f, change)
                 ELSE IF Unmarkable(title)
                 THEN End(f, "failed") /\ Keep(f)
                 ELSE To(f, "patch") /\ Put(f, change)
           \/ /\ pc[f] = "base"
              /\ (IF Bad(f) \/ Unmarkable(local[f].change.title) THEN End(f, "failed") ELSE To(f, "patch"))
              /\ Keep(f)

Patch(f) ==
    /\ pc[f] = "patch"
    /\ End(f, IF Bad(f) THEN "failed" ELSE "done")
    /\ Keep(f)

\* set_draft: the title read, with the mark put or taken, is written back.
SetDraft(f) ==
    LET j == field[f]
        title == Was(f).pull.title
        new == IF j.op = "draft" THEN DraftTitle(j, title) ELSE Strip(j, title)
        wanted == j.op = "draft"
    IN  /\ j.op \in {"draft", "ready"} /\ pc[f] = "pull"
        /\ IF Bad(f) THEN End(f, "failed") /\ Keep(f)
           ELSE IF IsDraft(title) = wanted THEN End(f, "done") /\ Keep(f)
           ELSE IF (wanted /\ j.prefix = None) \/ (~wanted /\ Strip(j, new) # new) \/ new = title
           THEN End(f, "failed") /\ Keep(f)
           ELSE To(f, "title") /\ Put(f, [NoChange EXCEPT !.title = new])

\* Forgejo's own prefixes decide, so a changed state is checked.
DraftSet(f) ==
    /\ pc[f] = "title"
    /\ IF Bad(f) THEN End(f, "failed")
       ELSE End(f, IF IsDraft(Was(f).pull.title) = (field[f].op = "draft") THEN "done" ELSE "unchanged")
    /\ Keep(f)

\* delete_branch: only Forgejo's own word, before the delete, says "gone".
DeleteBranch(f) ==
    /\ \/ /\ pc[f] = "look"
          /\ CASE reply[f].status = "not_found" -> End(f, "gone")
               [] reply[f].status = "ok" -> To(f, "delete")
               [] OTHER -> End(f, "failed")
       \/ pc[f] = "delete" /\ End(f, IF Bad(f) THEN "failed" ELSE "done")
    /\ Keep(f)

Read(f) ==
    /\ pc[f] = "read"
    /\ End(f, IF Bad(f) THEN "failed" ELSE "done")
    /\ Keep(f)

\* Mutant: a list too long is cut short.
Page_Cut(f) ==
    LET n == local[f].page
        batch == PageOf(Was(f), n, PAGE_SIZE)
    IN  /\ pc[f] = "page"
        /\ IF Bad(f) THEN End(f, "failed") /\ Keep(f)
           ELSE /\ local' = [local EXCEPT ![f].items = @ \o batch, ![f].page = n + 1]
                /\ IF n * Least(PAGE_SIZE, Was(f).max) >= Len(Was(f).list) \/ n = MAX_PAGES
                   THEN End(f, "done") ELSE To(f, "page")

\* Session::pages: Forgejo's links decide, and without them a short page.
Page(f) ==
    LET n == local[f].page
        batch == PageOf(Was(f), n, PAGE_SIZE)
        more == IF Was(f).links THEN n * Least(PAGE_SIZE, Was(f).max) < Len(Was(f).list)
                ELSE Len(batch) >= PAGE_SIZE
    IN  /\ pc[f] = "page"
        /\ IF Bad(f) THEN End(f, "failed") /\ Keep(f)
           ELSE /\ local' = [local EXCEPT ![f].items = @ \o batch, ![f].page = n + 1]
                /\ IF ~more THEN End(f, "done")
                   ELSE IF n = MAX_PAGES THEN End(f, "failed") ELSE To(f, "page")

\* Session::page_size: hidden settings stand for the default; a failure is not
\* kept.
Settings(f) ==
    LET size == IF Bad(f) THEN PAGE_SIZE ELSE Least(Was(f).max, PAGE_SIZE)
    IN  /\ pc[f] = "settings"
        /\ IF reply[f].status \in {"ok", "not_found"}
           THEN /\ page_size' = [size |-> size, at |-> clock]
                /\ To(f, "window") /\ Windowed(f, size)
           ELSE End(f, "failed") /\ Keep(f) /\ UNCHANGED page_size

\* Session::action_runs: pages until the window is full or the list has ended.
Window(f) ==
    LET n == local[f].page
        size == local[f].size
        skip == field[f].start % size
        batch == PageOf(Was(f), n, size)
        all == local[f].items \o batch
        full == batch = <<>> \/ Len(all) >= skip + field[f].limit \/ n * size >= Len(Was(f).list)
    IN  /\ pc[f] = "window"
        /\ IF Bad(f) THEN End(f, "failed") /\ Keep(f)
           ELSE IF full
           THEN /\ End(f, "done")
                /\ local' = [local EXCEPT ![f].items =
                                 SubSeq(all, skip + 1, Least(skip + field[f].limit, Len(all)))]
           ELSE /\ local' = [local EXCEPT ![f].items = all, ![f].page = n + 1]
                /\ IF n - field[f].start \div size = MAX_PAGES THEN End(f, "failed") ELSE To(f, "window")

\* What a resolver makes of its reply.
Continue(f) ==
    /\ Turn(f) /\ io[f] = "done"
    /\ \/ /\ NamedRepository(f) \/ Created(f) \/ Allowed(f) \/ Commented(f) \/ Update(f) \/ Patch(f)
             \/ SetDraft(f) \/ DraftSet(f) \/ DeleteBranch(f) \/ Read(f) \/ Page(f) \/ Window(f)
          /\ UNCHANGED page_size
       \/ Settings(f)
    /\ io' = [io EXCEPT ![f] = "idle"]
    /\ reply' = [reply EXCEPT ![f] = NoReply]
    /\ Moves

(***************************************************************************)
(* The specification                                                       *)
(***************************************************************************)

Titles == [marks: {<<>>} \union {<<m>> : m \in Marks} \union {<<m, n>> : m, n \in Marks},
           text: {"ours", "new", "theirs"}]
Jobs == [op: Ops, of: Requests, after: SUBSET Fields, key: {"pull", "issue", "repo"},
         title: Titles \union {None}, state: {"open", "closed", None}, base: {"base", "main", None},
         prefix: {"both", "gateway", None}, draft: BOOLEAN, fork: BOOLEAN, same: BOOLEAN,
         start: 0..3, limit: 1..3, sizes: SUBSET Nat]

\* One of two mutations of a document follows the other; queries need not.  A comment
\* is on a pull request or an issue.
Queries == {"read", "list", "runs"}
Document ==
    \A f, g \in Fields : f # g /\ Of(f) = Of(g)
        => {field[f].op, field[g].op} \subseteq Queries \/ f \in field[g].after \/ g \in field[f].after
Commentable == \A f \in Fields : field[f].op = "comment" => field[f].key # "repo"

InitSession ==
    /\ clock = 0 /\ others = 0 /\ lost = 0
    /\ user_of \in [Tokens -> Users]
    /\ past = {<<t, user_of[t], 0>> : t \in Tokens}
    /\ sessions = [t \in Tokens |-> NoSession] /\ page_size = NoSize
    /\ rq \in [Requests -> {[token |-> t, phase |-> "new", viewer |-> None, opened |-> 0, deadline |-> 0,
                             left |-> Budget, drawn |-> 0, epoch |-> 0, wrote |-> 0] : t \in Tokens}]
    /\ memo = [r \in Requests |-> NoMemo]
    /\ pc = [f \in Fields |-> "ready"] /\ io = [f \in Fields |-> "idle"]
    /\ reply = [f \in Fields |-> NoReply] /\ local = [f \in Fields |-> NoLocal]
    /\ answer = [f \in Fields |-> None] /\ seen = [f \in Fields |-> {}]

\* Any documents, at any repository.
Pulls == [title: [marks: Seq(Marks), text: {"ours", "new", "theirs"}], state: {"open", "closed", "merged"},
          base: {"base", "main"}, mergeable: BOOLEAN]
Repositories == [ver: Nat, archived: BOOLEAN, issue: BOOLEAN, branches: SUBSET {"base", "branch", "main"},
                 list: Seq(Items), max: Nat \ {0}, links: BOOLEAN, hidden: BOOLEAN, taken: BOOLEAN,
                 unseen: BOOLEAN, made: {{}}, noted: {{}}, allowed: BOOLEAN, pull: Pulls]
Init == InitSession /\ field \in [Fields -> Jobs] /\ Document /\ Commentable /\ forge \in Repositories

FieldStep(f) ==
    \/ Begin(f) \/ (pc[f] # "ready" /\ Ask(f, Call(f))) \/ (pc[f] # "ready" /\ Receive(f, Call(f)))
    \/ (pc[f] # "ready" /\ Break(f, Call(f))) \/ Continue(f)

Next ==
    \/ \E r \in Requests : Authenticate(r) \/ Identify(r) \/ Identified(r) \/ NotIdentified(r)
    \/ \E f \in Fields : FieldStep(f) \/ (pc[f] # "ready" /\ Serve(f)) \/ Drop(f)
    \/ Tick \/ Rename \/ Meddle

Spec == Init /\ [][Next]_vars

\* The runtime polls whatever is ready, and time passes; the forge owes nothing.
Fairness ==
    /\ WF_vars(Tick)
    /\ \A f \in Fields : WF_vars(FieldStep(f))

(***************************************************************************)
(* Properties                                                              *)
(***************************************************************************)

\* Every variable has its type.
TypeOK ==
    /\ clock \in 0..MaxTime /\ user_of \in [Tokens -> Users \union {None}]
    /\ sessions \in [Tokens -> [user: Users \union {None}, at: 0..MaxTime]]
    /\ Cardinality(Live(sessions)) <= Capacity
    /\ page_size \in [size: 0..PAGE_SIZE, at: 0..MaxTime]
    /\ \A r \in Requests : rq[r].left \in 0..Budget
                           /\ rq[r].phase \in {"new", "asking", "told", "open", "refused"}
    /\ forge.pull.title \in [marks: Seq(Marks), text: {"ours", "new", "theirs"}]
    /\ field \in [Fields -> Jobs]
    /\ io \in [Fields -> {"idle", "sent", "back", "done"}]
    /\ answer \in [Fields -> Ends \union {None}]

Wrote(f) == forge' # forge /\ io[f] = "sent" /\ io'[f] = "back"

\* What the gateway says of a write is so.  A creation that fails, unless its reply
\* was lost or the budget had no room for it, created nothing, and one refused only its edit still names what it
\* made ("rather than failing in a way that invites creating it again"); "gone" is
\* said of a branch only when it was absent and this request deleted none; a draft
\* state said to be set was.  And a write follows from reads that are not stale: the
\* title written back for the draft state is one the pull request had after the
\* request's own last write, and an edit names a base other than the one it read only
\* when it has seen that branch since that write, or has read that the pull request is merged.
Says(f) ==
    LET op == field[f].op  how == answer'[f]
    IN  /\ op \in {"create_issue", "create_pull"} =>
             /\ how \in {"done", "noted"} => f \in forge.made
             /\ how = "failed" /\ reply[f].status \notin {"lost", "too_large"} => f \notin forge.made
        /\ op = "comment" /\ how = "done"
             => f \in forge.noted /\ (field[f].key = "issue") = forge.issue
        /\ op = "delete" /\ how = "gone" => pc[f] = "look" /\ "branch" \notin Was(f).branches
        /\ op \in {"draft", "ready"} /\ how = "done" => IsDraft(Was(f).pull.title) = (op = "draft")

\* Seen by the resolver since its request's last write.
Saw(f, key) == \E s \in seen[f] : s.key = key /\ s.status = "ok" /\ s.epoch = rq[Of(f)].epoch
                                   /\ s.ver >= rq[Of(f)].wrote
\* The pull request as its request has it.
PullRead(f) == memo[Of(f)][Key("pull")].reply.was.pull
Follows(f) ==
    LET base == local[f].change.base
    IN  /\ pc[f] = "title" => Saw(f, Key("pull"))
        /\ pc[f] = "patch" /\ base # None /\ base # PullRead(f).base /\ PullRead(f).state # "merged"
             => Saw(f, Key(base))

EditsHonest ==
    [][\A f \in Fields : (answer'[f] # answer[f] => Says(f)) /\ (Wrote(f) => Follows(f))]_vars

\* A list answered is the list: whole if nothing changed since its first page was
\* read, all that was there when it began if things were only added, and never cut
\* at the last page; a window of runs is that window, whatever the forge's page size
\* (a forge that links nothing, or hides its settings, has pages of the default
\* size).
ListsWhole ==
    [][\A f \in Fields : answer'[f] = "done" /\ answer[f] = None =>
        LET told == local'[f].items
            end == Least(field[f].start + field[f].limit, Len(forge.list))
            steady == \A s \in seen[f] : s.ver = forge.ver
        IN  /\ field[f].op = "list" /\ (forge.links \/ forge.max >= PAGE_SIZE) =>
                 /\ steady => told = forge.list
                 /\ ~forge.taken /\ (\A s \in seen[f] : s.ver >= local[f].began)
                      => {local[f].first[i] : i \in DOMAIN local[f].first} \subseteq {told[i] : i \in DOMAIN told}
            /\ field[f].op = "runs" /\ steady /\ (~forge.hidden \/ forge.max >= PAGE_SIZE)
                 => told = SubSeq(forge.list, field[f].start + 1, end)
      ]_vars

\* Every resolver of an open request is answered, though the forge never answer:
\* by its deadline, and those that wait for a cell by whoever fills it.
RequestEnds == \A f \in Fields : rq[Of(f)].phase = "open" ~> answer[f] # None

(***************************************************************************)
(* What makes ReadsSound and IdentityFresh inductive                       *)
(***************************************************************************)

\* A resolver at work, and one with a read under way.
Active(f) == pc[f] # "ready" /\ answer[f] = None
Fetching(f) == Active(f) /\ io[f] \in {"sent", "back"} /\ Call(f).how = "memo"

\* Mutations are at work alone, and a query writes nothing.
InTurn(f) ==
    /\ IF pc[f] = "ready" THEN io[f] = "idle" ELSE \A g \in field[f].after : answer[g] # None
    /\ field[f].op \in Queries => pc[f] \in {"ready", "read", "page", "settings", "window"}

\* Whoever reads holds the cell of what he reads.
Holds(f) ==
    Fetching(f) => Call(f).key \in DOMAIN memo[Of(f)] /\ memo[Of(f)][Call(f).key].by = f

\* What was told since the request's last write is still in its cell.
Told(f) ==
    \A s \in seen[f] :
        LET r == Of(f)
        IN  /\ s.epoch \in Nat /\ s.epoch <= rq[r].epoch /\ s.ver >= s.floor
            /\ s.epoch = rq[r].epoch =>
                 /\ s.key \in DOMAIN memo[r] /\ memo[r][s.key].by = None
                 /\ memo[r][s.key].reply.ver = s.ver /\ memo[r][s.key].reply.status = s.status

\* What has come of a reply; one refused for its size is still too large.
Weighed(rep, left) ==
    /\ DOMAIN rep = DOMAIN NoReply
    /\ rep.size \in Nat /\ rep.body \in Nat /\ rep.body <= rep.size
    /\ rep.status = "too_large" => rep.size > MAX_RESPONSE \/ rep.size - rep.body > left

\* A filled cell is no older than that write, and so is a reply on its way.
Filled(r) ==
    \A k \in DOMAIN memo[r] : memo[r][k].by = None =>
        LET rep == memo[r][k].reply
        IN  /\ rep.ver \in Nat /\ rep.ver >= rq[r].wrote /\ rep.ver <= forge.ver /\ rep.write \in BOOLEAN
            /\ Weighed(rep, rq[r].left)
Replied(f) ==
    /\ reply[f].ver \in Nat /\ reply[f].ver <= forge.ver /\ reply[f].write \in BOOLEAN
    /\ Active(f) /\ io[f] = "back" => reply[f].ver >= rq[Of(f)].wrote
    /\ Weighed(reply[f], rq[Of(f)].left)

\* The budget is whole until the request is open.
Spent(r) ==
    /\ rq[r].left + rq[r].drawn = Budget /\ rq[r].wrote <= forge.ver
    /\ rq[r].phase \in {"new", "asking", "told"} => rq[r].left = Budget

\* A call on whose budget an identity is read began at most Deadline ago; a cached
\* identity was read on one.
Known(t, user, since) == \E e \in past : e[1] = t /\ e[2] = user /\ e[3] >= since
Identities ==
    /\ \A t \in Tokens :
         /\ <<t, user_of[t], clock>> \in past
         /\ sessions[t].user # None =>
              /\ sessions[t].at <= clock
              /\ Known(t, sessions[t].user, sessions[t].at - (Deadline - 1))
    /\ \A r \in Requests :
         /\ rq[r].phase = "asking" => rq[r].deadline <= clock + Deadline
         /\ rq[r].phase = "told" /\ rq[r].viewer # None =>
              Known(rq[r].token, rq[r].viewer, rq[r].deadline - Deadline)

\* A resolver's steps.
Steps == {"repo", "subject", "pull", "base", "patch", "look", "page", "settings", "read", "window",
          "create", "create_issue", "allow", "comment", "title", "delete"}
Shapes ==
    /\ clock \in Nat /\ past \subseteq Tokens \X (Users \union {None}) \X Nat
    /\ user_of \in [Tokens -> Users \union {None}]
    /\ sessions \in [Tokens -> [user: Users \union {None}, at: Nat]]
    /\ rq \in [Requests -> [token: Tokens, phase: {"new", "asking", "told", "open", "refused"},
                             viewer: Users \union {None}, opened: Nat, deadline: Nat, left: Nat,
                             drawn: Nat, epoch: Nat, wrote: Nat]]
    /\ field \in [Fields -> Jobs] /\ forge.ver \in Nat /\ "ver" \in DOMAIN forge
    /\ DOMAIN memo = Requests /\ pc \in [Fields -> {"ready"} \union Steps]
    /\ io \in [Fields -> {"idle", "sent", "back", "done"}]
    /\ answer \in [Fields -> Ends \union {None}]
    /\ DOMAIN reply = Fields /\ DOMAIN seen = Fields /\ DOMAIN local = Fields

\* One cell per key and epoch, and one answer.
AsOne ==
    \A f, g \in Fields : Of(f) = Of(g) =>
      \A a \in seen[f], b \in seen[g] :
        a.key = b.key /\ a.epoch = b.epoch => a.ver = b.ver /\ a.status = b.status

IInv ==
    /\ Shapes /\ Document /\ Identities /\ IdentityFresh /\ AsOne
    /\ \A f \in Fields : InTurn(f) /\ Holds(f) /\ Told(f) /\ Replied(f)
    /\ \A r \in Requests : Filled(r) /\ Spent(r)

(***************************************************************************)
(* What makes EditsHonest inductive                                        *)
(***************************************************************************)

\* The steps of each mutation.
Path(op) ==
    CASE op = "create_issue" -> {"repo", "create_issue"}
      [] op = "create_pull" -> {"repo", "create", "allow"}
      [] op = "comment" -> {"subject", "comment"}
      [] op = "update" -> {"pull", "base", "patch"}
      [] op = "state" -> {"patch"}
      [] op \in {"draft", "ready"} -> {"pull", "title"}
      [] op = "delete" -> {"look", "delete"}
      [] OTHER -> {"read", "page", "settings", "window"}

Back(f) == io[f] \in {"back", "done"}
\* What the reply of a write says of what the write is to leave.
Tells(f, there) ==
    IF Back(f) THEN /\ reply[f].status = "ok" => there
                    /\ reply[f].status \notin {"ok", "lost", "too_large"} => ~there
    ELSE ~there

\* A creation leaves what it made, a comment its note.
Leaves(f) ==
    LET made == f \in forge.made
    IN  /\ pc[f] \in {"ready", "repo"} => ~made
        /\ Active(f) /\ pc[f] \in {"create", "create_issue"} => Tells(f, made)
        /\ pc[f] = "allow" => made
        /\ Active(f) /\ pc[f] = "comment" =>
             /\ (field[f].key = "issue") = forge.issue
             /\ Back(f) /\ reply[f].status = "ok" => f \in forge.noted

\* A number is an issue's or a pull request's for good, and a reply says which.
Kind(key, rep) == rep.status = "ok" => /\ key = Key("pull") => ~forge.issue
                                       /\ key = Key("issue") => forge.issue
KindsTrue ==
    /\ \A r \in Requests : \A k \in DOMAIN memo[r] : memo[r][k].by = None => Kind(k, memo[r][k].reply)
    /\ \A f \in Fields : Active(f) /\ Back(f) /\ Call(f).how = "memo" => Kind(Call(f).key, reply[f])

\* "Not found" is Forgejo's word.
Looks(f) ==
    Active(f) /\ pc[f] = "look" /\ Back(f) /\ reply[f].status = "not_found"
        => "branch" \notin reply[f].was.branches

\* A mutation has what it was told from its cell, and keeps what an edit rests on
\* until the edit is answered.
Noted(f, key) == \E s \in seen[f] : s.key = key /\ s.status = "ok" /\ s.epoch = rq[Of(f)].epoch
Fetched(f) ==
    LET r == Of(f)  key == Call(f).key
    IN  Active(f) /\ Call(f).how = "memo" /\ io[f] = "done" /\ field[f].op \notin Queries =>
            /\ key \in DOMAIN memo[r] /\ memo[r][key].reply = reply[f]
            /\ reply[f].status = "ok" => Noted(f, key)
Rests(f) ==
    LET base == local[f].change.base
    IN  Active(f) /\ io[f] \in {"idle", "sent"} =>
            /\ pc[f] = "title" => Noted(f, Key("pull"))
            /\ pc[f] = "patch" /\ base # None /\ base # PullRead(f).base /\ PullRead(f).state # "merged"
                 => Noted(f, Key(base))
\* A branch looked for is the new base.
Based(f) == pc[f] = "base" => local[f].change.base = field[f].base /\ field[f].base # None

Honest(f) ==
    /\ DOMAIN local[f] = DOMAIN NoLocal
    /\ pc[f] # "ready" => pc[f] \in Path(field[f].op)
    /\ Leaves(f) /\ Looks(f) /\ Fetched(f) /\ Rests(f) /\ Based(f)
HonestInv ==
    /\ {"ver", "issue", "made", "noted", "branches", "pull"} \subseteq DOMAIN forge
    /\ forge.issue \in BOOLEAN /\ Commentable /\ KindsTrue /\ \A f \in Fields : Honest(f)
=============================================================================
