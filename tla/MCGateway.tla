----------------------------- MODULE MCGateway -----------------------------
(* Families of requests: two resolvers of a query that read the same, or   *)
(* near the end of the budget; three, one of which fails; the mutations of *)
(* a document, one after the other; lists and windows of runs of every     *)
(* small length; and three requests with two tokens at a cache of one.     *)
EXTENDS PullEdits

CONSTANTS r1, r2, r3, f1, f2, f3, t1, t2, u1, u2, i1, i2, i3

Job == [op |-> "read", of |-> r1, after |-> {}, key |-> "pull", title |-> None, state |-> None,
        base |-> None, prefix |-> "both", draft |-> FALSE, fork |-> FALSE, same |-> TRUE,
        start |-> 0, limit |-> 1, sizes |-> {1}]
Title(marks, text) == [marks |-> marks, text |-> text]
Repo == [ver |-> 0, archived |-> FALSE, issue |-> FALSE, branches |-> {"base", "branch", "main"},
         list |-> <<>>, max |-> PAGE_SIZE, links |-> TRUE, hidden |-> FALSE, taken |-> FALSE,
         unseen |-> FALSE, made |-> {}, noted |-> {}, allowed |-> FALSE,
         pull |-> [title |-> Title(<<>>, "ours"), state |-> "open", base |-> "main", mergeable |-> TRUE]]

\* The first n items.
Taken(n) == SubSeq(<<i1, i2, i3>>, 1, n)

\* The jobs of the first two, which the third does not join.
Jobs2(a, b) == [f \in Fields |-> IF f = f1 THEN a ELSE IF f = f2 THEN b ELSE Job]
Ordered(a, b) == [Jobs2(a, [b EXCEPT !.after = {f1}]) EXCEPT ![f3].of = r2]
Both(a, b) == [f \in Fields |-> IF f = f1 THEN a ELSE IF f = f2 THEN b ELSE "done"]

\* r1 is open, the others have been refused; the clock has room for its deadline.
OneOpen(spent) ==
    /\ clock = MaxTime - Deadline
    /\ rq = [r \in Requests |->
                [token |-> t1, phase |-> IF r = r1 THEN "open" ELSE "refused",
                 viewer |-> IF r = r1 THEN u1 ELSE None, opened |-> clock, deadline |-> MaxTime,
                 left |-> Budget - spent, drawn |-> spent, epoch |-> 0, wrote |-> 0]]

QueryInit ==
    /\ OneOpen(1)
    /\ forge \in {[Repo EXCEPT !.pull.mergeable = m] : m \in BOOLEAN}
    /\ \E k \in {"pull", "issue"}, l \in {"pull", "repo"} :
          field = Jobs2([Job EXCEPT !.key = k], [Job EXCEPT !.key = l])
    /\ answer = Both(None, None) /\ others = 0 /\ lost = 0

\* Replies of the cap of two parts, or past it, with two parts or three left.
SizesInit ==
    /\ \E left \in {2, 3} : OneOpen(Budget - left)
    /\ forge \in {[Repo EXCEPT !.pull.mergeable = m] : m \in BOOLEAN}
    /\ \E l \in {"pull", "repo"} :
          field = Jobs2([Job EXCEPT !.sizes = {2, 3}], [Job EXCEPT !.key = l, !.sizes = {0, 2}])
    /\ answer = Both(None, None) /\ others = MaxOthers /\ lost \in {0, MaxLost}

\* One resolver fails, and the two others read one thing.
SiblingInit ==
    /\ OneOpen(1) /\ forge = Repo
    /\ field = Jobs2([Job EXCEPT !.key = "issue"], Job)
    /\ answer = [f \in Fields |-> None] /\ others = MaxOthers /\ lost \in {0, MaxLost}

Mutations ==
    LET with(op) == [Job EXCEPT !.op = op]
    IN  {with("create_issue"), [with("create_issue") EXCEPT !.same = FALSE], with("create_pull"),
         [with("create_pull") EXCEPT !.draft = TRUE, !.prefix = None],
         [with("create_pull") EXCEPT !.fork = TRUE], with("comment"), [with("comment") EXCEPT !.key = "issue"],
         [with("update") EXCEPT !.title = Title(<<>>, "new"), !.base = "base"],
         [with("update") EXCEPT !.title = Title(<<>>, "new"), !.prefix = None],
         [with("state") EXCEPT !.state = "closed"], with("draft"), [with("draft") EXCEPT !.prefix = "gateway"],
         [with("draft") EXCEPT !.prefix = None], with("ready"), with("delete")}
Seconds == {m \in Mutations : m.fork \/ m.base # None
                                \/ (m.op \in {"draft", "ready", "delete"} /\ m.prefix = "both")}
MutationInit ==
    /\ OneOpen(0)
    /\ forge \in {Repo, [Repo EXCEPT !.issue = TRUE], [Repo EXCEPT !.unseen = TRUE],
                  [Repo EXCEPT !.branches = {"main"}], [Repo EXCEPT !.pull.state = "merged"],
                  [Repo EXCEPT !.pull.title.marks = <<"both">>, !.archived = TRUE],
                  [Repo EXCEPT !.pull.title.marks = <<"both", "gateway">>],
                  [Repo EXCEPT !.pull.title.marks = <<"forgejo">>]}
    /\ \/ \E a, b \in Seconds : field = Ordered(a, b) /\ answer = Both(None, None)
       \/ \E a \in Mutations : field = Ordered(a, Job) /\ answer = Both(None, "done")
    /\ others \in {0, 1} /\ lost = 1 - others

ListInit ==
    /\ OneOpen(0)
    /\ \E n \in 0..Cardinality(Items), max \in 1..PAGE_SIZE + 1, links \in BOOLEAN :
          forge = [Repo EXCEPT !.list = Taken(n), !.max = max, !.links = links]
    /\ field = Jobs2([Job EXCEPT !.op = "list"], Job) /\ answer = Both(None, "done")
    /\ others = 0 /\ lost \in {0, MaxLost}

WindowInit ==
    /\ OneOpen(0)
    /\ \E n \in 0..Cardinality(Items), max \in 1..PAGE_SIZE + 1, hidden \in BOOLEAN :
          forge = [Repo EXCEPT !.list = Taken(n), !.max = max, !.hidden = hidden]
    /\ \E s \in {0, 1, 3}, l \in {1, 2} :
          field = Ordered([Job EXCEPT !.op = "runs", !.start = s, !.limit = l],
                          [Job EXCEPT !.op = "runs", !.start = 1])
    /\ answer = Both(None, None)
    /\ others = MaxOthers /\ lost = MaxLost

IdentityInit ==
    /\ clock = 0 /\ forge = Repo
    /\ rq \in [Requests -> {[token |-> t, phase |-> "new", viewer |-> None, opened |-> 0, deadline |-> 0,
                             left |-> Budget, drawn |-> 0, epoch |-> 0, wrote |-> 0] : t \in Tokens}]
    /\ rq[r1].token = t1 /\ rq[r2].token = t2 /\ rq[r3].token = t1
    /\ field = Jobs2(Job, Job) /\ answer = Both("done", "done")
    /\ others = 0 /\ lost = MaxLost

MCInit ==
    /\ QueryInit \/ SizesInit \/ SiblingInit \/ MutationInit \/ ListInit \/ WindowInit \/ IdentityInit
    /\ user_of = [t \in Tokens |-> u1]
    /\ past = {<<t, u1, clock>> : t \in Tokens}
    /\ sessions = [t \in Tokens |-> NoSession] /\ page_size = NoSize
    /\ memo = [r \in Requests |-> NoMemo]
    /\ pc = [f \in Fields |-> "ready"] /\ io = [f \in Fields |-> "idle"]
    /\ reply = [f \in Fields |-> NoReply] /\ local = [f \in Fields |-> NoLocal]
    /\ seen = [f \in Fields |-> {}]

MCSpec == MCInit /\ [][Next]_vars /\ Fairness
=============================================================================
