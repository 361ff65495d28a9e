----------------------------- MODULE MCBuiltIn -----------------------------
(* Families: every command once; the writes and checkouts among others'    *)
(* changes; the checks of one or two statuses, with every state and note,  *)
(* and their pages while one more is posted.  And, apart from these, the   *)
(* words of a call, typed one by one.                                      *)
EXTENDS BuiltIn, Words

CONSTANTS b1, b2, s1, s2, s3, c1, c2, l1, l2, i1, i2

MCContexts == {c1, c2}
MCJobs == {c2}
MCBranches == {b1, b2}
MCShas == {s1, s2, s3}
MCLabels == {l1, l2, i1, i2}
MCIds == {i1, i2}

Call == [cmd |-> "pr_checks", ok |-> TRUE, token |-> TRUE, number |-> 0, branch |-> None,
         state |-> "open", limit |-> 2, here |-> TRUE, local |-> None, labels |-> {}, flags |-> {}]
With(cmd, flags) == {[Call EXCEPT !.cmd = cmd, !.flags = f] : f \in flags}

Pull(n, b, sha, fork) == [n |-> n, head |-> b, sha |-> sha, state |-> "open", fork |-> fork]
NoRule == [on |-> FALSE, patterns |-> {}]
OneRepo == [pulls |-> <<Pull(2, b2, s2, TRUE), Pull(1, b1, s1, FALSE)>>,
         statuses |-> [s \in Shas |-> <<>>], branches |-> [b \in Branches |-> IF b = b1 THEN s1 ELSE None],
         rule |-> NoRule, labels |-> {[id |-> i1, name |-> l1], [id |-> i2, name |-> l2]}, pages |-> TRUE, elsewhere |-> s3]
Checkout1 == [on |-> b1, at |-> s1, fetched |-> None,
              heads |-> [b \in Branches |-> IF b = b1 THEN s1 ELSE None]]

\* Every command, in its forms, once with a missing token and once refused by its parser.
Forms ==
    With("auth_status", {{}}) \union With("api", {{}}) \union With("repo_view", {{}})
    \union {[c EXCEPT !.number = n] : c \in With("issue_view", {{}}), n \in {0, 1}}
    \union With("issue_list", {{}, {"web"}})
    \union {[c EXCEPT !.labels = ls] : c \in With("issue_create", {{}, {"title"}, {"title", "web"}}),
                                       ls \in {{}, {l1}, {i1}}}
    \union With("pr_create", {{}, {"fill"}, {"title", "web"}})
    \union {[c EXCEPT !.state = s, !.branch = b] : c \in With("pr_list", {{}, {"rollup"}}),
                                                   s \in {"open", "merged", "all"}, b \in {None, b1}}
    \union {[c EXCEPT !.number = n, !.branch = b] :
              c \in With("pr_diff", {{}, {"web"}, {"name_only"}}) \union With("pr_status", {{}, {"rollup"}})
                      \union With("pr_view", {{"rollup"}}) \union With("pr_comment", {{}, {"web"}}),
              n \in {0, 1, 3}, b \in {None, b2}}
FormsInit ==
    /\ call \in Forms \union {[c EXCEPT !.token = FALSE] : c \in Forms}
                     \union {[c EXCEPT !.ok = FALSE] : c \in Forms}
    /\ forge = OneRepo /\ git \in {Checkout1, [Checkout1 EXCEPT !.on = None]}
    /\ others \in {0, MaxOthers}

\* Others change the repository and the checkout under the writes and checkouts.
ChangesInit ==
    /\ call \in {[c EXCEPT !.number = n] : c \in With("pr_comment", {{"body"}}), n \in {0, 1}}
             \union {[c EXCEPT !.branch = b] : c \in With("pr_create", {{"title"}}), b \in {None, b2}}
             \union {[c EXCEPT !.labels = ls] : c \in With("issue_create", {{"title"}}),
                                                ls \in SUBSET Labels}
             \union {[c EXCEPT !.number = n, !.local = b, !.here = h] :
                        c \in With("pr_checkout", {{}, {"force"}, {"detach"}, {"recurse"}}),
                        n \in {0, 2}, b \in {None, b1, b2}, h \in BOOLEAN}
    /\ forge = OneRepo /\ git \in {Checkout1, [Checkout1 EXCEPT !.heads[b2] = s3]}
    /\ others = 0

OfService == {<<c1, s, "none">> : s \in CommitStates}
OfJob == {<<c2, "pending", n>> : n \in {"none", "waiting", "blocked"}}
         \union {<<c2, "success", n>> : n \in {"none", "skipped"}}
         \union {<<c2, "failure", n>> : n \in {"none", "cancelled"}}
         \union {<<c2, "error", "none">>, <<c2, "warning", "none">>}
Status(t, at, id) == [context |-> t[1], state |-> t[2], note |-> t[3], time |-> at, id |-> id]
Rules == {NoRule} \union {[on |-> TRUE, patterns |-> p] : p \in {{}, {{c1}}, {{c2}}, {{c1, c2}}, {{c1}, {}}}}
ChecksRepo(list, rule, pages) ==
    [OneRepo EXCEPT !.pulls = <<Pull(1, b1, s1, FALSE)>>, !.statuses[s1] = list, !.rule = rule, !.pages = pages]

VerdictsInit ==
    /\ call \in With("pr_checks", {{}, {"required"}})
    /\ \E t \in OfService \union OfJob, u \in OfService \union OfJob, at \in {1, 2}, rule \in Rules :
          forge = ChecksRepo(<<Status(t, at, 2), Status(u, 1, 1)>>, rule, TRUE)
    /\ git = Checkout1 /\ others = MaxOthers

\* One more status comes while the pages are read; some servers know no pages.
PagesInit ==
    /\ call \in With("pr_checks", {{}, {"required"}, {"json"}})
    /\ \E s \in {"success", "failure", "pending"}, pages \in BOOLEAN,
          list \in {<<>>, <<Status(<<c2, "success", "none">>, 2, 2)>>} :
          forge = ChecksRepo(list \o <<Status(<<c1, s, "none">>, 1, 1)>>,
                             [on |-> TRUE, patterns |-> {{c1}}], pages)
    /\ git = Checkout1 /\ others = 0

NoChecksInit ==
    /\ call \in With("pr_checks", {{}, {"json"}})
    /\ forge \in {ChecksRepo(<<>>, NoRule, TRUE), [OneRepo EXCEPT !.pulls = <<Pull(1, b1, None, FALSE)>>]}
    /\ git = Checkout1 /\ others = MaxOthers

Families == FormsInit \/ ChangesInit \/ VerdictsInit \/ PagesInit \/ NoChecksInit

(***************************************************************************)
(* Words: each command with up to three of its flags, in each spelling,    *)
(* and arguments; and the words that name a command in any order.          *)
(***************************************************************************)

Named == {<<Plain("api")>>, <<Plain("repo"), Plain("view")>>}
         \union {<<Plain("auth"), Plain(v)>> : v \in {"status", "token"}}
         \union {<<Plain("issue"), Plain(v)>> : v \in {"list", "view", "create"}}
         \union {<<Plain("pr"), Plain(v)>> : v \in Subcommands.pr}
Spelled(f) == {Long(f.long)} \union (IF f.short = "" THEN {} ELSE {Short(<<f.short>>)})
              \union (IF f.value = "" THEN {LongEq(f.long, "false")} ELSE {})
FlagWords(c) == UNION {Spelled(f) : f \in Grammar[c]}
                \union {Plain("user"), Plain("5"), Plain("fields"), Long("bogus"), End}
Loose == {Plain("pr"), Plain("repo"), Plain("view"), Plain("new"), Plain("diff"), Long("repo"),
          LongEq("repo", "x"), Long("web"), Short(<<"w">>), Short(<<"w", "R">>), Short(<<"R">>),
          Short(<<"b">>), Short(<<"b", "x">>), End}
Starts(ws) == {n \in Named : Len(n) <= Len(ws) /\ SubSeq(ws, 1, Len(n)) = n}

WordsInit ==
    /\ words \in Named \union {<<w>> : w \in Loose}
    /\ call = [Call EXCEPT !.ok = FALSE] /\ forge = OneRepo /\ git = Checkout1 /\ others = MaxOthers

Type ==
    /\ IF Starts(words) # {}
       THEN LET n == CHOOSE n \in Starts(words) : TRUE
            IN  TypeWord(FlagWords(Discover(n, 1, "", {}).command), Len(n) + 3)
       ELSE TypeWord(Loose, 4)
    /\ UNCHANGED vars

MCInit == (WordsInit \/ (Families /\ words = <<>>)) /\ Init
MCNext == \/ words = <<>> /\ Next /\ UNCHANGED words
          \/ words # <<>> /\ Type

MCSpec == MCInit /\ [][MCNext]_<<vars, words>>
=============================================================================
