------------------------------ MODULE Listing ------------------------------
(***************************************************************************)
(* gh's lists of issues and pull requests: a search (search::Search,       *)
(* graphql::search) or a list with filters (issues::list, Repository::     *)
(* pull_requests).  Forgejo filters by some of it, in two reads of its own *)
(* lists, and the gateway by the rest.  A search is a sequence of terms.   *)
(***************************************************************************)
EXTENDS Naturals, Sequences, FiniteSets, SequencesExt

CONSTANTS
    Absent,
    Asks,      \* what gh may ask: [op, terms]
    Items,     \* the issues and pull requests a repository may hold
    Viewer,    \* whom "@me" names
    Split,     \* what a head filter names: [owner, branch], with no owner when it has no colon
    Known      \* the labels the repository has

\* Absent stands for no value, so nothing given has it; a list has some states to show.
ASSUME ListAssumption ==
    /\ Viewer # Absent
    /\ \A a \in Asks :
          IF a.op = "search"
          THEN /\ a.terms \in Seq(Range(a.terms))
               /\ \A t \in Range(a.terms) : t = [key |-> t.key, value |-> t.value] /\ t.value # Absent
          ELSE a.op \in {"issues", "pulls"} /\ IsFiniteSet(a.states)

VARIABLES
    ask,
    pc,        \* "parse", "pulls", "issues" or "list"; "done" or "refused"
    query,     \* what the terms were read as
    items,     \* the repository's items
    were,      \* the items as each read found them
    left,      \* the numbers left of Forgejo's list of pull requests
    answered   \* the numbers answered

listVars == <<ask, pc, query, items, were, left, answered>>

Term(key, value) == [key |-> key, value |-> value]

(***************************************************************************)
(* Search::parse                                                           *)
(***************************************************************************)

NoQuery == [repo |-> Absent, kind |-> Absent, state |-> "all", author |-> Absent, assignee |-> Absent,
            mention |-> Absent, labels |-> {}, words |-> {}, base |-> Absent, head |-> Absent,
            reviewer |-> Absent, title |-> FALSE, sort |-> Absent, depth |-> 0, bad |-> FALSE]

Login(value) == IF value = "@me" THEN Viewer ELSE value
Once(q, field, value) == IF q[field] = Absent THEN [q EXCEPT ![field] = value] ELSE [q EXCEPT !.bad = TRUE]

\* Mutant: what is not handled is left out.
ReadTerm_Lenient(q, t) ==
    CASE t.key = "repo" -> [q EXCEPT !.repo = t.value]
      [] t.key = "type" -> [q EXCEPT !.kind = t.value, !.bad = @ \/ q.kind \notin {Absent, t.value}]
      [] t.key = "state" -> [q EXCEPT !.state = t.value]
      [] t.key \in {"author", "assignee"} -> Once(q, t.key, Login(t.value))
      [] t.key = "review-requested" -> Once(q, "reviewer", Login(t.value))
      [] t.key = "label" -> [q EXCEPT !.labels = @ \union {t.value}]
      [] t.key \in {"head", "base"} -> Once(q, t.key, t.value)
      [] t.key = "in" -> [q EXCEPT !.title = TRUE]
      [] t.key \in {"word", "quoted"} -> [q EXCEPT !.words = @ \union {t.value}]
      [] t.key = "sort" -> Once(q, "sort", t.value)
      [] OTHER -> q

\* A term the gateway does not handle makes the search fail, as does a second repository,
\* author or order, or another type or state.
ReadTerm(q, t) ==
    CASE t.key = "repo" -> Once(q, "repo", t.value)
      [] t.key = "type" /\ t.value \in {"pr", "issue"} ->
            [q EXCEPT !.kind = t.value, !.bad = @ \/ q.kind \notin {Absent, t.value}]
      [] t.key = "state" /\ t.value \in {"open", "closed", "merged"} ->
            [q EXCEPT !.state = t.value, !.bad = @ \/ q.state \notin {"all", t.value}]
      [] t.key \in {"author", "assignee"} -> Once(q, t.key, Login(t.value))
      [] t.key = "review-requested" -> Once(q, "reviewer", Login(t.value))
      [] t.key = "label" -> [q EXCEPT !.labels = @ \union {t.value}]
      [] t.key \in {"head", "base"} -> Once(q, t.key, t.value)
      [] t.key = "in" /\ t.value = "title" -> [q EXCEPT !.title = TRUE]
      [] t.key = "sort" /\ t.value \in {"created-desc", "updated-asc"} -> Once(q, "sort", t.value)
      [] t.key \in {"word", "quoted"} -> [q EXCEPT !.words = @ \union {t.value}]
      [] t.key = "open" -> [q EXCEPT !.depth = @ + 1]
      [] t.key = "close" -> IF q.depth > 0 THEN [q EXCEPT !.depth = @ - 1] ELSE [q EXCEPT !.bad = TRUE]
      [] OTHER -> [q EXCEPT !.bad = TRUE]

Read(terms) ==
    LET read[n \in 0..Len(terms)] == IF n = 0 THEN NoQuery ELSE ReadTerm(read[n - 1], terms[n])
    IN  read[Len(terms)]

\* A bad term is the end; pull requests are meant when a reviewer is named.
Accepted(q) ==
    /\ ~q.bad /\ q.depth = 0 /\ q.repo # Absent
    /\ q.kind # Absent \/ q.reviewer # Absent
    /\ q.kind = "issue" => q.head = Absent /\ q.base = Absent /\ q.reviewer = Absent /\ q.state # "merged"

Order(q) == IF q.sort # Absent THEN q.sort ELSE IF q.words # {} THEN "relevance" ELSE "created-desc"

(***************************************************************************)
(* Forgejo's two lists                                                     *)
(***************************************************************************)

Upstream(state) == IF state = "merged" THEN "closed" ELSE state
InState(i, state) == state = "all" \/ (IF i.state = "merged" THEN "closed" ELSE i.state) = state

\* Branch::matches: a branch by its name, in the fork of an owner if one is given.
FromHead(i, filter) ==
    LET named == Split[filter]
    IN  i.branch = named.branch /\ (named.owner # Absent => i.fork # Absent /\ i.fork = named.owner)

\* Forgejo's filters, then the head's, which the gateway does once it has every page.
PullList(q) ==
    {n \in DOMAIN items : LET i == items[n] IN
        /\ i.kind = "pr" /\ InState(i, Upstream(q.state))
        /\ q.author # Absent => i.author = q.author
        /\ q.head # Absent => FromHead(i, q.head)}

\* Labels the repository does not have are passed over; a keyword may be anywhere.
IssueList(q) ==
    {n \in DOMAIN items : LET i == items[n] IN
        /\ i.kind = (IF q.kind = "issue" THEN "issue" ELSE "pr") /\ InState(i, Upstream(q.state))
        /\ q.author # Absent => i.author = q.author
        /\ q.assignee # Absent => i.assignee = q.assignee
        /\ q.mention # Absent => q.mention \in i.mentions
        /\ (q.labels \intersect Known) \subseteq i.labels
        /\ q.words \subseteq i.title \union i.body}

(***************************************************************************)
(* graphql::search, issues::list, Repository::pull_requests                *)
(***************************************************************************)

MatchesPull(i, q) ==
    /\ q.state = "all" \/ i.state = q.state \/ (q.state = "closed" /\ i.state = "merged")
    /\ q.base # Absent => i.base = q.base
    /\ q.reviewer # Absent => q.reviewer \in i.asked

NeedsIssues(q) ==
    q.kind = "issue" \/ q.labels # {} \/ q.words # {} \/ q.title \/ q.assignee # Absent
    \/ q.mention # Absent \/ Order(q) # "created-desc"

LabelsAndTitle(i, q) == q.labels \subseteq i.labels /\ (q.title => q.words \subseteq i.title)

Parse ==
    /\ pc = "parse"
    /\ query' = Read(ask.terms)
    /\ pc' = IF ~Accepted(query') THEN "refused" ELSE IF query'.kind = "issue" THEN "issues" ELSE "pulls"
    /\ UNCHANGED <<ask, items, were, left, answered>>

ReadPulls ==
    /\ pc = "pulls"
    /\ left' = {n \in PullList(query) : MatchesPull(items[n], query)}
    /\ were' = were \union {items}
    /\ IF NeedsIssues(query) THEN pc' = "issues" /\ UNCHANGED answered ELSE pc' = "done" /\ answered' = left'
    /\ UNCHANGED <<ask, query, items>>

ReadIssues ==
    /\ pc = "issues"
    /\ LET all == {n \in IssueList(query) : LabelsAndTitle(items[n], query)}
       IN  answered' = IF query.kind = "issue" THEN all ELSE all \intersect left
    /\ were' = were \union {items} /\ pc' = "done"
    /\ UNCHANGED <<ask, query, items, left>>

\* A list is filtered as one state of issues, or any of the pull requests' states.
ListIssues ==
    /\ pc = "list" /\ ask.op = "issues"
    /\ LET q == [NoQuery EXCEPT !.kind = "issue", !.author = ask.author, !.assignee = ask.assignee,
                                !.mention = ask.mention, !.labels = ask.labels,
                                !.state = IF Cardinality(ask.states) = 1 THEN CHOOSE s \in ask.states : TRUE ELSE "all"]
       IN  answered' = {n \in IssueList(q) : items[n].state \in ask.states /\ LabelsAndTitle(items[n], q)}
    /\ were' = {items} /\ pc' = "done" /\ UNCHANGED <<ask, query, items, left>>

ListPulls ==
    /\ pc = "list" /\ ask.op = "pulls"
    /\ answered' = {n \in PullList([NoQuery EXCEPT !.head = ask.head]) :
                       items[n].state \in ask.states /\ (ask.base # Absent => items[n].base = ask.base)}
    /\ were' = {items} /\ pc' = "done" /\ UNCHANGED <<ask, query, items, left>>

\* Meanwhile people close, merge, label and ask.
Change ==
    /\ pc = "issues" /\ were = {items}
    /\ \E n \in DOMAIN items, field \in {"state", "labels", "asked"}, i \in Items :
          /\ i # items[n] /\ i = [items[n] EXCEPT ![field] = i[field]]
          /\ items[n].state # "merged"
          /\ items' = [items EXCEPT ![n] = i]
    /\ UNCHANGED <<ask, pc, query, were, left, answered>>

ListInit ==
    /\ ask \in Asks /\ pc = (IF ask.op = "search" THEN "parse" ELSE "list")
    /\ query = NoQuery /\ \E i \in Items : items = <<i>>
    /\ were = {} /\ left = {} /\ answered = {}
ListNext == Parse \/ ReadPulls \/ ReadIssues \/ ListIssues \/ ListPulls \/ Change
ListSpec == ListInit /\ [][ListNext]_listVars

(***************************************************************************)
(* Properties                                                              *)
(***************************************************************************)

\* Whether a pull request is of a branch, "owner:branch" saying whose.
ComesFrom(i, filter) ==
    Split[filter].branch = i.branch /\ Split[filter].owner \in {Absent, i.fork}

\* What a term of GitHub's search says of an item; one that has no meaning for the
\* gateway matches nothing.
Means(t, i) ==
    CASE t.key \in {"open", "close"} -> TRUE
      [] t.key = "repo" -> t.value = query.repo
      [] t.key = "type" -> i.kind = t.value
      [] t.key = "state" -> i.state = t.value \/ (t.value = "closed" /\ i.state = "merged")
      [] t.key = "author" -> i.author = Login(t.value)
      [] t.key = "assignee" -> i.assignee = Login(t.value)
      [] t.key = "review-requested" -> i.kind = "pr" /\ Login(t.value) \in i.asked
      [] t.key = "label" -> t.value \in i.labels
      [] t.key = "base" -> i.kind = "pr" /\ i.base = t.value
      [] t.key = "head" -> i.kind = "pr" /\ ComesFrom(i, t.value)
      [] t.key = "in" -> t.value = "title"
      [] t.key = "sort" -> t.value # "reactions"
      [] t.key \in {"word", "quoted"} ->
            t.value \in i.title \/ (t.value \in i.body
                                    /\ \A k \in DOMAIN ask.terms : ask.terms[k] # Term("in", "title"))
      [] OTHER -> FALSE

Meant(t) == {n \in DOMAIN items : \E w \in were : Means(t, w[n])}

\* A search that is answered answers all of it: an item found met each term while it was
\* read, and one that met them all throughout is found; a list likewise its filters
\* (search, Search::parse, issues::list, pull_requests).
SearchMeansIt ==
    pc = "done" =>
        IF ask.op = "search"
        THEN /\ \A k \in DOMAIN ask.terms : answered \subseteq Meant(ask.terms[k])
             /\ \A n \in DOMAIN items :
                   (\A w \in were, k \in DOMAIN ask.terms : Means(ask.terms[k], w[n])) => n \in answered
        ELSE \A n \in DOMAIN items :
                n \in answered <=>
                    LET i == items[n]
                    IN  /\ i.state \in ask.states /\ i.kind = (IF ask.op = "issues" THEN "issue" ELSE "pr")
                        /\ ask.op = "issues" => /\ ask.author \in {Absent, i.author} /\ ask.labels \subseteq i.labels
                                                /\ ask.assignee \in {Absent, i.assignee}
                                                /\ ask.mention \in {Absent} \union i.mentions
                        /\ ask.op = "pulls" => /\ ask.base \in {Absent, i.base}
                                               /\ ask.head # Absent => ComesFrom(i, ask.head)
=============================================================================
