------------------------------ MODULE Threads ------------------------------
(***************************************************************************)
(* The conversations on a pull request, which GitHub calls review threads  *)
(* and Forgejo has no object for, and the pull requests that close an      *)
(* issue (graphql::threads, Session::closing_pulls).  The gateway makes    *)
(* both of flat lists; beside each list stands what people did.            *)
(***************************************************************************)
EXTENDS Integers, Sequences, FiniteSets, SequencesExt

CONSTANTS Nobody, People, Places, Pulls, MaxPosts

ASSUME ThreadsAssumption == Nobody \notin People /\ MaxPosts \in Nat

VARIABLES
    posts,      \* the code comments: [id, review, user, place, line, resolver]; a
                \* line of the old side is negative
    given,      \* the reviews: [id, user, state], in creation order
    talks,      \* the conversations, as sets of comment ids, and those resolved
    events,     \* the issue's timeline: [id, pull, action]
    says,       \* what each pull request's texts say, in order: [id, action]
    ends,       \* each pull request's state: "open", "closed" or "merged"
    last        \* the newest id

threadVars == <<posts, given, talks, events, says, ends, last>>

(***************************************************************************)
(* graphql::threads                                                        *)
(***************************************************************************)

\* listed: requests are no reviews, and a pending one is its author's.
Listed(r, viewer) == r.state # "REQUEST_REVIEW" /\ (r.state = "PENDING" => r.user = viewer)

\* A finite set as a sequence, by keys that differ.
Ordered(set, key) ==
    CHOOSE s \in [1..Cardinality(set) -> set] : \A i, j \in DOMAIN s : i < j => key[s[i]] < key[s[j]]

ById(set) == Ordered(set, [c \in set |-> c.id])

\* Mutant: both sides' lines are counted alike.
ThreadKey_Unsigned(c) == <<c.review, c.place, IF c.line < 0 THEN -c.line ELSE c.line>>

ThreadKey(c) == <<c.review, c.place, c.line>>

\* review_threads: a review's comments on one signed line of a file, the oldest first.
ReviewThreads(viewer) ==
    LET shown == {r.id : r \in {given[i] : i \in {i \in DOMAIN given : Listed(given[i], viewer)}}}
        comments == {c \in posts : c.review \in shown}
        threads == {ById({c \in comments : ThreadKey(c) = k}) : k \in {ThreadKey(c) : c \in comments}}
    IN  Ordered(threads, [t \in threads |-> t[1].id])

Resolved(thread) == \E i \in DOMAIN thread : thread[i].resolver # Nobody
DiffSide(thread) == IF thread[1].line < 0 THEN "left" ELSE "right"

(***************************************************************************)
(* closing_pulls                                                           *)
(***************************************************************************)

Deciding == {e \in {events[i] : i \in DOMAIN events} : e.action \in {"closes", "reopens"}}

\* Mutant: any keyword that closes.
ClosingPulls_Any(readable) ==
    {p \in {e.pull : e \in Deciding} \intersect readable :
        ends[p] # "closed" /\ \E e \in Deciding : e.pull = p /\ e.action = "closes"}

\* A pull request's newest reference decides; those the token cannot read are left out.
ClosingPulls(readable) ==
    {p \in {e.pull : e \in Deciding} \intersect readable :
        LET newest == CHOOSE e \in Deciding : e.pull = p /\ \A o \in Deciding : o.pull = p => o.id <= e.id
        IN  ends[p] # "closed" /\ newest.action = "closes"}

(***************************************************************************)
(* Forgejo                                                                 *)
(***************************************************************************)

ThreadInit ==
    /\ posts = {} /\ given = <<>> /\ talks = [all |-> {}, resolved |-> {}]
    /\ events = <<>> /\ says = [p \in Pulls |-> <<>>] /\ ends = [p \in Pulls |-> "open"] /\ last = 0

Posting == last < MaxPosts /\ last' = last + 1

GiveReview(u, state) ==
    /\ Posting /\ Len(given) < 2
    /\ given' = Append(given, [id |-> last, user |-> u, state |-> state])
    /\ UNCHANGED <<posts, talks, events, says, ends>>

Submit(i) ==
    /\ given[i].state = "PENDING" /\ given' = [given EXCEPT ![i].state = "COMMENT"]
    /\ UNCHANGED <<posts, talks, events, says, ends, last>>

\* A comment on a line of a review begins a conversation.
Remark(i, place, line) ==
    LET c == [id |-> last, review |-> given[i].id, user |-> given[i].user, place |-> place,
              line |-> line, resolver |-> Nobody]
        same == {t \in talks.all : \E o \in posts : o.id \in t /\ o.review = c.review /\ o.place = place
                                                    /\ o.line = line}
    IN  /\ Posting /\ given[i].state # "REQUEST_REVIEW" /\ same = {}
        /\ posts' = posts \union {c} /\ talks' = [talks EXCEPT !.all = @ \union {{last}}]
        /\ UNCHANGED <<given, events, says, ends>>

\* A reply joins its review and its line; the conversation may be resolved by then.
Reply(u, c) ==
    LET talk == CHOOSE t \in talks.all : c.id \in t
        add(set) == {IF t = talk THEN t \union {last} ELSE t : t \in set}
    IN  /\ Posting
        /\ \E i \in DOMAIN given : given[i].id = c.review /\ (given[i].state = "PENDING" => given[i].user = u)
        /\ posts' = posts \union {[c EXCEPT !.id = last, !.user = u, !.resolver = Nobody]}
        /\ talks' = [all |-> add(talks.all), resolved |-> add(talks.resolved)]
        /\ UNCHANGED <<given, events, says, ends>>

\* The one who resolves it is noted on its first comment.
Resolve(t, u) ==
    LET root == CHOOSE c \in posts : c.id \in t /\ \A i \in t : c.id <= i
    IN  /\ talks' = [talks EXCEPT !.resolved = IF t \in @ THEN @ \ {t} ELSE @ \union {t}]
        /\ posts' = (posts \ {root}) \union {[root EXCEPT !.resolver = IF t \in talks.resolved THEN Nobody ELSE u]}
        /\ UNCHANGED <<given, events, says, ends, last>>

\* A keyword is written in a text of a pull request, and later edited away.
Say(p, action) ==
    /\ Posting /\ events' = Append(events, [id |-> last, pull |-> p, action |-> action])
    /\ says' = [says EXCEPT ![p] = Append(@, [id |-> last, action |-> action])]
    /\ UNCHANGED <<posts, given, talks, ends>>

Unsay(p, i) ==
    /\ says' = [says EXCEPT ![p] = RemoveAt(@, i)]
    /\ events' = [j \in DOMAIN events |->
                    IF events[j].id = says[p][i].id THEN [events[j] EXCEPT !.action = "neutered"] ELSE events[j]]
    /\ UNCHANGED <<posts, given, talks, ends, last>>

EndPull(p, state) ==
    /\ ends[p] = "open" /\ ends' = [ends EXCEPT ![p] = state]
    /\ UNCHANGED <<posts, given, talks, events, says, last>>

Talking ==
    \/ \E u \in People, state \in {"PENDING", "COMMENT", "REQUEST_REVIEW"} : GiveReview(u, state)
    \/ \E i \in DOMAIN given : Submit(i) \/ \E place \in Places, line \in {-1, 1} : Remark(i, place, line)
    \/ \E u \in People, c \in posts : Reply(u, c)
    \/ \E t \in talks.all, u \in People : Resolve(t, u)
Referring ==
    \/ \E p \in Pulls, action \in {"closes", "reopens"} : Say(p, action)
    \/ \E p \in Pulls : \E i \in DOMAIN says[p] : Unsay(p, i)
    \/ \E p \in Pulls, state \in {"closed", "merged"} : EndPull(p, state)
ThreadNext == Talking \/ Referring
ThreadSpec == ThreadInit /\ [][ThreadNext]_threadVars

(***************************************************************************)
(* Properties                                                              *)
(***************************************************************************)

\* Each conversation a viewer may see is one thread, whole, in the order it was held,
\* on one side of the diff, resolved as people left it; another's pending review shows
\* nothing (review_threads, listed).
ThreadsWhole ==
    \A viewer \in People :
        LET threads == ReviewThreads(viewer)
            ids(t) == {t[i].id : i \in DOMAIN t}
            seen(t) == \E c \in posts, i \in DOMAIN given :
                /\ c.id \in t /\ given[i].id = c.review
                /\ given[i].state = "COMMENT" \/ given[i].user = viewer
        IN  /\ {ids(threads[i]) : i \in DOMAIN threads} = {t \in talks.all : seen(t)}
            /\ Len(threads) = Cardinality({t \in talks.all : seen(t)})
            /\ \A i \in DOMAIN threads :
                  /\ \A j \in 2..Len(threads[i]) : threads[i][j - 1].id < threads[i][j].id
                  /\ i > 1 => threads[i - 1][1].id < threads[i][1].id
                  /\ \A j \in DOMAIN threads[i] : DiffSide(threads[i]) = "left" <=> threads[i][j].line < 0
                  /\ Resolved(threads[i]) <=> ids(threads[i]) \in talks.resolved

\* The pull requests shown as closing an issue are those whose merge would close it, by
\* the newest keyword still in their texts, closed ones apart (closing_pulls).
ClosesOnMerge ==
    \A readable \in SUBSET Pulls :
        ClosingPulls(readable) =
            {p \in readable : ends[p] # "closed" /\ says[p] # <<>> /\ Last(says[p]).action = "closes"}
=============================================================================
