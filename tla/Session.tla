------------------------------ MODULE Session ------------------------------
(***************************************************************************)
(* One request of gh at the gateway, and several at once: who it comes     *)
(* from (the identity cache), what its resolvers read (memoized GETs that  *)
(* concurrent resolvers share, paged lists, a byte budget, one deadline)   *)
(* and what it writes.  A field is a resolver; what each one asks, and     *)
(* what it makes of the reply, is PullEdits' table.  Forgejo handles a     *)
(* request at one moment, or never; a reply may be lost on its way back.   *)
(***************************************************************************)
EXTENDS Integers, FiniteSets, Sequences

CONSTANTS
    Requests, Fields, Tokens, Users, None,
    Items,         \* what lists hold
    TTL,           \* SessionCache::TTL, in ticks
    Capacity,      \* SessionCache::CAPACITY
    Deadline,      \* ten seconds, in ticks
    PAGE_SIZE, MAX_PAGES,
    MAX_RESPONSE,  \* MAX_RESPONSE_BYTES, in parts of a reply
    Budget,        \* MAX_REQUEST_BYTES, in parts
    MaxTime,       \* bound: ticks
    MaxOthers,     \* bound: what others change
    MaxLost        \* bound: replies and requests that are lost

\* How a resolver ends.
Ends == {"done", "noted", "unchanged", "failed", "gone", "dropped"}

ASSUME SessionAssumption ==
    /\ {TTL, Capacity, Deadline, PAGE_SIZE, MAX_PAGES, MAX_RESPONSE, Budget} \subseteq Nat \ {0}
    /\ {MaxTime, MaxOthers, MaxLost} \subseteq Nat
    /\ None \notin Users \union Fields \union Ends

VARIABLES
    clock,
    user_of,   \* token -> its user at the forge, None once revoked
    past,      \* history: the <<token, user, time>> there have been
    sessions,  \* the identity cache: token -> its user and when he was read
    page_size, \* the forge's page size and when it was read
    rq,        \* request -> its progress
    memo,      \* request -> key -> its cell
    forge,     \* the repository
    field,     \* resolver -> its job
    pc, io,    \* resolver -> its step, and what its call is doing
    reply,     \* resolver -> the reply of its call
    local,     \* resolver -> what it keeps from earlier replies
    answer,    \* resolver -> its answer
    seen,      \* history: resolver -> what it was told
    others, lost

vars == <<clock, user_of, past, sessions, page_size, rq, memo, forge, field, pc, io, reply, local,
          answer, seen, others, lost>>

NoSession == [user |-> None, at |-> 0]
NoSize == [size |-> 0, at |-> 0]

(***************************************************************************)
(* Keys, and what Forgejo says of them                                     *)
(***************************************************************************)

\* A read of one page of a list, or of Actions runs, asks for a page and a size.
Names == {"repo", "pull", "issue", "base", "main", "branch", "settings"}
Key(name) == <<name, 0, 0>>

\* [marks, text]: a title's leading WIP marks, and the rest.
Marks == {"both", "gateway", "forgejo"}
ForgePrefixes == {"both", "forgejo"}
IsDraft(title) == title.marks # <<>> /\ Head(title.marks) \in ForgePrefixes

Least(a, b) == IF a < b THEN a ELSE b

\* The items of page n when `limit` are asked for: at most forge.max come.
PageOf(f, n, limit) ==
    LET size == Least(limit, f.max)
    IN  SubSeq(f.list, (n - 1) * size + 1, Least(n * size, Len(f.list)))

StatusOf(f, key) ==
    IF key[1] \in {"base", "main", "branch"} THEN IF key[1] \in f.branches THEN "ok" ELSE "not_found"
    ELSE IF (key = Key("pull") /\ f.issue) \/ (key = Key("issue") /\ ~f.issue) THEN "not_found"
    ELSE IF key = Key("settings") /\ f.hidden THEN "not_found"
    ELSE "ok"

\* size: how long its body is; body: how much of that has come.
NoReply == [status |-> "none", was |-> None, ver |-> 0, write |-> FALSE, size |-> 0, body |-> 0]

(***************************************************************************)
(* Forgejo::authenticate and SessionCache                                  *)
(***************************************************************************)

Hold == <<memo, forge, field, pc, io, reply, local, answer, seen, others>>

Fresh(at) == clock - at < TTL
\* Mutant: an entry does not expire by being read.
Cached_Ever(t) == sessions[t].user # None

Cached(t) == sessions[t].user # None /\ Fresh(sessions[t].at)

Live(s) == {t \in Tokens : s[t].user # None}

\* SessionCache::insert: the expired go, then at capacity the oldest.
Inserted(t, user) ==
    LET kept == [g \in Tokens |-> IF Cached(g) THEN sessions[g] ELSE NoSession]
        oldest == CHOOSE g \in Live(kept) : \A h \in Live(kept) : kept[g].at <= kept[h].at
        room == IF Cardinality(Live(kept)) >= Capacity /\ t \notin Live(kept)
                THEN [kept EXCEPT ![oldest] = NoSession] ELSE kept
    IN  [room EXCEPT ![t] = [user |-> user, at |-> clock]]

Open(r, user) == [rq[r] EXCEPT !.phase = "open", !.viewer = user, !.opened = clock,
                               !.deadline = clock + Deadline]

\* A request comes: a cached identity opens it, otherwise the forge is asked, on
\* the request's budget but before its deadline starts.
Authenticate(r) ==
    LET t == rq[r].token
    IN  /\ rq[r].phase = "new" /\ clock + Deadline + Deadline <= MaxTime
        /\ rq' = [rq EXCEPT ![r] = IF Cached(t) THEN Open(r, sessions[t].user)
                                   ELSE [@ EXCEPT !.phase = "asking", !.deadline = clock + Deadline]]
        /\ sessions' = [g \in Tokens |-> IF Cached(g) THEN sessions[g] ELSE NoSession]
        /\ UNCHANGED <<clock, user_of, past, page_size, Hold, lost>>

\* Forgejo says whose token it is.
Identify(r) ==
    /\ rq[r].phase = "asking" /\ clock < rq[r].deadline
    /\ rq' = [rq EXCEPT ![r].phase = "told", ![r].viewer = user_of[rq[r].token]]
    /\ UNCHANGED <<clock, user_of, past, sessions, page_size, Hold, lost>>

Identified(r) ==
    LET user == rq[r].viewer
    IN  /\ rq[r].phase = "told" /\ clock < rq[r].deadline
        /\ IF user = None
           THEN rq' = [rq EXCEPT ![r].phase = "refused"] /\ UNCHANGED sessions
           ELSE /\ rq' = [rq EXCEPT ![r] = [Open(r, user) EXCEPT !.left = @ - 1, !.drawn = @ + 1]]
                /\ sessions' = Inserted(rq[r].token, user)
        /\ UNCHANGED <<clock, user_of, past, page_size, Hold, lost>>

\* reqwest's own timeout, or a broken connection.
NotIdentified(r) ==
    /\ rq[r].phase \in {"asking", "told"}
    /\ \/ clock >= rq[r].deadline /\ UNCHANGED lost
       \/ lost < MaxLost /\ lost' = lost + 1
    /\ rq' = [rq EXCEPT ![r].phase = "refused"]
    /\ UNCHANGED <<clock, user_of, past, sessions, page_size, Hold>>

(***************************************************************************)
(* Session::send, memoize and forget_reads                                 *)
(***************************************************************************)

Of(f) == field[f].of
\* A cell is being filled by a resolver, or filled; a key without one is absent.
NoMemo == <<>>
With(cells, key, by, rep) ==
    [k \in {key} \union DOMAIN cells |-> IF k = key THEN [by |-> by, reply |-> rep] ELSE cells[k]]

Turn(f) == rq[Of(f)].phase = "open" /\ answer[f] = None /\ pc[f] # "ready"
Rest == UNCHANGED <<clock, user_of, past, sessions, page_size, field, pc, local, answer>>

\* The resolver has its reply; what it was told of a key is noted for the
\* properties: the write it must not precede, and when that was.
Note(f, call, rep, r) ==
    IF call.how # "memo" THEN seen
    ELSE [seen EXCEPT ![f] = @ \union {[key |-> call.key, epoch |-> rq[r].epoch,
                                        status |-> rep.status, ver |-> rep.ver, floor |-> rq[r].wrote]}]

\* Session::memoize: a filled cell answers; one being filled is waited for (the
\* resolver that fills it may be dropped, and then the cell is absent again);
\* an absent one is this resolver's to fill.
Ask(f, call) ==
    LET r == Of(f)
        there == call.key \in DOMAIN memo[r]
        told == memo[r][call.key].reply
    IN  /\ Turn(f) /\ io[f] = "idle"
        /\ \/ /\ call.how = "memo" /\ there /\ memo[r][call.key].by = None
              /\ io' = [io EXCEPT ![f] = "done"] /\ reply' = [reply EXCEPT ![f] = told]
              /\ seen' = Note(f, call, told, r)
              /\ UNCHANGED memo
           \/ /\ call.how = "memo" /\ ~there
              /\ memo' = [memo EXCEPT ![r] = With(@, call.key, f, NoReply)]
              /\ io' = [io EXCEPT ![f] = "sent"]
              /\ UNCHANGED <<reply, seen>>
           \/ /\ call.how # "memo"
              /\ io' = [io EXCEPT ![f] = "sent"]
              /\ UNCHANGED <<memo, reply, seen>>
        /\ Rest /\ UNCHANGED <<rq, forge, others, lost>>

\* Forgejo handles it, with the effect and the reply PullEdits gives.
Handle(f, after, status, write) ==
    /\ Turn(f) /\ io[f] = "sent" /\ clock < rq[Of(f)].deadline
    /\ forge' = IF after = forge THEN forge ELSE [after EXCEPT !.ver = forge.ver + 1]
    /\ \E size \in field[f].sizes :
          reply' = [reply EXCEPT ![f] = [status |-> status, was |-> forge', ver |-> forge'.ver,
                                         write |-> write, size |-> size, body |-> 0]]
    /\ io' = [io EXCEPT ![f] = "back"]
    /\ Rest /\ UNCHANGED <<rq, memo, seen, others, lost>>

\* Mutant: the reads stay after a write.
Settle_Remembers(f, call, rep, charge) ==
    LET r == Of(f)
        wrote == call.how = "write" /\ rep.write
    IN  /\ io' = [io EXCEPT ![f] = "done"] /\ reply' = [reply EXCEPT ![f] = rep]
        /\ memo' = IF call.how = "memo"
                   THEN [memo EXCEPT ![r] = With(@, call.key, None, rep)] ELSE memo
        /\ rq' = [rq EXCEPT ![r].left = @ - charge, ![r].drawn = @ + charge,
                            ![r].epoch = IF wrote THEN @ + 1 ELSE @,
                            ![r].wrote = IF wrote THEN rep.ver ELSE @]
        /\ seen' = Note(f, call, rep, r)

\* A call's end: the cell is filled, with an error too, or a write answered forgets
\* every read.
Settle(f, call, rep, charge) ==
    LET r == Of(f)
        mine == call.how = "memo"
        wrote == call.how = "write" /\ rep.write
    IN  /\ io' = [io EXCEPT ![f] = "done"] /\ reply' = [reply EXCEPT ![f] = rep]
        /\ memo' = IF wrote THEN [memo EXCEPT ![r] = NoMemo]
                   ELSE IF mine THEN [memo EXCEPT ![r] = With(@, call.key, None, rep)]
                   ELSE memo
        /\ rq' = [rq EXCEPT ![r].left = @ - charge, ![r].drawn = @ + charge,
                            ![r].epoch = IF wrote THEN @ + 1 ELSE @,
                            ![r].wrote = IF wrote THEN rep.ver ELSE @]
        /\ seen' = Note(f, call, rep, r)

Failure(status) == [NoReply EXCEPT !.status = status, !.ver = forge.ver]

\* Its body comes in chunks, each charged to the budget the request's calls share; one
\* past the cap on a reply, or past what is left of the budget, ends the call, and what
\* came before it stays charged.  (A length declared past the cap does so before any
\* has come, as a single chunk of that length.)  A pull request that is open, no draft
\* and not mergeable is read once more.
Receive(f, call) ==
    LET rep == reply[f]
        again == call.key = Key("pull") /\ rep.status = "ok" /\ rep.was.pull.state = "open"
                 /\ ~rep.was.pull.mergeable /\ ~IsDraft(rep.was.pull.title) /\ local[f].tries = 0
    IN  /\ Turn(f) /\ io[f] = "back" /\ clock < rq[Of(f)].deadline
        /\ \E chunk \in 0..(rep.size - rep.body) :
             /\ chunk = 0 => rep.size = rep.body
             /\ \/ /\ rep.body + chunk > MAX_RESPONSE \/ chunk > rq[Of(f)].left
                   /\ Settle(f, call, [Failure("too_large") EXCEPT !.size = rep.size, !.body = rep.body], 0)
                   /\ UNCHANGED local
                \/ /\ rep.body + chunk <= MAX_RESPONSE /\ chunk <= rq[Of(f)].left
                   /\ IF rep.body + chunk < rep.size
                      THEN /\ reply' = [reply EXCEPT ![f].body = @ + chunk]
                           /\ rq' = [rq EXCEPT ![Of(f)].left = @ - chunk, ![Of(f)].drawn = @ + chunk]
                           /\ UNCHANGED <<memo, io, seen, local>>
                      ELSE IF again
                      THEN /\ local' = [local EXCEPT ![f].tries = 1]
                           /\ io' = [io EXCEPT ![f] = "sent"]
                           /\ rq' = [rq EXCEPT ![Of(f)].left = @ - chunk, ![Of(f)].drawn = @ + chunk]
                           /\ UNCHANGED <<memo, reply, seen>>
                      ELSE Settle(f, call, rep, chunk) /\ local' = [local EXCEPT ![f].tries = 0]
        /\ UNCHANGED <<clock, user_of, past, sessions, page_size, field, pc, answer, forge, others, lost>>

\* The shared deadline ends a call, or its connection breaks, before or after
\* Forgejo handled it.
Break(f, call) ==
    /\ Turn(f) /\ io[f] \in {"sent", "back"}
    /\ \/ clock >= rq[Of(f)].deadline /\ UNCHANGED lost
       \/ lost < MaxLost /\ lost' = lost + 1
    /\ Settle(f, call, Failure("lost"), 0)
    /\ Rest /\ UNCHANGED <<forge, others>>

\* Mutant: the cell stays the dropped resolver's.
Drop_Holds(f) ==
    /\ Turn(f) /\ field[f].op = "read"
    /\ \E g \in Fields \ {f} : Of(g) = Of(f) /\ answer[g] = "failed"
    /\ answer' = [answer EXCEPT ![f] = "dropped"]
    /\ UNCHANGED <<clock, user_of, past, sessions, page_size, rq, memo, field, pc, io, reply, local,
                   forge, seen, others, lost>>

\* A sibling's error drops a resolver of a query: the cell it was filling is
\* another's to fill.
Drop(f) ==
    LET r == Of(f)
    IN  /\ Turn(f) /\ field[f].op = "read"
        /\ \E g \in Fields \ {f} : Of(g) = r /\ answer[g] = "failed"
        /\ memo' = [memo EXCEPT ![r] = [k \in {l \in DOMAIN @ : @[l].by # f} |-> @[k]]]
        /\ answer' = [answer EXCEPT ![f] = "dropped"]
        /\ UNCHANGED <<clock, user_of, past, sessions, page_size, rq, field, pc, io, reply, local,
                       forge, seen, others, lost>>

(***************************************************************************)
(* Time, and the forge's other users                                       *)
(***************************************************************************)

Tick ==
    /\ clock < MaxTime /\ clock' = clock + 1
    /\ past' = past \union {<<t, user_of[t], clock + 1>> : t \in Tokens}
    /\ UNCHANGED <<user_of, sessions, page_size, rq, Hold, lost>>

\* A token is revoked, or its user renamed; of interest while a request has yet to
\* be told whose it is.
Rename ==
    /\ others < MaxOthers /\ others' = others + 1
    /\ \E r \in Requests : rq[r].phase \in {"new", "asking"}
    /\ \E t \in Tokens, u \in Users \union {None} :
          /\ u # user_of[t]
          /\ user_of' = [user_of EXCEPT ![t] = u]
          /\ past' = past \union {<<t, u, clock>>}
    /\ UNCHANGED <<clock, sessions, page_size, rq, memo, forge, field, pc, io, reply, local, answer,
                   seen, lost>>

\* Somebody edits the pull request, makes or deletes a branch, archives the
\* repository, or adds to the list a resolver reads, or takes from it.
Edited ==
    {[forge EXCEPT !.pull.title.text = "theirs"], [forge EXCEPT !.pull.title.marks = <<"both">>],
     [forge EXCEPT !.pull.mergeable = ~@], [forge EXCEPT !.archived = TRUE],
     [forge EXCEPT !.branches = @ \ {"base"}], [forge EXCEPT !.branches = @ \ {"branch"}],
     [forge EXCEPT !.branches = @ \union {"branch"}]}
Listed ==
    {[forge EXCEPT !.list = <<i>> \o @] : i \in Items \ {forge.list[j] : j \in DOMAIN forge.list}}
    \union (IF forge.list = <<>> THEN {} ELSE {[forge EXCEPT !.list = Tail(@), !.taken = TRUE]})
Meddle ==
    /\ others < MaxOthers /\ others' = others + 1
    /\ \E after \in IF \E f \in Fields : field[f].op \in {"list", "runs"} THEN Listed ELSE Edited :
          after # forge /\ forge' = [after EXCEPT !.ver = forge.ver + 1]
    /\ UNCHANGED <<clock, user_of, past, sessions, page_size, rq, memo, field, pc, io, reply, local,
                   answer, seen, lost>>

(***************************************************************************)
(* Properties of the session                                               *)
(***************************************************************************)

\* Resolvers of one request that read one thing, with no write of the request in
\* between, are told the same, errors too, whatever changes at the forge while
\* they run side by side ("The `OnceCell` also coalesces concurrent GraphQL
\* aliases"); after a write none is told what was so before it ("writes call this
\* so later reads see their effect"); together with the identity's their
\* replies stay within the budget; and one is refused for its size only if it is past
\* the cap on a reply or the rest of it past what is left of the budget.
ReadsSound ==
    /\ \A f, g \in Fields : Of(f) = Of(g) =>
         \A a \in seen[f], b \in seen[g] : a.key = b.key /\ a.epoch = b.epoch
                                             => a.ver = b.ver /\ a.status = b.status
    /\ \A f \in Fields : \A a \in seen[f] : a.ver >= a.floor
    /\ \A r \in Requests : rq[r].drawn <= Budget
    /\ \A f \in Fields : reply[f].status = "too_large" =>
         \/ reply[f].size > MAX_RESPONSE
         \/ rq[Of(f)].drawn + reply[f].size - reply[f].body > Budget

\* A request acts as the user its token named at most TTL and one call's time
\* before, however often the entry was used since; nobody's identity comes from
\* another's token.
IdentityFresh ==
    \A r \in Requests : rq[r].phase = "open" =>
        \E e \in past : e[1] = rq[r].token /\ e[2] = rq[r].viewer
                        /\ rq[r].opened - e[3] <= TTL + Deadline - 2
=============================================================================
