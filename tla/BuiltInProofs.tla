--------------------------- MODULE BuiltInProofs ---------------------------
(* Proofs about Checks, BuiltIn and PullView: for any repository, checkout,*)
(* call and page sizes, any rules, users and pushes, and whatever others   *)
(* do between two requests.                                                *)
EXTENDS BuiltIn, PullView, SequenceTheorems, FiniteSetTheorems, FunctionTheorems, WellFoundedInduction, TLAPS

(***************************************************************************)
(* Steps of a command.                                                     *)
(***************************************************************************)

Taken == {"statuses", "comment", "fetch_head", "files", "diff", "rollup"}

(* Where a command begins.                                                 *)
LEMMA FirstSteps ==
    ASSUME call.cmd \in Answered
    PROVE  /\ FirstStep \in Way \union {"ok", "fail"}
           /\ FirstStep \notin {"comment", "statuses", "protection", "fetch_head", "fetch_pull", "detach", "reset",
                                "look", "switch", "make", "submodules", "pending"}
           /\ FirstStep = "ok" => ~Writing /\ call.cmd # "pr_checks" /\ call.cmd # "pr_checkout"
           /\ FirstStep \in {"create_pull", "labels", "create_issue"} => ~Has("web")
           /\ FirstStep = "create_pull" => TargetBranch # None
           /\ FirstStep = "create_issue" => Names = {}
           /\ FirstStep = "pull" => call.number # 0
           /\ FirstStep = "pulls" /\ call.cmd # "pr_list" =>
                TargetBranch # None /\ (call.number = 0 \/ call.cmd = "pr_status")
  <1> USE DEF FirstStep, Way, AuthStep, ApiStep, RepoViewStep
  <1>1. CASE call.cmd \in {"auth_status", "auth_token", "api", "repo_view"}
    BY <1>1 DEF Writing
  <1>2. CASE call.cmd \in {"issue_view", "issue_list"}
    BY <1>2 DEF Writing, IssueFirst, IssueViewStep, IssueListStep
  <1>3. CASE call.cmd = "issue_create"
    <2>1. FirstStep = IssueStep
      BY <1>3 DEF IssueFirst
    <2>2. Way = {"labels", "create_issue"}
      BY <1>3
    <2> HIDE DEF FirstStep, Way
    <2>3. IssueStep \in {"ok", "fail", "labels", "create_issue"}
          /\ (IssueStep # "ok" <=> ~Has("web")) /\ (IssueStep = "create_issue" => Names = {})
      BY DEF IssueStep
    <2> QED BY <1>3, <2>1, <2>2, <2>3 DEF Writing
  <1>4. CASE call.cmd = "pr_create"
    <2>1. FirstStep = CreateStep
      BY <1>4 DEF PullFirst
    <2> QED BY <1>4, <2>1 DEF Writing, CreateStep
  <1>5. CASE call.cmd = "pr_list"
    BY <1>5 DEF Writing, PullFirst
  <1>6. CASE call.cmd = "pr_status"
    BY <1>6 DEF Writing, PullFirst, StatusStep, NoPullStep
  <1>7. CASE call.cmd \in {"pr_checks", "pr_checkout", "pr_comment", "pr_diff", "pr_view"}
    <2>1. FirstStep = ResolveStep
      BY <1>7 DEF PullFirst
    <2> QED BY <1>7, <2>1 DEF Writing, ResolveStep, NoPullStep
  <1> QED BY <1>1, <1>2, <1>3, <1>4, <1>5, <1>6, <1>7 DEF Answered, OfPull

(* What follows on a pull request.                                         *)
LEMMA PullSteps ==
    ASSUME call.cmd \in OfPull, NEW p
    PROVE  /\ PullStep(p) \in Way \union {"ok", "fail"}
           /\ PullStep(p) \in {"comment", "statuses", "fetch_head", "files", "diff", "rollup", "ok", "fail"}
           /\ PullStep(p) = "ok" => ~Writing /\ call.cmd # "pr_checks" /\ call.cmd # "pr_checkout"
           /\ PullStep(p) = "comment" => ~Has("web")
           /\ PullStep(p) = "statuses" => p.sha # None
           /\ PullStep(p) \in {"comment", "statuses", "fetch_head"} => call.cmd # "pr_status"
  <1> USE DEF PullStep, Way, Writing
  <1>1. CASE call.cmd = "pr_checks"
    BY <1>1 DEF ChecksStep
  <1>2. CASE call.cmd = "pr_checkout"
    BY <1>2
  <1>3. CASE call.cmd = "pr_comment"
    <2>1. PullStep(p) = CommentStep /\ Way = {"pull", "pulls", "comment"}
      BY <1>3
    <2> HIDE DEF PullStep, Way
    <2>2. CommentStep \in {"ok", "comment", "fail"} /\ (CommentStep = "ok" <=> Has("web"))
      BY DEF CommentStep
    <2> QED BY <1>3, <2>1, <2>2
  <1>4. CASE call.cmd = "pr_diff"
    BY <1>4 DEF DiffStep
  <1>5. CASE call.cmd \in {"pr_view", "pr_status"}
    BY <1>5 DEF ViewStep
  <1> QED BY <1>1, <1>2, <1>3, <1>4, <1>5 DEF OfPull

(* Which commands a step belongs to.                                       *)
LEMMA StepOf ==
    ASSUME pc \in Way
    PROVE  /\ pc \notin {"start"} \union Exits
           /\ pc = "comment" => call.cmd = "pr_comment"
           /\ pc = "create_pull" => call.cmd = "pr_create"
           /\ pc \in {"labels", "create_issue"} => call.cmd = "issue_create"
           /\ pc \in {"statuses", "protection"} => call.cmd = "pr_checks"
           /\ pc \in {"fetch_head", "fetch_pull", "detach", "reset", "look", "switch", "make", "submodules"} =>
                call.cmd = "pr_checkout"
           /\ pc \in {"user", "repo", "issue", "issues", "files", "diff", "rollup"} =>
                ~Writing /\ call.cmd # "pr_checks" /\ call.cmd # "pr_checkout"
  BY DEF Way, Exits, Writing

(* A command ends without having written.                                  *)
LEMMA Ending ==
    ASSUME IInv, pc \notin Exits, pc' \in {"ok", "fail"}, written' = written, call' = call, TypeOK',
           pc' = "ok" => ~Writing /\ call.cmd # "pr_checks"
    PROVE  IInv'
  <1>1. written' = <<>>
    BY DEF IInv, Unwritten
  <1>2. WritesOnce'
    BY <1>1 DEF WritesOnce, Writing, Has
  <1>3. ChecksTruthful'
    BY DEF ChecksTruthful
  <1>4. Asked' /\ Unwritten' /\ PullKnown' /\ Ready' /\ Gathered'
    BY DEF Asked, Unwritten, PullKnown, Ready, Gathered, Exits
  <1> QED BY <1>2, <1>3, <1>4 DEF IInv

(* What a step that leaves the repository and the checkout leaves of the   *)
(* types.                                                                  *)
LEMMA Frame ==
    ASSUME TypeOK, call' = call, forge' = forge, git' = git, others' = others, pc' \in Way \union Exits,
           DOMAIN got' = DOMAIN got, got'.page = got.page
    PROVE  TypeOK'
  <1>1. Way' = Way
    BY DEF Way
  <1>2. Called' /\ Repository' /\ CheckedOut'
    BY DEF TypeOK, Called, Repository, CheckedOut
  <1>3. DOMAIN got' = (DOMAIN Nothing)' /\ got'.page \in 1..MAX_PAGES + 1 /\ others' \in 0..MaxOthers
    BY DEF TypeOK, Nothing
  <1> QED BY <1>1, <1>2, <1>3 DEF TypeOK

(* A command goes on without having written.                               *)
LEMMA GoingOn ==
    ASSUME IInv, pc \in {"start"} \union Way, call' = call, written' = written, pc' \in Way,
           pc = "start" => call.ok /\ call.token,
           TypeOK', PullKnown', Ready', Gathered'
    PROVE  IInv'
  <1>1. pc \notin Exits /\ pc' \notin {"start"} \union Exits
    BY DEF Way, Exits
  <1>2. written' = <<>>
    BY <1>1 DEF IInv, Unwritten
  <1>3. Asked' /\ Unwritten'
    BY <1>1, <1>2, StepOf DEF IInv, Asked, Unwritten, Exits
  <1>4. WritesOnce' /\ ChecksTruthful'
    BY <1>1, <1>2 DEF WritesOnce, ChecksTruthful, Exits
  <1> QED BY <1>3, <1>4 DEF IInv

(***************************************************************************)
(* The actions.                                                            *)
(***************************************************************************)

LEMMA StartKeeps == ASSUME IInv, Start PROVE IInv'
  <1> USE DEF Start
  <1>1. call.cmd \in Answered /\ TypeOK
    BY DEF IInv, TypeOK, Called
  <1>2. CASE ~(call.ok /\ call.token)
    <2>1. TypeOK'
      BY <1>1, <1>2, Frame DEF Exits
    <2> QED BY <1>2, <2>1, Ending DEF Exits
  <1>3. CASE call.ok /\ call.token /\ FirstStep \in {"ok", "fail"}
    <2>1. TypeOK'
      BY <1>1, <1>3, Frame DEF Exits
    <2> QED BY <1>1, <1>3, <2>1, FirstSteps, Ending DEF Exits
  <1>4. CASE call.ok /\ call.token /\ FirstStep \notin {"ok", "fail"}
    <2>1. pc' \in Way /\ pc' = FirstStep
      BY <1>1, <1>4, FirstSteps
    <2>2. TypeOK'
      BY <1>1, <2>1, Frame
    <2>3. PullKnown'
      BY <1>1, <2>1, FirstSteps DEF PullKnown
    <2>4. Ready'
      <3>1. Has("web")' = Has("web") /\ TargetBranch' = TargetBranch /\ got'.labels = {} /\ Names' = Names
        BY <1>1 DEF Has, TargetBranch, IInv, Ready, Names
      <3> QED BY <1>1, <2>1, <3>1, FirstSteps DEF Ready
    <2>5. Gathered'
      BY <1>1, <2>1, FirstSteps DEF IInv, Gathered
    <2> QED BY <1>4, <2>1, <2>2, <2>3, <2>4, <2>5, GoingOn
  <1> QED BY <1>2, <1>3, <1>4

(* On to a pull request of the repository.                                 *)
LEMMA OnPull ==
    ASSUME IInv, pc \in {"pull", "pulls"} \intersect Way, call.cmd \in OfPull, NEW i \in DOMAIN forge.pulls,
           \/ call.cmd = "pr_status"
           \/ IF call.number # 0 THEN forge.pulls[i].n = call.number ELSE forge.pulls[i].head = TargetBranch,
           got' = [got EXCEPT !.pull = forge.pulls[i], !.queue = <<forge.pulls[i]>>],
           pc' = PullStep(forge.pulls[i]), UNCHANGED <<call, forge, git, written, others>>
    PROVE  IInv'
  <1> DEFINE p == forge.pulls[i]
  <1>1. TypeOK /\ DOMAIN got = DOMAIN Nothing
    BY DEF IInv, TypeOK
  <1>2. /\ DOMAIN got' = DOMAIN got /\ got'.page = got.page /\ got'.pull = p
        /\ got'.first = got.first /\ got'.statuses = got.statuses
    BY <1>1 DEF Nothing
  <1>3. p \in PullType
    BY <1>1 DEF TypeOK, Repository
  <1> HIDE DEF p
  <1>4. /\ pc' \in Way \union {"ok", "fail"}
        /\ pc' \in {"comment", "statuses", "fetch_head", "files", "diff", "rollup", "ok", "fail"}
        /\ pc' = "ok" => ~Writing /\ call.cmd # "pr_checks" /\ call.cmd # "pr_checkout"
        /\ pc' = "comment" => ~Has("web")
        /\ pc' = "statuses" => p.sha # None
        /\ pc' \in {"comment", "statuses", "fetch_head"} => call.cmd # "pr_status"
    BY PullSteps DEF p
  <1>5. TypeOK'
    BY <1>1, <1>2, <1>4, Frame DEF Exits
  <1>6. CASE pc' \in {"ok", "fail"}
    BY <1>4, <1>5, <1>6, StepOf, Ending
  <1>7. CASE pc' \notin {"ok", "fail"}
    <2>1. PullKnown'
      BY <1>2, <1>3, <1>4 DEF PullKnown, TargetBranch, p
    <2>2. Ready'
      BY <1>4 DEF Ready, Has
    <2>3. Gathered'
      <3>1. got'.first = {} /\ got'.statuses = <<>>
        BY <1>2 DEF IInv, Gathered
      <3>2. pc' = "statuses" => got'.pull.sha \in Shas
        BY <1>2, <1>3, <1>4 DEF PullType
      <3>3. Posted(<<>>) = {} /\ <<>> \in Seq(StatusType)
        BY DEF Posted
      <3>4. \A list : got'.first \union Posted(got'.statuses) \subseteq Posted(list)
                     /\ \A k \in DOMAIN list : list[k] \notin got'.first
        BY <3>1, <3>3
      <3> QED BY <1>4, <3>1, <3>2, <3>3, <3>4 DEF Gathered
    <2> QED BY <1>4, <1>5, <1>7, <2>1, <2>2, <2>3, GoingOn
  <1> QED BY <1>6, <1>7

LEMMA GetPullKeeps == ASSUME IInv, GetPull PROVE IInv'
  <1> USE DEF GetPull
  <1>1. TypeOK /\ pc \in Way
    BY DEF IInv, TypeOK, Exits
  <1>2. call.cmd \in OfPull
    BY <1>1 DEF TypeOK, Called, Answered, Way, OfPull
  <1>3. call.number # 0
    BY <1>1 DEF IInv, Ready
  <1>4. ASSUME NEW i \in DOMAIN forge.pulls, forge.pulls[i].n = call.number,
               got' = [got EXCEPT !.pull = forge.pulls[i], !.queue = <<forge.pulls[i]>>],
               pc' = PullStep(forge.pulls[i])
        PROVE  IInv'
    BY <1>1, <1>2, <1>3, <1>4, OnPull
  <1>5. CASE pc' = "fail" /\ UNCHANGED got
    <2>1. TypeOK'
      BY <1>1, <1>5, Frame DEF Exits
    <2> QED BY <1>1, <1>5, <2>1, StepOf, Ending
  <1> QED BY <1>4, <1>5

(* A set of numbers that is not empty has a least one.                     *)
LEMMA LeastExists ==
    ASSUME NEW S \in SUBSET Nat, S # {}
    PROVE  (CHOOSE i \in S : \A j \in S : i <= j) \in S /\ \A j \in S : (CHOOSE i \in S : \A k \in S : i <= k) <= j
  <1>1. PICK x \in S : \A y \in S : ~(<<y, x>> \in OpToRel(<, Nat))
    <2>1. IsWellFoundedOn(OpToRel(<, Nat), Nat)
      BY NatLessThanWellFounded
    <2> QED BY <2>1, WFMin, Zenon
  <1>2. \A j \in S : ~(j < x)
    BY <1>1 DEF OpToRel
  <1>3. \A j \in S : x <= j
    BY <1>2
  <1> QED BY <1>3

LEMMA FindPullKeeps == ASSUME IInv, FindPull PROVE IInv'
  <1> DEFINE found == Listed("open", TargetBranch)
             i == CHOOSE i \in found : \A j \in found : i <= j
  <1> USE DEF FindPull
  <1>1. TypeOK /\ pc \in Way
    BY DEF IInv, TypeOK, Exits
  <1>2. call.cmd \in OfPull
    BY <1>1 DEF TypeOK, Called, Answered, Way, OfPull
  <1>3. TargetBranch # None /\ (call.number = 0 \/ call.cmd = "pr_status")
    BY DEF IInv, Ready
  <1>4. CASE found # {}
    <2>1. found \in SUBSET Nat /\ \A k \in found : k \in DOMAIN forge.pulls /\ forge.pulls[k].head = TargetBranch
      BY <1>1, <1>3 DEF Listed, TypeOK, Repository
    <2>2. i \in found
      <3> HIDE DEF found
      <3> QED BY <1>4, <2>1, LeastExists
    <2>3. i \in DOMAIN forge.pulls /\ forge.pulls[i].head = TargetBranch
      BY <2>1, <2>2
    <2>4. /\ got' = [got EXCEPT !.pull = forge.pulls[i], !.queue = <<forge.pulls[i]>>]
          /\ pc' = PullStep(forge.pulls[i])
      BY <1>4
    <2> HIDE DEF found, i
    <2> QED BY <1>1, <1>2, <1>3, <2>3, <2>4, OnPull
  <1>5. CASE found = {}
    <2>1. pc' = NoPullStep /\ DOMAIN got' = DOMAIN got /\ got'.page = got.page
      BY <1>1, <1>5 DEF TypeOK, Nothing
    <2>2. NoPullStep \in {"ok", "fail"} /\ (NoPullStep = "ok" => call.cmd \in {"pr_diff", "pr_view", "pr_status"})
      BY <1>2 DEF NoPullStep, OfPull
    <2>3. TypeOK'
      BY <1>1, <2>1, <2>2, Frame DEF Exits
    <2> QED BY <1>1, <2>1, <2>2, <2>3, StepOf, Ending DEF Writing
  <1> QED BY <1>4, <1>5

LEMMA ListPullsKeeps == ASSUME IInv, ListPulls PROVE IInv'
  <1>1. TypeOK /\ pc \in Way /\ pc = "pulls" /\ call.cmd = "pr_list" /\ Way = {"pulls", "rollup"}
    BY DEF IInv, TypeOK, Exits, ListPulls, Way
  <1>2. UNCHANGED <<call, forge, git, written, others>> /\ DOMAIN got' = DOMAIN got /\ got'.page = got.page
    BY <1>1 DEF ListPulls, TypeOK, Nothing
  <1>3. pc' \in {"ok", "rollup"}
    BY DEF ListPulls
  <1>4. TypeOK'
    BY <1>1, <1>2, <1>3, Frame DEF Exits
  <1>5. CASE pc' = "ok"
    BY <1>1, <1>2, <1>4, <1>5, StepOf, Ending DEF Writing
  <1>6. CASE pc' = "rollup"
    <2>1. PullKnown' /\ Ready' /\ Gathered'
      BY <1>6 DEF PullKnown, Ready, Gathered
    <2> QED BY <1>1, <1>2, <1>4, <1>6, <2>1, GoingOn
  <1> QED BY <1>3, <1>5, <1>6

LEMMA ReadRollupKeeps == ASSUME IInv, ReadRollup PROVE IInv'
  <1>1. TypeOK /\ pc \in Way /\ pc = "rollup"
    BY DEF IInv, TypeOK, Exits, ReadRollup
  <1>2. UNCHANGED <<call, forge, git, written, others>> /\ DOMAIN got' = DOMAIN got /\ got'.page = got.page
    BY <1>1 DEF ReadRollup, TypeOK, Nothing
  <1>3. pc' \in {"ok", "rollup"}
    BY DEF ReadRollup
  <1>4. TypeOK'
    BY <1>1, <1>2, <1>3, Frame DEF Exits
  <1>5. CASE pc' = "ok"
    BY <1>1, <1>2, <1>4, <1>5, StepOf, Ending
  <1>6. CASE pc' = "rollup"
    <2>1. PullKnown' /\ Ready' /\ Gathered'
      BY <1>6 DEF PullKnown, Ready, Gathered
    <2>2. Way' = Way
      BY <1>2 DEF Way
    <2> QED BY <1>1, <1>2, <1>4, <1>6, <2>1, GoingOn
  <1> QED BY <1>3, <1>5, <1>6

(* The reads that end a command.                                           *)
LEMMA PrintedKeeps ==
    ASSUME IInv, NEW request \in {"user", "repo", "issue", "issues", "files", "diff"}, Printed(request)
    PROVE  IInv'
  <1>1. TypeOK /\ pc \in Way /\ pc = request /\ UNCHANGED <<call, forge, git, got, written, others>> /\ pc' = "ok"
    BY DEF IInv, TypeOK, Exits, Printed
  <1>2. TypeOK'
    BY <1>1, Frame DEF Exits
  <1> QED BY <1>1, <1>2, StepOf, Ending

LEMMA RefusedKeeps == ASSUME IInv, Refused PROVE IInv'
  <1>1. TypeOK /\ pc \in Way /\ UNCHANGED <<call, forge, git, got, written, others>> /\ pc' = "fail"
    BY DEF IInv, TypeOK, Exits, Refused, Requests
  <1>2. TypeOK'
    BY <1>1, Frame DEF Exits
  <1> QED BY <1>1, <1>2, StepOf, Ending

LEMMA ReadLabelsKeeps == ASSUME IInv, ReadLabels PROVE IInv'
  <1>1. TypeOK /\ pc \in Way /\ pc = "labels" /\ call.cmd = "issue_create" /\ UNCHANGED <<call, forge, git, written, others>>
    BY StepOf DEF IInv, TypeOK, Exits, ReadLabels
  <1>2. CASE pc' = "fail" /\ UNCHANGED got
    <2>1. TypeOK'
      BY <1>1, <1>2, Frame DEF Exits
    <2> QED BY <1>1, <1>2, <2>1, StepOf, Ending
  <1>3. CASE \E label \in [Names -> forge.labels] :
            /\ \A name \in Names : label[name].name = name
            /\ got' = [got EXCEPT !.labels = {label[name] : name \in Names}]
            /\ pc' = "create_issue"
    <2>1. PICK label \in [Names -> forge.labels] :
            /\ \A name \in Names : label[name].name = name
            /\ got' = [got EXCEPT !.labels = {label[name] : name \in Names}]
            /\ pc' = "create_issue"
      BY <1>3
    <2>2. DOMAIN got' = DOMAIN got /\ got'.page = got.page /\ got'.labels = {label[name] : name \in Names}
      BY <1>1, <2>1 DEF TypeOK, Nothing
    <2>3. Names = {l.name : l \in got'.labels} /\ Names' = Names
      BY <1>1, <2>1, <2>2 DEF Names
    <2>4. TypeOK'
      BY <1>1, <2>1, <2>2, Frame DEF Exits, Way
    <2>5. Ready'
      BY <1>1, <2>1, <2>2, <2>3 DEF IInv, Ready, Has
    <2>6. PullKnown' /\ Gathered' /\ pc' \in Way
      BY <1>1, <2>1 DEF PullKnown, Gathered, Way
    <2> QED BY <1>1, <2>1, <2>4, <2>5, <2>6, GoingOn
  <1> QED BY <1>2, <1>3 DEF ReadLabels

(* A command ends with its one write.                                      *)
LEMMA EndsWritten ==
    ASSUME IInv, pc \in {"comment", "create_issue", "create_pull"}, call' = call, git' = git, got' = got,
           pc' \in {"ok", "fail"}, TypeOK', NEW what, written' = Append(written, what),
           what.kind = "comment" => pc = "comment" /\ what.on = got.pull.n,
           what.kind = "issue" =>
                pc = "create_issue" /\ forge' = forge
                /\ what.labels = (IdsOf(got.labels) \union (call.labels \intersect Ids)) \intersect IdsOf(forge.labels)
    PROVE  IInv'
  <1>1. pc \in Way /\ call.ok /\ call.token /\ written = <<>>
    BY DEF IInv, TypeOK, Exits, Asked, Unwritten
  <1>2. Writing /\ call.cmd # "pr_checks"
    BY <1>1 DEF Writing, IInv, Ready, Way
  <1>3. Writing' = Writing /\ TargetBranch' = TargetBranch
    BY DEF Writing, Has, TargetBranch
  <1>4. written' = <<what>>
    BY <1>1
  <1>5. WritesOnce'
    <2>1. what.kind = "comment" =>
            IF call.number # 0 THEN what.on = call.number ELSE got.pull.head = TargetBranch
      BY DEF IInv, PullKnown
    <2>2. what.kind = "issue" =>
            /\ Names' = {l.name : l \in got'.labels}
            /\ \A l \in forge'.labels :
                  l.id \in what.labels <=> l.id \in call'.labels \/ \E had \in got'.labels : had.id = l.id
      <3>1. pc = "create_issue" => Names' = {l.name : l \in got'.labels}
        BY DEF IInv, Ready, Names
      <3>2. \A l \in forge.labels : l.id \in Ids /\ l.id \in IdsOf(forge.labels)
        BY DEF IInv, TypeOK, Repository, IdsOf
      <3>3. \A id : id \in IdsOf(got.labels) <=> \E had \in got.labels : had.id = id
        BY DEF IdsOf
      <3> QED BY <3>1, <3>2, <3>3
    <2>3. DOMAIN written' = {1} /\ written'[1] = what /\ Len(written') = 1 /\ written' # <<>>
      BY <1>4
    <2> HIDE DEF Writing
    <2>4. \A k \in DOMAIN written' : written'[k] = what
      BY <2>3
    <2> QED BY <1>1, <1>2, <1>3, <2>1, <2>2, <2>3, <2>4 DEF WritesOnce
  <1>6. ChecksTruthful'
    BY <1>2 DEF ChecksTruthful
  <1>7. Asked' /\ Unwritten' /\ PullKnown' /\ Ready' /\ Gathered'
    BY DEF Asked, Unwritten, PullKnown, Ready, Gathered, Exits
  <1> QED BY <1>5, <1>6, <1>7 DEF IInv

LEMMA CommentKeeps == ASSUME IInv, Comment PROVE IInv'
  <1>1. UNCHANGED <<call, forge, git, got, others>> /\ pc' \in {"ok", "fail"} /\ pc = "comment" /\ TypeOK
    BY DEF Comment, Wrote, AfterWrite, IInv
  <1>2. TypeOK'
    BY <1>1, Frame DEF Exits
  <1>3. written' = Append(written, [kind |-> "comment", on |-> got.pull.n, labels |-> {}])
    BY DEF Comment, Wrote
  <1> QED BY <1>1, <1>2, <1>3, EndsWritten

LEMMA CreateIssueKeeps == ASSUME IInv, CreateIssue PROVE IInv'
  <1>1. UNCHANGED <<call, forge, git, got, others>> /\ pc' \in {"ok", "fail"} /\ pc = "create_issue" /\ TypeOK
    BY DEF CreateIssue, Wrote, AfterWrite, IInv
  <1>2. TypeOK'
    BY <1>1, Frame DEF Exits
  <1>3. written' = Append(written, [kind |-> "issue", on |-> 0,
              labels |-> (IdsOf(got.labels) \union (call.labels \intersect Ids)) \intersect IdsOf(forge.labels)])
    BY DEF CreateIssue, Wrote
  <1> QED BY <1>1, <1>2, <1>3, EndsWritten

(* A pull request more leaves the repository one.                          *)
LEMMA PullOpened ==
    ASSUME Repository, NEW p \in PullType, forge' = [forge EXCEPT !.pulls = <<p>> \o @]
    PROVE  /\ Repository' /\ forge'.statuses = forge.statuses /\ forge'.pages = forge.pages
           /\ \A n : (\E i \in DOMAIN forge.pulls : forge.pulls[i].n = n) =>
                    \E i \in DOMAIN forge'.pulls : forge'.pulls[i].n = n
  <1>1. /\ DOMAIN forge' = DOMAIN forge /\ forge'.pulls = <<p>> \o forge.pulls
        /\ forge'.statuses = forge.statuses /\ forge'.pages = forge.pages
        /\ forge'.branches = forge.branches /\ forge'.elsewhere = forge.elsewhere /\ forge'.labels = forge.labels
    BY DEF Repository
  <1>2. forge.pulls \in Seq(PullType) /\ <<p>> \in Seq(PullType)
    BY DEF Repository
  <1>3. forge'.pulls \in Seq(PullType)
    BY <1>1, <1>2, ConcatProperties
  <1>4. \A i \in DOMAIN forge.pulls : i + 1 \in DOMAIN forge'.pulls /\ forge'.pulls[i + 1] = forge.pulls[i]
    BY <1>1, <1>2
  <1> QED BY <1>1, <1>3, <1>4 DEF Repository, NewestFirst

LEMMA CreatePullKeeps == ASSUME IInv, CreatePull PROVE IInv'
  <1> DEFINE n == Len(forge.pulls) + 1
             p == [n |-> n, head |-> TargetBranch, sha |-> forge.branches[TargetBranch], state |-> "open",
                   fork |-> FALSE]
  <1>1. /\ UNCHANGED <<call, git, got, others>> /\ pc' \in {"ok", "fail"} /\ pc = "create_pull" /\ TypeOK
        /\ forge' = [forge EXCEPT !.pulls = <<p>> \o @]
    BY DEF CreatePull, Wrote, AfterWrite, IInv
  <1>2. TargetBranch \in Branches
    BY <1>1 DEF IInv, Ready, TargetBranch, TypeOK, Called, CheckedOut
  <1>3. p \in PullType
    BY <1>1, <1>2 DEF PullType, TypeOK, Repository
  <1>4. Repository'
    <2> HIDE DEF p
    <2> QED BY <1>1, <1>3, PullOpened DEF TypeOK
  <1>5. TypeOK'
    BY <1>1, <1>4 DEF TypeOK, Called, CheckedOut, Nothing, Exits
  <1>6. written' = Append(written, [kind |-> "pull", on |-> n, labels |-> {}])
    BY DEF CreatePull, Wrote
  <1> QED BY <1>1, <1>5, <1>6, EndsWritten

(***************************************************************************)
(* pr checkout                                                             *)
(***************************************************************************)

(* A step of a checkout, on to the next or to its end.                     *)
LEMMA CheckoutStep ==
    ASSUME IInv, call.cmd = "pr_checkout", pc \in Way, UNCHANGED <<call, forge, written, others>>,
           NEW sha, got' \in {got, [got EXCEPT !.fetched = sha]},
           CheckedOut', pc' \in Way \union {"ok", "fail"},
           pc' \in {"fetch_head", "fetch_pull", "detach", "reset", "look", "switch", "make"} =>
                /\ git'.on = git.on
                /\ pc \in {"fetch_head", "fetch_pull", "detach", "reset", "look", "switch", "make"},
           pc' \in {"detach", "reset", "look", "switch", "make"} => (pc' = "detach" <=> Has("detach")),
           pc' = "reset" => Has("force"),
           pc' \notin {"pull", "pulls"}
    PROVE  IInv'
  <1>0. /\ DOMAIN got' = DOMAIN got /\ got'.page = got.page /\ got'.pull = got.pull /\ got'.labels = got.labels
        /\ got'.first = got.first /\ got'.statuses = got.statuses
    BY DEF IInv, TypeOK, Nothing
  <1>1. TypeOK'
    BY <1>0 DEF IInv, TypeOK, Way, Called, Repository, NewestFirst, Nothing, Exits
  <1>2. CASE pc' \in {"ok", "fail"}
    BY <1>1, <1>2, StepOf, Ending DEF Writing
  <1>3. CASE pc' \in Way
    <2>1. pc' \in {"fetch_head", "fetch_pull", "detach", "reset", "look", "switch", "make", "submodules"}
      BY <1>3 DEF Way
    <2>2. PullKnown'
      BY <1>0, <2>1 DEF IInv, PullKnown, TargetBranch
    <2>3. Ready'
      BY <2>1 DEF Ready, Has
    <2>4. Gathered'
      BY <2>1 DEF Gathered
    <2> QED BY <1>1, <1>3, <2>2, <2>3, <2>4, StepOf, GoingOn
  <1> QED BY <1>2, <1>3

(* Where a fetch goes.                                                     *)
LEMMA FetchKeeps ==
    ASSUME IInv, pc \in {"fetch_head", "fetch_pull"}, NEW sha \in Shas \union {None}, NEW next \in {"fetch_pull", "fail"},
           Fetch(sha, next), UNCHANGED <<call, forge, written, others>>
    PROVE  IInv'
  <1>1. pc \in Way /\ TypeOK
    BY DEF IInv, TypeOK, Exits
  <1>2. call.cmd = "pr_checkout"
    BY <1>1, StepOf
  <1>3. CASE /\ git' = [git EXCEPT !.fetched = sha]
             /\ got' = [got EXCEPT !.fetched = sha]
             /\ pc' = IF Has("detach") THEN "detach" ELSE IF Has("force") THEN "reset" ELSE "look"
    <2>1. CheckedOut' /\ git'.on = git.on
      BY <1>1, <1>3 DEF TypeOK, CheckedOut
    <2> QED BY <1>1, <1>2, <1>3, <2>1, CheckoutStep DEF Way
  <1>4. CASE pc' = next /\ UNCHANGED <<git, got>>
    <2>1. CheckedOut'
      BY <1>1, <1>4 DEF TypeOK, CheckedOut
    <2> QED BY <1>1, <1>2, <1>4, <2>1, CheckoutStep DEF Way
  <1> QED BY <1>3, <1>4 DEF Fetch

LEMMA FetchHeadKeeps == ASSUME IInv, FetchHead PROVE IInv'
  <1>1. OriginHead(got.pull.head) \in Shas \union {None}
    BY DEF FetchHead, OriginHead, IInv, TypeOK, Repository, PullKnown, PullType
  <1> QED BY <1>1, FetchKeeps DEF FetchHead

LEMMA FetchPullKeeps == ASSUME IInv, FetchPull PROVE IInv'
  <1> DEFINE i == CHOOSE i \in DOMAIN forge.pulls : forge.pulls[i].n = got.pull.n
  <1>1. Repository /\ \E k \in DOMAIN forge.pulls : forge.pulls[k].n = got.pull.n
    BY DEF IInv, TypeOK, PullKnown, FetchPull
  <1>2. i \in DOMAIN forge.pulls
    BY <1>1
  <1>3. forge.pulls[i].sha \in Shas \union {None}
    <2>1. \A k \in DOMAIN forge.pulls : forge.pulls[k] \in PullType
      BY <1>1 DEF Repository
    <2> QED BY <1>2, <2>1 DEF PullType
  <1>4. OriginPull(got.pull) \in Shas \union {None}
    BY <1>1, <1>3 DEF OriginPull, Repository
  <1> QED BY <1>4, FetchKeeps DEF FetchPull

LEMMA LookKeeps == ASSUME IInv, Look PROVE IInv'
  <1>1. pc \in Way /\ TypeOK /\ pc = "look"
    BY DEF IInv, TypeOK, Exits, Look
  <1>2. call.cmd = "pr_checkout"
    BY <1>1, StepOf
  <1>3. ~Has("detach") /\ pc' \in {"switch", "make"} /\ UNCHANGED <<call, forge, git, got, written, others>>
    BY DEF IInv, Ready, Look
  <1>4. CheckedOut'
    BY <1>1, <1>3 DEF TypeOK, CheckedOut
  <1>5. pc' \in Way
    BY <1>2, <1>3 DEF Way
  <1> QED BY <1>1, <1>2, <1>3, <1>4, <1>5, CheckoutStep

LEMMA CheckoutActionKeeps == ASSUME IInv, Checkout PROVE IInv'
  <1>1. pc \in Way /\ TypeOK /\ pc \in {"detach", "reset", "switch", "make"}
    BY DEF IInv, TypeOK, Exits, Checkout
  <1>2. call.cmd = "pr_checkout"
    BY <1>1, StepOf
  <1>3. LocalBranch \in Branches
    BY <1>1 DEF LocalBranch, IInv, PullKnown, PullType, TypeOK, Called
  <1>4. pc' \in {"ok", "fail", "submodules"} /\ UNCHANGED <<call, forge, got, written, others>>
    BY DEF Checkout, After
  <1>5. pc' \in Way \union {"ok", "fail"}
    BY <1>2, <1>4 DEF Way
  <1>6. CheckedOut'
    <2> USE <1>1, <1>3 DEF TypeOK, CheckedOut
    <2>1. CASE git' = [git EXCEPT !.on = None, !.at = git.fetched]
      BY <2>1
    <2>2. CASE git' = [git EXCEPT !.on = LocalBranch, !.at = git.fetched, !.heads[LocalBranch] = git.fetched]
      BY <2>2
    <2>3. CASE git' = [git EXCEPT !.on = LocalBranch, !.at = git.heads[LocalBranch]]
      BY <2>3
    <2>4. CASE UNCHANGED git
      BY <2>4
    <2>5. CASE \E sha \in Shas : git' = [git EXCEPT !.on = LocalBranch, !.at = sha, !.heads[LocalBranch] = sha]
      BY <2>5
    <2> QED BY <2>1, <2>2, <2>3, <2>4, <2>5 DEF Checkout
  <1> QED BY <1>1, <1>2, <1>4, <1>5, <1>6, CheckoutStep

LEMMA SubmodulesKeeps == ASSUME IInv, Submodules PROVE IInv'
  <1>1. pc \in Way /\ TypeOK /\ pc = "submodules" /\ UNCHANGED <<call, forge, git, got, written, others>>
        /\ pc' \in {"ok", "fail"}
    BY DEF IInv, TypeOK, Exits, Submodules
  <1>2. call.cmd = "pr_checkout"
    BY <1>1, StepOf
  <1>3. CheckedOut'
    BY <1>1 DEF TypeOK, CheckedOut
  <1> QED BY <1>1, <1>2, <1>3, CheckoutStep

(***************************************************************************)
(* pr checks                                                               *)
(***************************************************************************)

(* A page holds what comes after the pages before it, and is empty only    *)
(* when nothing does.                                                      *)
LEMMA OnPageReads ==
    ASSUME NEW S, NEW list \in Seq(S), NEW page \in Nat \ {0}, NEW size \in Nat \ {0}
    PROVE  LET batch == OnPage(list, page, size)
           IN  /\ batch \in Seq(S) /\ Posted(batch) \subseteq Posted(list)
               /\ (page - 1) * size \in Nat /\ page * size = (page - 1) * size + size
               /\ \A i \in DOMAIN list :
                     i > (page - 1) * size => list[i] \in Posted(batch) \/ i > page * size
               /\ batch = <<>> => \A i \in DOMAIN list : i <= (page - 1) * size
  <1> DEFINE from == (page - 1) * size
             to == page * size
             last == IF to < Len(list) THEN to ELSE Len(list)
             batch == SubSeq(list, from + 1, last)
  <1>1. from \in Nat /\ to = from + size
    BY Z3
  <1> HIDE DEF from, to
  <1>2. last \in Nat /\ last <= Len(list) /\ last <= to
    BY <1>1
  <1> HIDE DEF last
  <1>3. /\ batch \in Seq(S) /\ Len(batch) = (IF from + 1 <= last THEN last - from ELSE 0)
        /\ \A k \in 1..(last - from) : batch[k] = list[from + k]
    BY <1>1, <1>2
  <1>4. \A k \in DOMAIN batch : batch[k] = list[from + k] /\ from + k \in DOMAIN list
    BY <1>1, <1>2, <1>3
  <1> HIDE DEF batch
  <1>5. Posted(batch) \subseteq Posted(list)
    BY <1>4 DEF Posted
  <1>6. ASSUME NEW k \in DOMAIN list, k > from
        PROVE  (list[k] \in Posted(batch) \/ k > to) /\ batch # <<>>
    <2>1. from + 1 <= last
      BY <1>1, <1>2, <1>6 DEF last
    <2>2. Len(batch) > 0
      BY <1>1, <1>2, <1>3, <2>1
    <2>3. CASE k <= to
      <3>1. k - from \in DOMAIN batch
        BY <1>1, <1>2, <1>3, <1>6, <2>1, <2>3 DEF last
      <3>2. k \in Nat /\ from + (k - from) = k
        BY <1>1
      <3>3. batch[k - from] = list[k]
        BY <1>4, <3>1, <3>2
      <3> QED BY <2>2, <3>1, <3>3 DEF Posted
    <2>4. CASE k > to
      BY <2>2, <2>4
    <2> QED BY <1>1, <2>3, <2>4
  <1>7. \A k \in DOMAIN list : k > from => (list[k] \in Posted(batch) \/ k > to) /\ batch # <<>>
    BY <1>6
  <1>8. batch = <<>> => \A k \in DOMAIN list : k <= from
    BY <1>1, <1>7
  <1>9. batch = OnPage(list, page, size)
    BY DEF OnPage, batch, last, from, to
  <1> QED BY <1>1, <1>3, <1>5, <1>7, <1>8, <1>9 DEF from, to

(* Of statuses of a list that comes newest first, each context has one no  *)
(* other is newer than.                                                    *)
LEMMA NewestIs ==
    ASSUME NEW list \in Seq(StatusType), NewestFirst(list), NEW posted, Posted(posted) \subseteq Posted(list),
           NEW s \in Posted(posted)
    PROVE  \E t \in Latest(posted) : t.context = s.context /\ ~Newer(s, t)
  <1> DEFINE own == {i \in DOMAIN list : list[i] \in Posted(posted) /\ list[i].context = s.context}
             first == CHOOSE i \in own : \A j \in own : i <= j
             t == list[first]
  <1>1. own \in SUBSET Nat /\ own # {}
    BY DEF Posted
  <1>2. first \in own /\ \A j \in own : first <= j
    <2> HIDE DEF own
    <2> QED BY <1>1, LeastExists
  <1> HIDE DEF first
  <1>3. t \in Posted(posted) /\ t.context = s.context /\ first \in DOMAIN list
    BY <1>2
  <1>4. ASSUME NEW u \in Posted(posted), u.context = s.context
        PROVE  ~Newer(u, t)
    <2>1. PICK j \in DOMAIN list : u = list[j]
      BY DEF Posted
    <2>2. first <= j /\ first \in 1..j
      BY <1>2, <1>4, <2>1
    <2>3. list[j].time <= list[first].time /\ list[j].id = Len(list) + 1 - j /\ list[first].id = Len(list) + 1 - first
      BY <1>3, <2>2 DEF NewestFirst
    <2>4. list[j] \in StatusType /\ list[first] \in StatusType
      BY <1>3
    <2> QED BY <1>3, <2>1, <2>2, <2>3, <2>4 DEF Newer, StatusType
  <1>5. t \in Latest(posted)
    BY <1>3, <1>4 DEF Latest
  <1> HIDE DEF t
  <1> QED BY <1>3, <1>4, <1>5

(* What an end of pr checks says of what has been read holds of all there  *)
(* was at first.                                                           *)
LEMMA ChecksVerdict ==
    ASSUME NEW list \in Seq(StatusType), NewestFirst(list), NEW posted, Posted(posted) \subseteq Posted(list),
           NEW first \in SUBSET Posted(posted), NEW rule, NEW required \in BOOLEAN,
           NEW rows, rows = Rows(posted, required, rule), rows # {},
           ExitOf(rows) \in {"ok", "pending"}
    PROVE  LET counts(s) == required => Required(s.context, rule)
               bad == IF ExitOf(rows) = "ok" THEN {"fail", "pending"} ELSE {"fail"}
           IN  /\ \A s \in first : counts(s) =>
                     \E t \in Posted(list) : t.context = s.context /\ ~Newer(s, t) /\ Bucket(t) \notin bad
               /\ \E t \in Posted(list) :
                     /\ counts(t)
                     /\ ExitOf(rows) = "pending" => Bucket(t) = "pending"
                     /\ \A s \in first : s.context = t.context => ~Newer(s, t)
  <1> DEFINE counts(s) == required => Required(s.context, rule)
             bad == IF ExitOf(rows) = "ok" THEN {"fail", "pending"} ELSE {"fail"}
  <1>1. \A t : t \in rows <=> t \in Latest(posted) /\ counts(t)
    BY DEF Rows
  <1>2. \A t \in rows : Bucket(t) \notin bad
    BY DEF ExitOf
  <1>3. ExitOf(rows) = "pending" => \E t \in rows : Bucket(t) = "pending"
    BY DEF ExitOf
  <1>4. \A t \in Latest(posted) :
            t \in Posted(list) /\ \A s \in first : s.context = t.context => ~Newer(s, t)
    BY DEF Latest
  <1>5. ASSUME NEW s \in first, counts(s)
        PROVE  \E t \in Posted(list) : t.context = s.context /\ ~Newer(s, t) /\ Bucket(t) \notin bad
    <2>1. PICK t \in Latest(posted) : t.context = s.context /\ ~Newer(s, t)
      BY NewestIs
    <2>2. t \in rows
      BY <1>1, <1>5, <2>1
    <2> HIDE DEF bad
    <2> QED BY <1>2, <1>4, <2>1, <2>2
  <1>6. \E t \in rows : ExitOf(rows) = "pending" => Bucket(t) = "pending"
    BY <1>3
  <1> HIDE DEF bad
  <1>7. \E t \in Posted(list) :
            /\ counts(t)
            /\ ExitOf(rows) = "pending" => Bucket(t) = "pending"
            /\ \A s \in first : s.context = t.context => ~Newer(s, t)
    BY <1>1, <1>4, <1>6
  <1> QED BY <1>5, <1>7 DEF bad

(* The statuses read so far, and the verdict once all are.                 *)
LEMMA VerdictKeeps ==
    ASSUME IInv, pc \in {"statuses", "protection"}, UNCHANGED <<call, forge, git, written, others>>, TypeOK',
           got'.pull = got.pull, NEW posted,
           Posted(posted) \subseteq Posted(forge.statuses[got.pull.sha]), got'.first \subseteq Posted(posted),
           NEW rule, Has("required") => rule = forge.rule, pc' = Verdict(posted, rule)
    PROVE  IInv'
  <1> DEFINE list == forge.statuses[got.pull.sha]
             rows == Rows(posted, Has("required"), rule)
  <1>1. pc \in Way /\ written = <<>> /\ TypeOK
    BY DEF IInv, TypeOK, Exits, Unwritten
  <1>2. call.cmd = "pr_checks"
    BY <1>1, StepOf
  <1>3. pc' \in {"ok", "fail", "pending"}
    BY DEF Verdict, ExitOf
  <1>4. WritesOnce'
    BY <1>1, <1>2 DEF WritesOnce, Writing
  <1>5. Asked' /\ Unwritten' /\ PullKnown' /\ Ready' /\ Gathered'
    BY <1>3 DEF Asked, Unwritten, PullKnown, Ready, Gathered, Exits
  <1>6. ASSUME ~Has("json"), pc' \in {"ok", "pending"} PROVE ChecksTruthful'
    <2>1. rows # {} /\ pc' = ExitOf(rows)
      BY <1>6 DEF Verdict
    <2>2. list \in Seq(StatusType) /\ NewestFirst(list)
      BY <1>1 DEF IInv, Gathered, TypeOK, Repository
    <2>3. Has("required")' = Has("required") /\ Has("required") \in BOOLEAN /\ Posted(list)' = Posted(list)
      BY DEF Has, Posted
    <2>4. \A s : (Has("required") => Required(s.context, rule)) <=> (Has("required") => Required(s.context, forge.rule))
      OBVIOUS
    <2>5. rows = Rows(posted, Has("required"), rule) /\ Posted(posted) \subseteq Posted(list)
          /\ got'.first \in SUBSET Posted(posted)
      OBVIOUS
    <2> HIDE DEF list, rows
    <2>6. ExitOf(rows) \in {"ok", "pending"}
      BY <1>6, <2>1
    <2>7. LET bad == IF pc' = "ok" THEN {"fail", "pending"} ELSE {"fail"}
          IN  /\ \A s \in got'.first : (Has("required") => Required(s.context, rule)) =>
                    \E t \in Posted(list) : t.context = s.context /\ ~Newer(s, t) /\ Bucket(t) \notin bad
              /\ \E t \in Posted(list) :
                    /\ Has("required") => Required(t.context, rule)
                    /\ pc' = "pending" => Bucket(t) = "pending"
                    /\ \A s \in got'.first : s.context = t.context => ~Newer(s, t)
      <3>1. LET bad == IF ExitOf(rows) = "ok" THEN {"fail", "pending"} ELSE {"fail"}
            IN  /\ \A s \in got'.first : (Has("required") => Required(s.context, rule)) =>
                      \E t \in Posted(list) : t.context = s.context /\ ~Newer(s, t) /\ Bucket(t) \notin bad
                /\ \E t \in Posted(list) :
                      /\ Has("required") => Required(t.context, rule)
                      /\ ExitOf(rows) = "pending" => Bucket(t) = "pending"
                      /\ \A s \in got'.first : s.context = t.context => ~Newer(s, t)
        BY <2>1, <2>2, <2>3, <2>5, <2>6, ChecksVerdict
      <3> QED BY <2>1, <3>1
    <2> QED BY <2>3, <2>4, <2>7 DEF ChecksTruthful, list
  <1>7. ChecksTruthful'
    BY <1>6 DEF ChecksTruthful, Has
  <1> QED BY <1>4, <1>5, <1>7 DEF IInv

LEMMA ReadProtectionKeeps == ASSUME IInv, ReadProtection PROVE IInv'
  <1>1. TypeOK /\ pc = "protection" /\ UNCHANGED <<call, forge, git, written, others>>
    BY DEF IInv, ReadProtection
  <1>2. /\ DOMAIN got' = DOMAIN got /\ got'.page = got.page /\ got'.pull = got.pull /\ got'.first = got.first
    BY <1>1 DEF ReadProtection, TypeOK, Nothing
  <1>3. /\ Posted(got.statuses) \subseteq Posted(forge.statuses[got.pull.sha])
        /\ got'.first \subseteq Posted(got.statuses)
    BY <1>1, <1>2 DEF IInv, Gathered
  <1>4. pc' = Verdict(got.statuses, forge.rule)
    BY DEF ReadProtection
  <1>5. pc' \in Exits
    BY <1>4 DEF Verdict, ExitOf, Exits
  <1>6. TypeOK'
    BY <1>1, <1>2, <1>5, Frame
  <1> QED BY <1>1, <1>2, <1>3, <1>4, <1>6, VerdictKeeps

(* Two lists of statuses, one after the other.                             *)
LEMMA PostedBoth ==
    ASSUME NEW S, NEW a \in Seq(S), NEW b \in Seq(S)
    PROVE  a \o b \in Seq(S) /\ Posted(a \o b) = Posted(a) \union Posted(b)
  <1> DEFINE all == a \o b
             n == Len(a)
             m == Len(b)
  <1>1. /\ n \in Nat /\ m \in Nat /\ DOMAIN a = 1..n /\ DOMAIN b = 1..m
        /\ all \in Seq(S) /\ DOMAIN all = 1..(n + m)
        /\ \A k \in 1..(n + m) : all[k] = IF k <= n THEN a[k] ELSE b[k - n]
    BY ConcatProperties
  <1> HIDE DEF all, n, m
  <1>2. \A k \in DOMAIN a : k \in DOMAIN all /\ all[k] = a[k]
    BY <1>1
  <1>3. \A k \in DOMAIN b : k + n \in DOMAIN all /\ all[k + n] = b[k]
    BY <1>1
  <1>4. ASSUME NEW k \in DOMAIN all
        PROVE  all[k] \in Posted(a) \union Posted(b)
    <2>1. CASE k <= n
      BY <1>1, <2>1 DEF Posted
    <2>2. CASE k > n
      <3>1. k - n \in 1..m /\ ~(k <= n) /\ k \in 1..(n + m)
        BY <1>1, <2>2
      <3>2. all[k] = b[k - n]
        BY <1>1, <3>1
      <3> QED BY <1>1, <3>1, <3>2 DEF Posted
    <2> QED BY <1>1, <2>1, <2>2
  <1>5. Posted(all) = Posted(a) \union Posted(b)
    BY <1>2, <1>3, <1>4 DEF Posted
  <1> QED BY <1>1, <1>5 DEF all

LEMMA ReadStatusesKeeps == ASSUME IInv, ReadStatuses PROVE IInv'
  <1> DEFINE list == forge.statuses[got.pull.sha]
             batch == StatusPage(got.pull.sha, got.page)
             all == got.statuses \o batch
             page == IF forge.pages THEN got.page ELSE 1
  <1>1. TypeOK /\ pc \in Way /\ pc = "statuses" /\ UNCHANGED <<call, forge, git, written, others>>
    BY DEF IInv, TypeOK, Exits, ReadStatuses
  <1>2. call.cmd = "pr_checks" /\ {"statuses", "protection"} \subseteq Way
    BY <1>1, StepOf DEF Way
  <1>3. CASE got.page > MAX_PAGES
    <2>1. pc' = "fail" /\ UNCHANGED got
      BY <1>3 DEF ReadStatuses
    <2>2. TypeOK'
      BY <1>1, <2>1, Frame DEF Exits
    <2> QED BY <1>1, <2>1, <2>2, StepOf, Ending
  <1>4. CASE ~(got.page > MAX_PAGES)
    <2>1. got.page \in Nat \ {0} /\ got.page <= MAX_PAGES /\ MAX_PAGES \in Nat /\ STATUSES \in Nat \ {0}
          /\ page \in Nat \ {0}
      BY <1>1, <1>4, BuiltInAssumption DEF TypeOK
    <2>2. /\ list \in Seq(StatusType) /\ NewestFirst(list) /\ got.statuses \in Seq(StatusType)
          /\ got.first \union Posted(got.statuses) \subseteq Posted(list)
          /\ forge.pages => \A k \in DOMAIN list : list[k] \in got.first =>
                list[k] \in Posted(got.statuses) \/ k > (got.page - 1) * STATUSES
      BY <1>1 DEF IInv, Gathered, TypeOK, Repository
    <2>3. /\ DOMAIN got' = DOMAIN got /\ got'.page = got.page + 1 /\ got'.statuses = all
          /\ got'.pull = got.pull /\ got'.first = IF got.page = 1 THEN Latest(list) ELSE got.first
      <3>1. got' = [got EXCEPT !.page = @ + 1, !.statuses = all,
                              !.first = IF got.page = 1 THEN Latest(list) ELSE @]
        BY <1>4 DEF ReadStatuses
      <3> HIDE DEF list, all
      <3> QED BY <1>1, <3>1 DEF TypeOK, Nothing
    <2>4. pc' = IF batch # <<>> THEN "statuses"
                ELSE IF all = <<>> THEN "fail"
                ELSE IF Has("required") THEN "protection"
                ELSE Verdict(all, [on |-> FALSE, patterns |-> {}])
      BY <1>4 DEF ReadStatuses, StatusesDone
    <2>5. /\ batch \in Seq(StatusType) /\ Posted(batch) \subseteq Posted(list)
          /\ (page - 1) * STATUSES \in Nat /\ page * STATUSES = (page - 1) * STATUSES + STATUSES
          /\ \A k \in DOMAIN list : k > (page - 1) * STATUSES => list[k] \in Posted(batch) \/ k > page * STATUSES
          /\ batch = <<>> => \A k \in DOMAIN list : k <= (page - 1) * STATUSES
      <3>1. batch = OnPage(list, page, STATUSES)
        BY DEF StatusPage
      <3> HIDE DEF list, page, batch
      <3> QED BY <2>1, <2>2, <3>1, OnPageReads
    <2>6. all \in Seq(StatusType) /\ Posted(all) = Posted(got.statuses) \union Posted(batch)
      <3> HIDE DEF batch
      <3> QED BY <2>2, <2>5, PostedBoth
    <2> HIDE DEF all, batch
    <2>7. got'.first \subseteq Posted(list) /\ Posted(all) \subseteq Posted(list)
      <3>1. Latest(list) \subseteq Posted(list)
        BY DEF Latest
      <3> QED BY <2>2, <2>3, <2>5, <2>6, <3>1
    <2>8. TypeOK' /\ Posted(list)' = Posted(list) /\ list' = list
      <3>1. pc' \in Way \union Exits
        BY <1>2, <2>4 DEF Exits, Verdict, ExitOf
      <3>2. Way' = Way
        BY <1>1 DEF Way
      <3>3. got'.page \in 1..MAX_PAGES + 1 /\ DOMAIN got' = (DOMAIN Nothing)'
        BY <1>1, <2>1, <2>3 DEF TypeOK, Nothing
      <3>4. list' = list
        BY <1>1, <2>3
      <3> QED BY <1>1, <3>1, <3>2, <3>3, <3>4 DEF TypeOK, Called, Repository, NewestFirst, CheckedOut, Posted
    <2>9. CASE batch # <<>>
      <3>1. pc' = "statuses" /\ got'.pull.sha \in Shas
        BY <1>1, <2>3, <2>4, <2>9 DEF IInv, Gathered
      <3>2. ASSUME forge.pages, NEW k \in DOMAIN list, list[k] \in got'.first
            PROVE  list[k] \in Posted(all) \/ k > (got'.page - 1) * STATUSES
        <4>1. page = got.page /\ got'.page - 1 = page
          BY <2>1, <2>3, <3>2
        <4>2. list[k] \in Posted(got.statuses) \/ k > (page - 1) * STATUSES
          <5>1. CASE got.page = 1
            <6>1. (page - 1) * STATUSES = 0
              BY <2>1, <4>1, <5>1
            <6>2. k > 0
              BY <2>2
            <6> QED BY <6>1, <6>2
          <5>2. CASE got.page # 1
            BY <2>2, <2>3, <3>2, <4>1, <5>2
          <5> QED BY <5>1, <5>2
        <4> HIDE DEF page, list
        <4> QED BY <2>5, <2>6, <4>1, <4>2
      <3>3. Gathered'
        BY <1>1, <2>3, <2>6, <2>7, <2>8, <3>1, <3>2 DEF Gathered
      <3>4. PullKnown' /\ Ready'
        BY <1>1, <2>3, <3>1 DEF IInv, PullKnown, Ready, TargetBranch, Has
      <3> QED BY <1>1, <1>2, <2>8, <3>1, <3>3, <3>4, StepOf, GoingOn
    <2>10. CASE batch = <<>>
      <3>1. got'.first \subseteq Posted(all)
        <4>1. Posted(batch) = {}
          BY <2>10 DEF Posted
        <4>2. ASSUME NEW s \in got'.first PROVE s \in Posted(all)
          <5>1. PICK k \in DOMAIN list : s = list[k]
            BY <2>7 DEF Posted
          <5>2. k > 0 /\ k \in Nat /\ k <= (page - 1) * STATUSES
            BY <2>2, <2>5, <2>10, <5>1
          <5>3. got.page # 1 /\ forge.pages
            <6>1. page # 1
              <7>1. SUFFICES ASSUME page = 1 PROVE FALSE
                OBVIOUS
              <7>2. (page - 1) * STATUSES = 0
                BY <2>1, <7>1
              <7> QED BY <5>2, <7>2
            <6> QED BY <6>1
          <5>4. page = got.page /\ list[k] \in got.first
            BY <2>3, <5>1, <5>3
          <5>5. ~(k > (got.page - 1) * STATUSES)
            <6> HIDE DEF page
            <6> QED BY <2>5, <5>2, <5>4
          <5> QED BY <2>2, <2>6, <5>1, <5>3, <5>4, <5>5
        <4> QED BY <4>2
      <3>2. CASE pc' = "fail"
        BY <1>1, <2>8, <3>2, StepOf, Ending
      <3>3. CASE pc' = "protection"
        <4>1. Gathered'
          BY <1>1, <2>3, <2>6, <2>7, <2>8, <3>1, <3>3 DEF IInv, Gathered
        <4>2. PullKnown' /\ Ready'
          BY <1>1, <2>3, <3>3 DEF IInv, PullKnown, Ready, TargetBranch, Has
        <4> QED BY <1>1, <1>2, <2>8, <3>3, <4>1, <4>2, StepOf, GoingOn
      <3>4. CASE ~Has("required") /\ pc' = Verdict(all, [on |-> FALSE, patterns |-> {}])
        BY <1>1, <2>3, <2>7, <2>8, <3>1, <3>4, VerdictKeeps
      <3> QED BY <2>4, <2>10, <3>2, <3>3, <3>4
    <2> QED BY <2>9, <2>10
  <1> QED BY <1>3, <1>4

(***************************************************************************)
(* Others                                                                  *)
(***************************************************************************)

(* What others change at the forge under a command's steps.                *)
LEMMA OthersAtForge ==
    ASSUME IInv, pc \in Way, UNCHANGED <<call, pc, git, got, written>>, others' \in 0..MaxOthers, Repository',
           \A n : (\E i \in DOMAIN forge.pulls : forge.pulls[i].n = n) =>
                \E i \in DOMAIN forge'.pulls : forge'.pulls[i].n = n,
           Gathered'
    PROVE  IInv'
  <1>1. TypeOK'
    BY DEF IInv, TypeOK, Called, CheckedOut, Nothing, Way, Exits
  <1>2. PullKnown' /\ Ready'
    BY DEF IInv, PullKnown, Ready, TargetBranch, Has, Names
  <1> QED BY <1>1, <1>2, StepOf, GoingOn

(* The statuses there were are read as before.                             *)
LEMMA SameStatuses ==
    ASSUME IInv, UNCHANGED <<pc, got>>, forge'.statuses = forge.statuses, forge'.pages = forge.pages
    PROVE  Gathered'
  <1>1. /\ Posted(got.statuses)' = Posted(got.statuses)
        /\ Posted(forge.statuses[got.pull.sha])' = Posted(forge.statuses[got.pull.sha])
    BY DEF Posted
  <1>2. forge'.statuses[got'.pull.sha] = forge.statuses[got.pull.sha]
    OBVIOUS
  <1> QED BY <1>1, <1>2 DEF IInv, Gathered

LEMMA OpenPullKeeps ==
    ASSUME IInv, pc \in Way, OpenPull, others' \in 0..MaxOthers, UNCHANGED <<call, pc, got, written>>
    PROVE  IInv'
  <1>1. PICK b \in Branches, sha \in Shas, fork \in BOOLEAN :
          forge' = [forge EXCEPT !.pulls =
                <<[n |-> Len(@) + 1, head |-> b, sha |-> sha, state |-> "open", fork |-> fork]>> \o @]
    BY DEF OpenPull
  <1> DEFINE p == [n |-> Len(forge.pulls) + 1, head |-> b, sha |-> sha, state |-> "open", fork |-> fork]
  <1>2. p \in PullType /\ Repository
    BY DEF PullType, IInv, TypeOK, Repository
  <1>3. forge' = [forge EXCEPT !.pulls = <<p>> \o @]
    BY <1>1
  <1> HIDE DEF p
  <1>4. /\ Repository' /\ forge'.statuses = forge.statuses /\ forge'.pages = forge.pages
        /\ \A n : (\E i \in DOMAIN forge.pulls : forge.pulls[i].n = n) =>
                \E i \in DOMAIN forge'.pulls : forge'.pulls[i].n = n
    BY <1>2, <1>3, PullOpened
  <1> QED BY <1>4, SameStatuses, OthersAtForge DEF OpenPull

(* The pull requests change, each stays the one it is.                     *)
LEMMA PullsChanged ==
    ASSUME IInv, pc \in Way, UNCHANGED <<call, pc, git, got, written>>, others' \in 0..MaxOthers,
           NEW pulls \in Seq(PullType), NEW branches \in [Branches -> Shas \union {None}],
           DOMAIN pulls = DOMAIN forge.pulls, \A i \in DOMAIN pulls : pulls[i].n = forge.pulls[i].n,
           forge' = [forge EXCEPT !.pulls = pulls, !.branches = branches]
    PROVE  IInv'
  <1>1. Repository
    BY DEF IInv, TypeOK
  <1>2. /\ DOMAIN forge' = DOMAIN forge /\ forge'.pulls = pulls /\ forge'.branches = branches
        /\ forge'.statuses = forge.statuses /\ forge'.pages = forge.pages
        /\ forge'.elsewhere = forge.elsewhere /\ forge'.labels = forge.labels
    BY <1>1 DEF Repository
  <1>3. Repository'
    BY <1>1, <1>2 DEF Repository, NewestFirst
  <1>4. \A n : (\E i \in DOMAIN forge.pulls : forge.pulls[i].n = n) =>
            \E i \in DOMAIN forge'.pulls : forge'.pulls[i].n = n
    BY <1>2
  <1> QED BY <1>2, <1>3, <1>4, SameStatuses, OthersAtForge

LEMMA ClosePullKeeps ==
    ASSUME IInv, pc \in Way, ClosePull, others' \in 0..MaxOthers, UNCHANGED <<call, pc, got, written>>
    PROVE  IInv'
  <1>1. PICK i \in DOMAIN forge.pulls, s \in {"closed", "merged"} :
          forge' = [forge EXCEPT !.pulls[i].state = s] /\ UNCHANGED git
    BY DEF ClosePull
  <1> DEFINE pulls == [forge.pulls EXCEPT ![i].state = s]
  <1>2. Repository /\ forge.pulls \in Seq(PullType)
    BY DEF IInv, TypeOK, Repository
  <1>3. forge.pulls[i] \in PullType /\ [forge.pulls[i] EXCEPT !.state = s] \in PullType
        /\ [forge.pulls[i] EXCEPT !.state = s].n = forge.pulls[i].n
    <2>1. forge.pulls[i] \in PullType
      BY <1>2
    <2> QED BY <2>1 DEF PullType
  <1>4. pulls = [forge.pulls EXCEPT ![i] = [forge.pulls[i] EXCEPT !.state = s]]
    BY <1>2
  <1>5. forge' = [forge EXCEPT !.pulls = pulls, !.branches = forge.branches]
    BY <1>1, <1>2 DEF Repository
  <1>6. pulls \in Seq(PullType) /\ DOMAIN pulls = DOMAIN forge.pulls /\ \A k \in DOMAIN pulls : pulls[k].n = forge.pulls[k].n
    BY <1>2, <1>3, <1>4
  <1>7. forge.branches \in [Branches -> Shas \union {None}]
    BY <1>2 DEF Repository
  <1> HIDE DEF pulls
  <1> QED BY <1>1, <1>5, <1>6, <1>7, PullsChanged

LEMMA PushKeeps ==
    ASSUME IInv, pc \in Way, Push, others' \in 0..MaxOthers, UNCHANGED <<call, pc, got, written>>
    PROVE  IInv'
  <1>1. PICK b \in Branches, sha \in Shas :
          forge' = [forge EXCEPT !.branches[b] = sha,
                !.pulls = [i \in DOMAIN @ |->
                    IF @[i].head = b /\ @[i].state = "open" /\ ~@[i].fork
                    THEN [@[i] EXCEPT !.sha = sha] ELSE @[i]]] /\ UNCHANGED git
    BY DEF Push
  <1> DEFINE moved(p) == p.head = b /\ p.state = "open" /\ ~p.fork
             pulls == [i \in DOMAIN forge.pulls |->
                    IF moved(forge.pulls[i]) THEN [forge.pulls[i] EXCEPT !.sha = sha] ELSE forge.pulls[i]]
             branches == [forge.branches EXCEPT ![b] = sha]
  <1>2. Repository /\ forge.pulls \in Seq(PullType) /\ forge.branches \in [Branches -> Shas \union {None}]
    BY DEF IInv, TypeOK, Repository
  <1>3. forge' = [forge EXCEPT !.pulls = pulls, !.branches = branches]
    BY <1>1, <1>2 DEF Repository
  <1>4. \A p \in PullType : [p EXCEPT !.sha = sha] \in PullType /\ [p EXCEPT !.sha = sha].n = p.n
    BY DEF PullType
  <1>5. \A i \in DOMAIN pulls : pulls[i] \in PullType /\ pulls[i].n = forge.pulls[i].n
    BY <1>2, <1>4
  <1>6. DOMAIN pulls = DOMAIN forge.pulls /\ DOMAIN pulls = 1..Len(forge.pulls)
    BY <1>2
  <1>7. branches \in [Branches -> Shas \union {None}]
    BY <1>2
  <1> HIDE DEF pulls, branches
  <1>8. pulls \in Seq(PullType)
    <2>1. pulls = [i \in 1..Len(forge.pulls) |-> pulls[i]]
      BY <1>6 DEF pulls
    <2> QED BY <1>2, <1>5, <1>6, <2>1
  <1> QED BY <1>1, <1>3, <1>5, <1>6, <1>7, <1>8, PullsChanged

LEMMA ChangeLabelKeeps ==
    ASSUME IInv, pc \in Way, ChangeLabel, others' \in 0..MaxOthers, UNCHANGED <<call, pc, got, written>>
    PROVE  IInv'
  <1>1. PICK l \in forge.labels, name \in Labels \union {None} :
          /\ forge' = [forge EXCEPT !.labels =
                (@ \ {l}) \union (IF name = None THEN {} ELSE {[l EXCEPT !.name = name]})]
          /\ UNCHANGED git
    BY DEF ChangeLabel
  <1>2. Repository
    BY DEF IInv, TypeOK
  <1>3. /\ DOMAIN forge' = DOMAIN forge /\ forge'.pulls = forge.pulls /\ forge'.branches = forge.branches
        /\ forge'.statuses = forge.statuses /\ forge'.pages = forge.pages
        /\ forge'.elsewhere = forge.elsewhere
        /\ forge'.labels \subseteq [id : Ids, name : Labels]
    BY <1>1, <1>2 DEF Repository
  <1>4. Repository'
    BY <1>2, <1>3 DEF Repository, NewestFirst
  <1> QED BY <1>1, <1>3, <1>4, SameStatuses, OthersAtForge

LEMMA OtherShellKeeps ==
    ASSUME IInv, pc \in Way, OtherShell, others' \in 0..MaxOthers, UNCHANGED <<call, pc, got, written>> PROVE IInv'
  <1>1. CheckedOut /\ forge' = forge
    BY DEF IInv, TypeOK, OtherShell
  <1>2. CheckedOut' /\ git'.on = git.on
    <2>1. CASE \E sha \in Shas : git' = [git EXCEPT !.fetched = sha]
      BY <1>1, <2>1 DEF CheckedOut
    <2>2. CASE \E b \in Branches, sha \in Shas \union {None} :
                 git' = [git EXCEPT !.heads[b] = sha, !.at = IF git.on = b THEN sha ELSE @]
      BY <1>1, <2>2 DEF CheckedOut
    <2> QED BY <2>1, <2>2 DEF OtherShell
  <1>3. TypeOK'
    BY <1>1, <1>2 DEF IInv, TypeOK, Called, Repository, NewestFirst, Nothing, Way, Exits
  <1>4. PullKnown' /\ Ready'
    BY <1>1, <1>2 DEF IInv, PullKnown, Ready, TargetBranch, Has, Names
  <1>5. Gathered'
    BY <1>1, SameStatuses
  <1> QED BY <1>3, <1>4, <1>5, StepOf, GoingOn

(* A status more, before the others.                                       *)
LEMMA PostStatusKeeps ==
    ASSUME IInv, pc \in Way, PostStatus, others' \in 0..MaxOthers, UNCHANGED <<call, pc, got, written>>
    PROVE  IInv'
  <1>1. PICK sha \in Shas, c \in Contexts, s \in CommitStates, note \in Notes, later \in {0, 1} :
          LET old == forge.statuses[sha]
              now == IF old = <<>> THEN 1 ELSE Head(old).time + later
          IN  /\ note # "none" => c \in Jobs
              /\ note \in {"waiting", "blocked"} => s = "pending"
              /\ note = "skipped" => s = "success"
              /\ note = "cancelled" => s = "failure"
              /\ forge' = [forge EXCEPT !.statuses[sha] =
                    <<[context |-> c, state |-> s, note |-> note, time |-> now, id |-> Len(old) + 1]>>
                        \o old]
              /\ UNCHANGED git
    BY Zenon DEF PostStatus
  <1> DEFINE old == forge.statuses[sha]
             now == IF old = <<>> THEN 1 ELSE Head(old).time + later
             new == [context |-> c, state |-> s, note |-> note, time |-> now, id |-> Len(old) + 1]
             list == <<new>> \o old
  <1>2. Repository /\ old \in Seq(StatusType) /\ NewestFirst(old)
    BY DEF IInv, TypeOK, Repository
  <1>3. forge' = [forge EXCEPT !.statuses = [forge.statuses EXCEPT ![sha] = list]]
    BY <1>1, <1>2 DEF Repository
  <1>4. \A k \in DOMAIN old : old[k] \in StatusType /\ old[k].id = Len(old) + 1 - k /\ old[k].time \in Nat
                            /\ old[k].time <= old[1].time
    <2>1. \A k \in DOMAIN old : old[k] \in StatusType /\ 1 \in 1..k
      BY <1>2
    <2> QED BY <1>2, <2>1 DEF NewestFirst, StatusType
  <1>5. now \in Nat /\ \A k \in DOMAIN old : old[k].time <= now
    <2>1. CASE old = <<>>
      BY <2>1
    <2>2. CASE old # <<>>
      <3>1. 1 \in DOMAIN old /\ Head(old) = old[1]
        BY <1>2, <2>2
      <3>2. now = old[1].time + later /\ old[1].time \in Nat
        BY <1>4, <2>2, <3>1
      <3> HIDE DEF now, old
      <3>3. later \in Nat
        OBVIOUS
      <3> QED BY <1>4, <3>2, <3>3
    <2> QED BY <2>1, <2>2
  <1> HIDE DEF now
  <1>6. new \in StatusType /\ new.id = Len(old) + 1 /\ new.time = now
    BY <1>2, <1>5 DEF StatusType
  <1> HIDE DEF new
  <1>7. /\ list \in Seq(StatusType) /\ Len(list) = Len(old) + 1 /\ list[1] = new
        /\ \A k \in DOMAIN list : k # 1 => k - 1 \in DOMAIN old /\ list[k] = old[k - 1]
        /\ \A k \in DOMAIN old : k + 1 \in DOMAIN list /\ list[k + 1] = old[k]
    <2>1. <<new>> \in Seq(StatusType) /\ Len(<<new>>) = 1 /\ <<new>>[1] = new
      BY <1>6
    <2>2. /\ list \in Seq(StatusType) /\ Len(list) = 1 + Len(old)
          /\ \A k \in 1..(1 + Len(old)) : list[k] = IF k <= 1 THEN <<new>>[k] ELSE old[k - 1]
      BY <1>2, <2>1, ConcatProperties
    <2>3. Len(old) \in Nat /\ DOMAIN old = 1..Len(old) /\ DOMAIN list = 1..(1 + Len(old))
      BY <1>2, <2>2
    <2> HIDE DEF list, old
    <2> QED BY <2>1, <2>2, <2>3
  <1> HIDE DEF list
  <1>8. NewestFirst(list)
    <2>1. ASSUME NEW i \in DOMAIN list PROVE list[i].id = Len(list) + 1 - i
      <3>1. CASE i = 1
        BY <1>2, <1>6, <1>7, <3>1
      <3>2. CASE i # 1
        <4>1. i - 1 \in DOMAIN old /\ list[i] = old[i - 1] /\ i \in Nat /\ Len(old) \in Nat
          BY <1>2, <1>7, <3>2
        <4>2. old[i - 1].id = Len(old) + 1 - (i - 1)
          BY <1>4, <4>1
        <4> QED BY <1>7, <4>1, <4>2
      <3> QED BY <3>1, <3>2
    <2>2. ASSUME NEW i \in DOMAIN list, NEW j \in 1..i PROVE list[i].time <= list[j].time
      <3>0. Len(old) \in Nat /\ i \in 1..(Len(old) + 1)
        BY <1>2, <1>7
      <3>1. CASE i = 1
        <4>1. i = j
          BY <3>0, <3>1
        <4> QED BY <1>5, <1>6, <1>7, <3>1, <4>1
      <3>2. CASE i # 1 /\ j = 1
        BY <1>4, <1>5, <1>6, <1>7, <3>2
      <3>3. CASE i # 1 /\ j # 1
        <4>1. i - 1 \in DOMAIN old /\ j - 1 \in 1..(i - 1) /\ j \in DOMAIN list
          BY <1>7, <3>0, <3>3
        <4>2. old[i - 1].time <= old[j - 1].time
          BY <1>2, <4>1 DEF NewestFirst
        <4> QED BY <1>7, <3>3, <4>1, <4>2
      <3> QED BY <3>1, <3>2, <3>3
    <2> QED BY <2>1, <2>2 DEF NewestFirst
  <1>9. /\ DOMAIN forge' = DOMAIN forge /\ forge'.statuses = [forge.statuses EXCEPT ![sha] = list]
        /\ forge'.pulls = forge.pulls /\ forge'.branches = forge.branches /\ forge'.pages = forge.pages
        /\ forge'.elsewhere = forge.elsewhere /\ forge'.labels = forge.labels
    BY <1>2, <1>3 DEF Repository
  <1>10. Repository'
    <2>1. forge'.statuses \in [Shas -> Seq(StatusType)]
      BY <1>2, <1>7, <1>9 DEF Repository
    <2>2. \A h \in Shas : NewestFirst(forge'.statuses[h])
      BY <1>2, <1>8, <1>9 DEF Repository
    <2> QED BY <1>2, <1>9, <2>1, <2>2 DEF Repository
  <1>11. Gathered'
    <2>1. CASE got.pull.sha # sha \/ pc \notin {"statuses", "protection"}
      <3>1. pc \in {"statuses", "protection"} => forge'.statuses[got.pull.sha] = forge.statuses[got.pull.sha]
        BY <1>2, <1>9, <2>1 DEF IInv, Gathered, Repository
      <3>2. Posted(got.statuses)' = Posted(got.statuses) /\ got' = got /\ pc' = pc
        BY DEF Posted
      <3> QED BY <1>9, <3>1, <3>2 DEF IInv, Gathered
    <2>2. CASE got.pull.sha = sha /\ pc \in {"statuses", "protection"}
      <3>1. forge'.statuses[got'.pull.sha] = list /\ forge.statuses[got.pull.sha] = old
        BY <1>2, <1>9, <2>2 DEF Repository
      <3>2. /\ got.statuses \in Seq(StatusType) /\ got.first \union Posted(got.statuses) \subseteq Posted(old)
            /\ pc = "protection" => got.first \subseteq Posted(got.statuses)
            /\ pc = "statuses" /\ forge.pages =>
                  \A k \in DOMAIN old : old[k] \in got.first =>
                      old[k] \in Posted(got.statuses) \/ k > (got.page - 1) * STATUSES
        BY <2>2, <3>1 DEF IInv, Gathered
      <3>3. Posted(old) \subseteq Posted(list)
        BY <1>7 DEF Posted
      <3>4. new \notin Posted(old)
        BY <1>2, <1>4, <1>6 DEF Posted
      <3>5. got.page \in Nat \ {0} /\ STATUSES \in Nat
        BY BuiltInAssumption DEF IInv, TypeOK
      <3>6. (got.page - 1) * STATUSES \in Nat
        BY <3>5
      <3>7. ASSUME pc = "statuses", forge.pages, NEW k \in DOMAIN list, list[k] \in got.first
            PROVE  list[k] \in Posted(got.statuses) \/ k > (got.page - 1) * STATUSES
        <4>1. k # 1
          BY <1>7, <3>2, <3>4, <3>7
        <4>2. k - 1 \in DOMAIN old /\ list[k] = old[k - 1] /\ k \in Nat
          BY <1>7, <4>1
        <4> DEFINE from == (got.page - 1) * STATUSES
        <4>3. old[k - 1] \in Posted(got.statuses) \/ k - 1 > from
          BY <3>2, <3>7, <4>2
        <4> HIDE DEF from
        <4>4. from \in Nat
          BY <3>6 DEF from
        <4>5. k - 1 > from => k > from
          BY <4>2, <4>4
        <4> QED BY <4>2, <4>3, <4>5 DEF from
      <3>8. Posted(got.statuses)' = Posted(got.statuses) /\ got' = got /\ pc' = pc
        BY DEF Posted
      <3> HIDE DEF old
      <3> QED BY <1>9, <2>2, <3>1, <3>2, <3>3, <3>7, <3>8 DEF Gathered
    <2> QED BY <2>1, <2>2
  <1> QED BY <1>1, <1>9, <1>10, <1>11, OthersAtForge

LEMMA OthersKeeps == ASSUME IInv, Others PROVE IInv'
  <1>1. pc \in Way
    BY DEF IInv, TypeOK, Others, Running
  <1>2. others' \in 0..MaxOthers
    BY BuiltInAssumption DEF IInv, TypeOK, Others
  <1> QED BY <1>1, <1>2, PostStatusKeeps, OpenPullKeeps, ClosePullKeeps, PushKeeps, ChangeLabelKeeps, OtherShellKeeps
          DEF Others

(***************************************************************************)
(* The projections of a commit's statuses                                  *)
(***************************************************************************)

(* What a status is in each of them.                                       *)
LEMMA StatesOf ==
    ASSUME NEW s \in StatusType
    PROVE  /\ CheckState(s) \in {"success", "failure", "error", "pending"}
           /\ ShownState(s) \in {"success", "failure", "error", "pending"}
           /\ CheckState(s) = "success" <=> Bucket(s) \in {"pass", "skipping"}
           /\ CheckState(s) \in {"failure", "error"} <=> Bucket(s) \in {"fail", "cancel"}
           /\ CheckState(s) = "success" <=> s.state = "success"
           /\ CheckState(s) = "pending" <=> ShownState(s) = "pending"
           /\ CheckState(s) \in {"failure", "error"} <=> ShownState(s) \in {"failure", "error"}
  <1>1. s.state \in CommitStates /\ s.note \in Notes
    BY DEF StatusType
  <1>2. CASE s.state = "pending"
    BY <1>2 DEF CheckState, ShownState, Bucket, PlainState, RunOf
  <1>3. CASE s.state = "success"
    BY <1>3 DEF CheckState, ShownState, Bucket, PlainState, RunOf
  <1>4. CASE s.state \in {"error", "failure", "warning"}
    BY <1>4 DEF CheckState, ShownState, Bucket, PlainState, RunOf
  <1> QED BY <1>1, <1>2, <1>3, <1>4 DEF CommitStates

(* The worst of two lots is the worst of each one's worst.                 *)
LEMMA WorstOfBoth ==
    ASSUME NEW A, NEW B
    PROVE  Worst({Worst(A), Worst(B)}) = Worst(A \union B)
  BY DEF Worst

(* The statuses of a repository's commit agree in all their projections.   *)
LEMMA VerdictsOf ==
    ASSUME Repository, NEW sha \in Shas
    PROVE  Verdicts(sha)
  <1> DEFINE posted == forge.statuses[sha]
             latest == Latest(posted)
             runs == CheckRuns(posted)
             rest == (IF runs = {} THEN {} ELSE {Worst({CheckState(s) : s \in runs})})
                         \union (IF runs = latest THEN {} ELSE {Combined(posted)})
             tied == \E i, j \in DOMAIN posted :
                       i # j /\ posted[i].context = posted[j].context /\ posted[i].time = posted[j].time
             counted == {s \in latest : Required(s.context, forge.rule)}
             unmatched == \E p \in forge.rule.patterns : p \intersect ContextsOf(posted) = {}
             passed(s) == Bucket(s) \in {"pass", "skipping"}
  <1>1. posted \in Seq(StatusType) /\ NewestFirst(posted) /\ runs \subseteq latest /\ latest \subseteq Posted(posted)
    BY DEF Repository, CheckRuns, Latest
  <1>2. \A s \in Posted(posted) : s \in StatusType
    BY <1>1 DEF Posted
  <1>3. Rollup(posted) = Worst({CheckState(s) : s \in latest})
    BY DEF Rollup
  <1>4. Worst(rest) = Rollup(posted)
    <2> DEFINE R == {CheckState(s) : s \in runs}
               P == {CheckState(s) : s \in latest \ runs}
    <2>1. \A s \in latest \ runs : CheckState(s) = PlainState(s)
      BY DEF CheckRuns, CheckState
    <2>2. P = {PlainState(s) : s \in latest \ runs}
      BY <2>1
    <2>3. {CheckState(s) : s \in latest} = R \union P
      BY <1>1
    <2>4. runs # latest => Combined(posted) = Worst(P)
      BY <1>1, <2>2 DEF Combined
    <2>5. runs = latest => P = {}
      OBVIOUS
    <2>6. runs = {} => R = {}
      OBVIOUS
    <2> HIDE DEF R, P
    <2>7. CASE runs # {} /\ runs # latest
      <3>1. rest = {Worst(R), Worst(P)}
        BY <2>4, <2>7 DEF R
      <3> HIDE DEF rest, latest
      <3> QED BY <1>3, <2>3, <3>1, WorstOfBoth
    <2>8. CASE runs = {} /\ runs # latest
      <3>1. rest = {Worst(P)} /\ R \union P = P
        BY <2>4, <2>6, <2>8
      <3>2. Worst({Worst(P)}) = Worst(P)
        BY DEF Worst
      <3> HIDE DEF rest, latest
      <3> QED BY <1>3, <2>3, <3>1, <3>2
    <2>9. CASE runs # {} /\ runs = latest
      <3>1. rest = {Worst(R)} /\ R \union P = R
        BY <2>5, <2>9 DEF R
      <3>2. Worst({Worst(R)}) = Worst(R)
        BY DEF Worst
      <3> HIDE DEF rest, latest
      <3> QED BY <1>3, <2>3, <3>1, <3>2
    <2>10. CASE runs = {} /\ runs = latest
      <3>1. rest = {} /\ R \union P = {}
        BY <2>5, <2>6, <2>10
      <3> HIDE DEF rest, latest
      <3> QED BY <1>3, <2>3, <3>1
    <2> QED BY <2>7, <2>8, <2>9, <2>10
  <1> HIDE DEF rest
  <1>5. \A s \in latest :
          /\ CheckState(s) \in {"success", "failure", "error", "pending"}
          /\ CheckState(s) = "success" <=> Bucket(s) \in {"pass", "skipping"}
          /\ CheckState(s) \in {"failure", "error"} <=> Bucket(s) \in {"fail", "cancel"}
          /\ CheckState(s) = "success" <=> s.state = "success"
    BY <1>1, <1>2, StatesOf
  <1>6. Rollup(posted) = "success" <=> {Bucket(s) : s \in latest} \subseteq {"pass", "skipping"}
    <2> HIDE DEF latest
    <2>1. Rollup(posted) = "success" <=> \A s \in latest : CheckState(s) \notin {"failure", "error", "pending"}
      BY <1>3 DEF Worst
    <2> QED BY <1>5, <2>1
  <1>7. Rollup(posted) = "failure" <=> {Bucket(s) : s \in latest} \intersect {"fail", "cancel"} # {}
    <2> HIDE DEF latest
    <2>1. Rollup(posted) = "failure" <=> \E s \in latest : CheckState(s) \in {"failure", "error"}
      BY <1>3 DEF Worst
    <2> QED BY <1>5, <2>1
  <1>8. ~tied => RollupShown(posted) = Rollup(posted)
    <2>1. SUFFICES ASSUME ~tied PROVE RollupShown(posted) = Rollup(posted)
      OBVIOUS
    <2>2. \A i \in DOMAIN posted : posted[i] \in StatusType
      BY <1>1
    <2>3. \A i, j \in DOMAIN posted :
            posted[i].context = posted[j].context /\ posted[i].time = posted[j].time => i = j
      BY <2>1
    <2>4. ASSUME NEW s PROVE s \in LatestShown(posted) <=> s \in latest
      <3>1. ASSUME s \in LatestShown(posted) PROVE s \in latest
        <4>1. PICK i \in DOMAIN posted :
                /\ s = posted[i]
                /\ \A j \in DOMAIN posted : posted[j].context = posted[i].context =>
                     \/ posted[i].time > posted[j].time
                     \/ posted[i].time = posted[j].time /\ i >= j
          BY <3>1 DEF LatestShown
        <4>2. ASSUME NEW j \in DOMAIN posted, posted[j].context = s.context PROVE ~Newer(posted[j], s)
          <5>1. CASE posted[i].time > posted[j].time
            BY <2>2, <4>1, <5>1 DEF Newer, StatusType
          <5>2. CASE i = j
            BY <2>2, <4>1, <5>2 DEF Newer, StatusType
          <5> QED BY <2>3, <4>1, <4>2, <5>1, <5>2
        <4> QED BY <4>1, <4>2 DEF Latest, Posted
      <3>2. ASSUME s \in latest PROVE s \in LatestShown(posted)
        <4>1. PICK i \in DOMAIN posted : s = posted[i]
          BY <3>2 DEF Latest, Posted
        <4>2. \A j \in DOMAIN posted : posted[j].context = s.context => ~Newer(posted[j], s)
          BY <3>2 DEF Latest, Posted
        <4>3. ASSUME NEW j \in DOMAIN posted, posted[j].context = posted[i].context
              PROVE  \/ posted[i].time > posted[j].time
                     \/ posted[i].time = posted[j].time /\ i >= j
          <5>1. ~(posted[j].time > posted[i].time)
            BY <4>1, <4>2, <4>3 DEF Newer
          <5>2. posted[j].time \in Nat /\ posted[i].time \in Nat
            <6>1. posted[j] \in StatusType /\ posted[i] \in StatusType
              BY <2>2
            <6> QED BY <6>1 DEF StatusType
          <5>3. posted[i].time > posted[j].time \/ posted[i].time = posted[j].time
            BY <5>1, <5>2
          <5>4. posted[i].time = posted[j].time => i = j
            BY <2>3, <4>3
          <5>5. i \in Nat /\ i >= i
            BY <1>1
          <5> QED BY <5>3, <5>4, <5>5
        <4> QED BY <4>1, <4>3 DEF LatestShown
      <3> QED BY <3>1, <3>2
    <2>5. LatestShown(posted) = latest
      BY <2>4
    <2>6. RollupShown(posted) = Worst({ShownState(s) : s \in latest})
      BY <2>5 DEF RollupShown
    <2>7. \A s \in latest :
            /\ CheckState(s) = "pending" <=> ShownState(s) = "pending"
            /\ CheckState(s) \in {"failure", "error"} <=> ShownState(s) \in {"failure", "error"}
      BY <1>1, <1>2, StatesOf
    <2> HIDE DEF latest, posted
    <2> QED BY <1>3, <2>6, <2>7 DEF Worst
  <1>9. posted # <<>> /\ forge.rule.on =>
            (RequiredPass(posted, forge.rule) <=> ~unmatched /\ \A s \in counted : passed(s))
    <2>1. SUFFICES ASSUME posted # <<>>, forge.rule.on
                   PROVE  RequiredPass(posted, forge.rule) <=> ~unmatched /\ \A s \in counted : passed(s)
      OBVIOUS
    <2>2. \A c \in ContextsOf(posted) : \E t \in latest : t.context = c
      <3>1. \A s \in Posted(posted) : \E t \in latest : t.context = s.context
        BY <1>1, NewestIs
      <3> QED BY <3>1 DEF ContextsOf
    <2>3. \A t \in latest : t.context \in ContextsOf(posted)
      BY <1>1 DEF ContextsOf
    <2>4. latest # {}
      <3>1. 1 \in DOMAIN posted
        BY <1>1, <2>1
      <3>2. posted[1].context \in ContextsOf(posted)
        BY <3>1 DEF ContextsOf, Posted
      <3> QED BY <2>2, <3>2
    <2>5. \A s \in latest : s.state = "success" <=> passed(s)
      BY <1>5
    <2>6. \A s : s \in counted <=>
              s \in latest /\ (forge.rule.patterns = {} \/ \E p \in forge.rule.patterns : s.context \in p)
      <3>1. \A c : Required(c, forge.rule) <=> forge.rule.patterns = {} \/ \E p \in forge.rule.patterns : c \in p
        BY <2>1, Zenon DEF Required
      <3> HIDE DEF latest
      <3> QED BY <3>1
    <2>7. RequiredPass(posted, forge.rule) <=>
            \/ /\ forge.rule.patterns # {}
               /\ \A p \in forge.rule.patterns :
                     /\ \E s \in latest : s.context \in p
                     /\ \A s \in latest : s.context \in p => s.state = "success"
            \/ forge.rule.patterns = {} /\ latest # {} /\ \A s \in latest : s.state = "success"
      BY <2>1 DEF RequiredPass
    <2>8. \A p : p \intersect ContextsOf(posted) = {} <=> ~\E s \in latest : s.context \in p
      BY <2>2, <2>3
    <2> HIDE DEF latest, counted, passed, posted
    <2>9. CASE forge.rule.patterns = {}
      BY <2>4, <2>5, <2>6, <2>7, <2>9
    <2>10. CASE forge.rule.patterns # {}
      <3>1. ~unmatched <=> \A p \in forge.rule.patterns : \E s \in latest : s.context \in p
        BY <2>8
      <3>2. (\A s \in counted : passed(s)) <=>
                \A p \in forge.rule.patterns : \A s \in latest : s.context \in p => s.state = "success"
        BY <2>5, <2>6, <2>10
      <3> HIDE DEF unmatched
      <3> QED BY <2>7, <2>10, <3>1, <3>2
    <2> QED BY <2>9, <2>10
  <1> QED BY <1>4, <1>6, <1>7, <1>8, <1>9 DEF Verdicts, rest

(***************************************************************************)
(* The theorems                                                            *)
(***************************************************************************)

(* A command starts with the invariant.                                    *)
LEMMA InitInv == Init => IInv
  <1> SUFFICES ASSUME Init PROVE IInv
    OBVIOUS
  <1> USE DEF Init
  <1>1. TypeOK
    BY BuiltInAssumption DEF TypeOK, Nothing
  <1>2. Asked /\ Unwritten /\ PullKnown /\ Ready /\ Gathered
    BY DEF Asked, Unwritten, PullKnown, Ready, Gathered, Nothing
  <1>3. WritesOnce /\ ChecksTruthful
    BY DEF WritesOnce, ChecksTruthful
  <1> QED BY <1>1, <1>2, <1>3 DEF IInv

(* Every step keeps it.                                                    *)
LEMMA StepInv == IInv /\ [Next]_vars => IInv'
  <1> SUFFICES ASSUME IInv, [Next]_vars PROVE IInv'
    OBVIOUS
  <1>1. CASE ReadUser \/ ReadRepo \/ ReadIssue \/ ReadIssues \/ ReadFiles \/ ReadDiff
    BY <1>1, PrintedKeeps DEF ReadUser, ReadRepo, ReadIssue, ReadIssues, ReadFiles, ReadDiff
  <1>2. CASE UNCHANGED vars
    <2>1. TypeOK' /\ Asked' /\ Unwritten' /\ PullKnown' /\ Ready'
      BY <1>2 DEF vars, IInv, TypeOK, Called, Repository, NewestFirst, CheckedOut, Way, Nothing, Exits, Asked, Unwritten,
                  PullKnown, TargetBranch, Ready, Has, Names
    <2>2. Gathered'
      BY <1>2, SameStatuses DEF vars
    <2>3. WritesOnce'
      BY <1>2 DEF vars, IInv, WritesOnce, Writing, Has, TargetBranch, Names
    <2>4. ChecksTruthful'
      BY <1>2 DEF vars, IInv, ChecksTruthful, Has, Posted
    <2> QED BY <2>1, <2>2, <2>3, <2>4 DEF IInv
  <1> QED
    BY <1>1, <1>2, StartKeeps, GetPullKeeps, FindPullKeeps, ListPullsKeeps, ReadRollupKeeps, ReadStatusesKeeps,
       ReadProtectionKeeps, ReadLabelsKeeps, CommentKeeps, CreateIssueKeeps, CreatePullKeeps, RefusedKeeps,
       FetchHeadKeeps, FetchPullKeeps, LookKeeps, CheckoutActionKeeps, SubmodulesKeeps, OthersKeeps DEF Next

(* The invariant of a command the shim answers itself, for any call,       *)
(* repository and checkout, whatever others do between two requests        *)
(* (read_only.rs).                                                         *)
THEOREM BuiltInInvariance == Spec => []IInv
  BY InitInv, StepInv, PTL DEF Spec

(* The steps of a command are its own, and the call, the repository, the   *)
(* checkout and what was read keep their types (read_only.rs).             *)
THEOREM BuiltInTypeCorrect == Spec => []TypeOK
  <1>1. IInv => TypeOK
    BY DEF IInv
  <1> QED BY <1>1, BuiltInInvariance, PTL

(* A command writes at most once, only if it is one that writes, and where *)
(* it ends with 0 it has written what was asked for (run_comment,          *)
(* run_create, run_issue_create).                                          *)
THEOREM WrittenOnce == Spec => []WritesOnce
  <1>1. IInv => WritesOnce
    BY DEF IInv
  <1> QED BY <1>1, BuiltInInvariance, PTL

(* What pr checks ends with is true of every check there was when it       *)
(* began, or of its successor, whatever is posted between two pages and    *)
(* whether or not the server knows pages (run_checks, get_pages_up_to).    *)
THEOREM ChecksTrue == Spec => []ChecksTruthful
  <1>1. IInv => ChecksTruthful
    BY DEF IInv
  <1> QED BY <1>1, BuiltInInvariance, PTL

(* The projections of any commit's statuses agree, whatever was posted and *)
(* whatever the branch's protection asks for (map/checks.rs, checks.rs,    *)
(* normalize.rs).                                                          *)
THEOREM ProjectionsAgree == Spec => []VerdictsAgree
  <1>1. IInv => VerdictsAgree
    BY VerdictsOf DEF IInv, TypeOK, VerdictsAgree
  <1> QED BY <1>1, BuiltInInvariance, PTL

(* pr checkout moves no branch that was there without --force, and ends    *)
(* with 0 only where HEAD is as asked for, and at what it fetched unless   *)
(* the branch was found first or FETCH_HEAD was replaced, whatever another *)
(* shell does in between (run_checkout).                                   *)
THEOREM CheckoutsKeep == Spec => CheckoutKeeps
  <1> DEFINE BranchMoves ==
        \A b \in Branches :
            pc # pc' /\ git.heads[b] # None /\ git'.heads[b] # git.heads[b] => Has("force") /\ b = LocalBranch
             Ends ==
        pc # pc' /\ pc' \in {"ok", "submodules"} /\ call.cmd = "pr_checkout" /\ pc # "submodules" =>
            /\ IF Has("detach") THEN git'.on = None
               ELSE git'.on = LocalBranch /\ git'.at = git'.heads[LocalBranch]
            /\ git'.at = got.fetched \/ pc = "switch" \/ git.fetched # got.fetched
  <1>1. ASSUME IInv, [Next]_vars PROVE BranchMoves /\ Ends
    <2>1. TypeOK /\ IInv /\ (pc \in Way => pc \notin {"start"} \union Exits)
      BY <1>1, StepOf DEF IInv
    <2>2. CASE Checkout
      <3>1. LocalBranch \in Branches /\ git.heads \in [Branches -> Shas \union {None}]
            /\ DOMAIN git = {"on", "at", "fetched", "heads"}
        BY <2>1, <2>2 DEF Checkout, LocalBranch, IInv, PullKnown, PullType, TypeOK, Called, CheckedOut
      <3>2. (pc = "detach" <=> Has("detach")) /\ (pc = "reset" => Has("force"))
        BY <2>1, <2>2 DEF Checkout, IInv, Ready
      <3>3. CASE pc = "detach" /\ git' = [git EXCEPT !.on = None, !.at = git.fetched]
        BY <3>1, <3>2, <3>3
      <3>4. CASE /\ pc = "reset" \/ (pc = "make" /\ Made)
                 /\ git' = [git EXCEPT !.on = LocalBranch, !.at = git.fetched, !.heads[LocalBranch] = git.fetched]
        <4>1. /\ git'.on = LocalBranch /\ git'.at = git.fetched
              /\ git'.heads = [git.heads EXCEPT ![LocalBranch] = git.fetched]
          BY <3>1, <3>4
        <4>2. git'.heads[LocalBranch] = git.fetched /\ \A b \in Branches : b # LocalBranch => git'.heads[b] = git.heads[b]
          BY <3>1, <4>1
        <4>3. pc = "make" => git.heads[LocalBranch] = None
          BY <3>4 DEF Made
        <4> QED BY <3>2, <3>4, <4>1, <4>2, <4>3
      <3>5. CASE pc = "switch" /\ git.heads[LocalBranch] # None
                 /\ git' = [git EXCEPT !.on = LocalBranch, !.at = git.heads[LocalBranch]]
        BY <3>1, <3>2, <3>5
      <3>6. CASE pc' = "fail" /\ UNCHANGED git
        BY <3>6
      <3>7. CASE /\ pc = "switch" /\ git.heads[LocalBranch] = None
                 /\ \E sha \in Shas :
                       git' = [git EXCEPT !.on = LocalBranch, !.at = sha, !.heads[LocalBranch] = sha]
        <4>1. PICK sha \in Shas : git' = [git EXCEPT !.on = LocalBranch, !.at = sha, !.heads[LocalBranch] = sha]
          BY <3>7
        <4>2. /\ git'.on = LocalBranch /\ git'.at = sha /\ git'.heads[LocalBranch] = sha
              /\ \A b \in Branches : b # LocalBranch => git'.heads[b] = git.heads[b]
          BY <3>1, <4>1
        <4> QED BY <3>2, <3>7, <4>2
      <3> QED BY <2>2, <3>3, <3>4, <3>5, <3>6, <3>7 DEF Checkout
    <2>3. CASE Others \/ UNCHANGED vars
      BY <2>3 DEF Others, vars
    <2>4. ASSUME ~Checkout, ~Others, Next PROVE git'.heads = git.heads
      BY <2>1, <2>4 DEF Next, Start, GetPull, FindPull, ListPulls, ReadRollup, ReadStatuses, ReadProtection,
         ReadUser, ReadRepo, ReadIssue, ReadIssues, ReadFiles, ReadDiff, Printed, ReadLabels, Comment, CreateIssue, CreatePull, Wrote, Refused,
         FetchHead, FetchPull, Fetch, Look, Submodules, TypeOK, CheckedOut
    <2>5. ASSUME ~Checkout, ~Others, Next, pc' \in {"ok", "submodules"}, pc # "submodules"
          PROVE  call.cmd # "pr_checkout"
      <3>1. pc = "start" \/ pc \in Way
        BY <2>1, <2>5 DEF Next, Start, GetPull, FindPull, ListPulls, ReadRollup, ReadStatuses, ReadProtection, ReadUser,
           ReadRepo, ReadIssue, ReadIssues, ReadFiles, ReadDiff, Printed, ReadLabels, Comment, CreateIssue, CreatePull,
           Refused, FetchHead, FetchPull, Look, Submodules, TypeOK, Exits, Requests
      <3>2. CASE Start
        BY <2>1, <2>5, <3>2, FirstSteps DEF Start, TypeOK, Called
      <3>3. CASE GetPull \/ FindPull
        <4>1. call.cmd = "pr_checkout" => NoPullStep = "fail" /\ \A p : PullStep(p) = "fetch_head"
          BY DEF NoPullStep, PullStep
        <4> QED BY <2>5, <3>3, <4>1 DEF GetPull, FindPull
      <3>4. CASE FetchHead \/ FetchPull \/ Look
        BY <2>5, <3>4 DEF FetchHead, FetchPull, Fetch, Look
      <3>5. CASE ~(Start \/ GetPull \/ FindPull \/ FetchHead \/ FetchPull \/ Look)
        <4>1. \/ pc' = "fail"
              \/ /\ pc \in {"pulls", "rollup", "statuses", "protection", "user", "repo", "issue", "issues", "files",
                            "diff", "labels", "comment", "create_issue", "create_pull"}
                 /\ pc = "pulls" => call.cmd = "pr_list"
          BY <2>5, <3>5 DEF Next, ListPulls, ReadRollup, ReadStatuses, ReadProtection, ReadUser, ReadRepo,
             ReadIssue, ReadIssues, ReadFiles, ReadDiff, Printed, ReadLabels, Comment, CreateIssue, CreatePull, Refused,
             Submodules
        <4> QED BY <2>5, <3>1, <4>1, StepOf
      <3> QED BY <3>2, <3>3, <3>4, <3>5
    <2> QED BY <1>1, <2>2, <2>3, <2>4, <2>5
  <1> QED BY <1>1, BuiltInInvariance, PTL DEF Spec, CheckoutKeeps


(***************************************************************************)
(* PullView: the rule, the gates and the verdict.                          *)
(***************************************************************************)

(* The rule an administrator's token finds is the one Forgejo applies.     *)
LEMMA SameRule ==
    ASSUME rules \in Seq(RuleType)
    PROVE  ForBranch(rules) = Effective /\ Effective \in RuleType \union {None}
  <1> DEFINE fits == {i \in DOMAIN rules : rules[i].covers}
             best == IF \E i \in fits : rules[i].plain THEN {i \in fits : rules[i].plain} ELSE fits
             least == CHOOSE i \in best : \A j \in best : i <= j
             ahead(i, j) == IF rules[i].plain = rules[j].plain THEN i <= j ELSE rules[i].plain
             first == CHOOSE i \in fits : \A j \in fits : ahead(i, j)
  <1>1. \A i \in DOMAIN rules : i \in Nat /\ rules[i] \in RuleType /\ rules[i].plain \in BOOLEAN
    <2>1. \A i \in DOMAIN rules : i \in Nat /\ rules[i] \in RuleType
      OBVIOUS
    <2> QED BY <2>1 DEF RuleType
  <1>2. CASE fits = {}
    <2>1. best = {}
      BY <1>2
    <2> QED BY <1>2, <2>1 DEF ForBranch, Effective
  <1>3. CASE fits # {}
    <2>1. best \in SUBSET Nat /\ best # {} /\ best \subseteq fits /\ fits \subseteq DOMAIN rules
      BY <1>1, <1>3
    <2>2. least \in best /\ \A j \in best : least <= j
      <3> HIDE DEF best
      <3> QED BY <2>1, LeastExists
    <2>7. Effective = rules[least]
      BY <2>1, Zenon DEF Effective
    <2> HIDE DEF least
    <2>3. \A j \in fits : ahead(least, j)
      BY <1>1, <2>1, <2>2
    <2>4. \A i \in fits : (\A j \in fits : ahead(i, j)) => i = least
      <3> SUFFICES ASSUME NEW i \in fits, \A j \in fits : ahead(i, j) PROVE i = least
        OBVIOUS
      <3>1. ahead(i, least) /\ ahead(least, i) /\ i \in Nat /\ least \in Nat
        BY <1>1, <2>1, <2>2, <2>3
      <3>2. rules[i].plain \in BOOLEAN /\ rules[least].plain \in BOOLEAN
        BY <1>1, <2>1, <2>2
      <3> QED BY <3>1, <3>2
    <2>5. first = least
      BY <2>1, <2>2, <2>3, <2>4
    <2>6. ForBranch(rules) = rules[first]
      BY <1>3 DEF ForBranch
    <2>8. least \in DOMAIN rules
      BY <2>1, <2>2
    <2> HIDE DEF best, fits, first
    <2> QED BY <1>1, <2>5, <2>6, <2>7, <2>8
  <1> QED BY <1>2, <1>3

(* What a token may read of the rule: all of it, or what hides none of the *)
(* checks and approvals it asks for.                                       *)
LEMMA RuleSeen ==
    ASSUME ViewType, NEW v
    PROVE  LET p == Protection(v)
           IN  \/ ~p.partial /\ p.rule = Effective
               \/ /\ p.partial /\ Effective \in RuleType /\ p.rule \in RuleType
                  /\ p.rule.on = Effective.on /\ p.rule.patterns = Effective.patterns
                  /\ p.rule.approvals = Effective.approvals
                  /\ ~p.rule.rejected /\ ~p.rule.stale /\ ~p.rule.requests /\ ~p.rule.outdated /\ ~p.rule.files
  <1>1. ForBranch(rules) = Effective /\ Effective \in RuleType \union {None}
    BY SameRule, PullViewAssumption DEF ViewType
  <1>2. CASE v.admin /\ ~v.confined
    BY <1>1, <1>2 DEF Protection
  <1>3. CASE ~(v.admin /\ ~v.confined) /\ Effective = None
    BY <1>3 DEF Protection, Summary
  <1>4. CASE ~(v.admin /\ ~v.confined) /\ Effective # None
    <2>1. Effective \in RuleType /\ None \notin RuleType
      BY <1>1, <1>4, PullViewAssumption
    <2>2. /\ Summary \in RuleType
          /\ Summary.on = Effective.on /\ Summary.patterns = Effective.patterns /\ Summary.approvals = Effective.approvals
          /\ ~Summary.rejected /\ ~Summary.stale /\ ~Summary.requests /\ ~Summary.outdated /\ ~Summary.files
      BY <1>4, <2>1 DEF Summary, RuleType
    <2>3. Protection(v) = [rule |-> Summary, partial |-> TRUE]
      BY <1>4, <2>1, <2>2 DEF Protection
    <2> QED BY <2>1, <2>2, <2>3
  <1> QED BY <1>2, <1>3, <1>4

(* The newest status of a context has its state.                           *)
LEMMA NewestState ==
    ASSUME ViewType, Reported
    PROVE  /\ \A s \in Latest(statuses) : s.context \in Contexts /\ s.state = ci[s.context] /\ ci[s.context] # "none"
           /\ \A c \in Contexts : ci[c] # "none" => \E s \in Latest(statuses) : s.context = c
  <1>1. \A i \in DOMAIN statuses : i \in Nat /\ statuses[i] \in StatusType
    BY DEF ViewType
  <1>2. ASSUME NEW s \in Latest(statuses), NEW t \in Latest(statuses), s.context = t.context PROVE s = t
    <2>1. PICK i \in DOMAIN statuses, j \in DOMAIN statuses : s = statuses[i] /\ t = statuses[j]
      BY DEF Latest, Posted
    <2>2. ~Newer(s, t) /\ ~Newer(t, s)
      BY <1>2 DEF Latest
    <2> QED BY <1>1, <2>1, <2>2 DEF Reported, InOrder
  <1>3. ASSUME NEW s \in Latest(statuses)
        PROVE  s.context \in Contexts /\ s.state = ci[s.context] /\ ci[s.context] # "none"
    <2>1. s \in StatusType /\ s.context \in ContextsOf(statuses)
      BY <1>1 DEF Latest, Posted, ContextsOf
    <2>2. s.context \in Contexts
      BY <2>1 DEF StatusType
    <2> QED BY <1>2, <2>1, <2>2 DEF Reported
  <1> QED BY <1>3 DEF Reported

(* The checks asked for pass as Forgejo has it.                            *)
LEMMA StatusesAgree ==
    ASSUME ViewType, Reported, NEW rule \in RuleType
    PROVE  RequiredPass(statuses, rule) <=> StatusGate(rule)
  <1> DEFINE all(set) == set # {} /\ \A s \in set : s.state = "success"
             good(set) == \E c \in set : ci[c] # "none"
             green(set) == \A c \in set : ci[c] \in {"none", "success"}
  <1>1. ASSUME NEW p \in SUBSET Contexts
        PROVE  all({s \in Latest(statuses) : s.context \in p}) <=> good(p) /\ green(p)
    BY NewestState
  <1>2. all(Latest(statuses)) <=> good(Contexts) /\ green(Contexts)
    BY NewestState
  <1>3. rule.patterns \subseteq SUBSET Contexts
    BY DEF RuleType
  <1> QED BY <1>1, <1>2, <1>3 DEF RequiredPass, StatusGate

(* A verdict that counts is its writer's latest, and stale when that was   *)
(* of another commit.                                                      *)
LEMMA LatestWord ==
    ASSUME ViewType, Spoken, NEW state \in Ratings
    PROVE  /\ \A r \in Official(state) :
                /\ r.user \in Users /\ word[r.user].on = state
                /\ r.stale <=> word[r.user].at # head.ref
                /\ \A q \in Official(state) : q.user = r.user => q = r
           /\ \A u \in Users : word[u].on = state => \E r \in Official(state) : r.user = u
  <1>1. \A r \in reviews : r \in ReviewType /\ r.user \in Users
    BY DEF ViewType, ReviewType
  <1>2. "none" \notin Ratings /\ "REQUEST_REVIEW" \notin Ratings
    BY DEF Ratings
  <1>3. ASSUME NEW r \in Official(state)
        PROVE  /\ r.user \in Users /\ word[r.user].on = state
               /\ r.stale <=> word[r.user].at # head.ref
               /\ \A q \in Official(state) : q.user = r.user => q = r
    <2>1. r \in Counting(r.user) /\ r.user \in Users /\ r.state = state
      BY <1>1, <1>2 DEF Official, Counting
    <2>2. PICK q \in reviews : /\ Counting(r.user) = {q} /\ q.state = word[r.user].on
                               /\ q.stale <=> word[r.user].at # head.ref
      BY <2>1 DEF Spoken
    <2>3. q = r
      BY <2>1, <2>2
    <2>4. \A o \in Official(state) : o.user = r.user => o \in Counting(r.user)
      BY <1>2 DEF Official, Counting
    <2> QED BY <2>1, <2>2, <2>3, <2>4
  <1>4. ASSUME NEW u \in Users, word[u].on = state PROVE \E r \in Official(state) : r.user = u
    <2>1. PICK r \in reviews : Counting(u) = {r} /\ r.state = word[u].on
      BY <1>2, <1>4 DEF Spoken
    <2>2. r \in Counting(u)
      BY <2>1
    <2> QED BY <1>4, <2>1, <2>2 DEF Official, Counting
  <1> QED BY <1>3, <1>4

(* So there are as many approvals as writers who approve.                  *)
LEMMA ApprovalsCount ==
    ASSUME ViewType, Spoken, NEW stale \in BOOLEAN
    PROVE  LET approvals == {r \in Official("APPROVED") : ~(stale /\ r.stale)}
               writers == {u \in Users : word[u].on = "APPROVED" /\ (stale => word[u].at = head.ref)}
           IN  /\ IsFiniteSet(approvals) /\ IsFiniteSet(writers)
               /\ Cardinality(approvals) = Cardinality(writers) /\ Cardinality(writers) \in Nat
  <1> DEFINE approvals == {r \in Official("APPROVED") : ~(stale /\ r.stale)}
             writers == {u \in Users : word[u].on = "APPROVED" /\ (stale => word[u].at = head.ref)}
             by == [r \in approvals |-> r.user]
  <1>1. IsFiniteSet(approvals)
    <2>1. approvals \subseteq reviews /\ IsFiniteSet(reviews)
      BY DEF Official, ViewType
    <2> QED BY <2>1, FS_Subset
  <1>2. "APPROVED" \in Ratings
    BY DEF Ratings
  <1>3. \A r \in approvals : r.user \in writers /\ \A q \in approvals : q.user = r.user => q = r
    BY <1>2, LatestWord
  <1>4. \A u \in writers : \E r \in approvals : r.user = u
    <2> SUFFICES ASSUME NEW u \in writers PROVE \E r \in approvals : r.user = u
      OBVIOUS
    <2>1. PICK r \in Official("APPROVED") : r.user = u
      BY <1>2, LatestWord
    <2>2. r.stale <=> word[u].at # head.ref
      BY <1>2, <2>1, LatestWord
    <2> QED BY <2>1, <2>2
  <1> HIDE DEF approvals, writers
  <1>5. by \in [approvals -> writers]
    BY <1>3
  <1>6. \A r, q \in approvals : by[r] = by[q] => r = q
    BY <1>3
  <1>7. \A u \in writers : \E r \in approvals : by[r] = u
    BY <1>4
  <1>8. by \in Bijection(approvals, writers)
    BY <1>5, <1>6, <1>7, Fun_IsBij
  <1>9. ExistsBijection(approvals, writers)
    BY <1>8 DEF ExistsBijection
  <1>10. IsFiniteSet(writers) /\ Cardinality(writers) = Cardinality(approvals)
    BY <1>1, <1>9, FS_Bijection
  <1> QED BY <1>1, <1>10, FS_CardinalityType DEF approvals, writers

(* A review decision from the whole rule is Forgejo's.                     *)
LEMMA ReviewsAgree ==
    ASSUME ViewType, Spoken, NEW rule \in RuleType
    PROVE  LET p == [rule |-> rule, partial |-> FALSE]
           IN  ReviewGate(rule) <=> ReviewDecision(p) \notin {"changes_requested", "review_required"}
  <1> DEFINE p == [rule |-> rule, partial |-> FALSE]
             approvals == {r \in Official("APPROVED") : ~(rule.stale /\ r.stale)}
             writers == {u \in Users : word[u].on = "APPROVED" /\ (rule.stale => word[u].at = head.ref)}
             requested == \E r \in reviews : r.official /\ r.state = "REQUEST_REVIEW"
  <1>1. rule.approvals \in Nat /\ rule.stale \in BOOLEAN /\ rule # None
    BY PullViewAssumption DEF RuleType
  <1>2. Cardinality(approvals) = Cardinality(writers) /\ Cardinality(writers) \in Nat
    BY <1>1, ApprovalsCount
  <1>3. (\A u \in Users : word[u].on # "REQUEST_CHANGES") <=> Official("REQUEST_CHANGES") = {}
    BY LatestWord DEF Ratings
  <1>4. asked = {} <=> ~requested
    BY DEF Spoken
  <1>5. GatesReviews(p) <=> rule.approvals > 0 \/ rule.rejected \/ rule.requests
    BY <1>1 DEF GatesReviews
  <1>6. ReviewGate(rule) <=> /\ Cardinality(approvals) >= rule.approvals
                             /\ rule.rejected => Official("REQUEST_CHANGES") = {}
                             /\ rule.requests => ~requested
    BY <1>2, <1>3, <1>4 DEF ReviewGate
  <1>7. ReviewDecision(p) =
          IF ~GatesReviews(p) THEN None
          ELSE IF rule.rejected /\ Official("REQUEST_CHANGES") # {} THEN "changes_requested"
          ELSE IF Cardinality(approvals) < rule.approvals \/ (rule.requests /\ requested) THEN "review_required"
          ELSE "approved"
    BY DEF ReviewDecision
  <1> HIDE DEF p, approvals, writers, requested
  <1>8. None \notin {"changes_requested", "review_required"}
    BY PullViewAssumption
  <1> QED BY <1>1, <1>2, <1>5, <1>6, <1>7, <1>8 DEF p

(* What a token makes of the reviews is true, whatever it may read.        *)
LEMMA DecisionTrue ==
    ASSUME ViewType, Spoken, NEW v
    PROVE  LET p == Protection(v)
               decision == ReviewDecision(p)
           IN  /\ decision = "approved" => ReviewGate(Effective)
               /\ decision \in {"changes_requested", "review_required"} => Effective \in RuleType /\ ~ReviewGate(Effective)
               /\ ~p.partial /\ Effective \in RuleType /\ decision \notin {"changes_requested", "review_required"}
                    => ReviewGate(Effective)
  <1> DEFINE p == Protection(v)
             decision == ReviewDecision(p)
  <1>1. Effective \in RuleType \union {None}
    BY SameRule, PullViewAssumption DEF ViewType
  <1>2. None \notin {"approved", "changes_requested", "review_required"}
    BY PullViewAssumption
  <1>3. CASE ~p.partial /\ p.rule = Effective /\ Effective = None
    <2>1. ~GatesReviews(p)
      BY <1>3 DEF GatesReviews
    <2>2. decision = None /\ Effective \notin RuleType
      BY <1>3, <2>1, PullViewAssumption DEF ReviewDecision
    <2> QED BY <1>2, <1>3, <2>2
  <1>4. CASE ~p.partial /\ p.rule = Effective /\ Effective # None
    <2>1. ReviewDecision(p) = ReviewDecision([rule |-> Effective, partial |-> FALSE])
      BY <1>4 DEF ReviewDecision, GatesReviews
    <2>2. /\ Effective \in RuleType
          /\ ReviewGate(Effective) <=> decision \notin {"changes_requested", "review_required"}
      BY <1>1, <1>4, <2>1, ReviewsAgree
    <2> QED BY <1>4, <2>2
  <1>5. CASE /\ p.partial /\ Effective \in RuleType /\ p.rule \in RuleType
             /\ p.rule.approvals = Effective.approvals
             /\ ~p.rule.rejected /\ ~p.rule.stale /\ ~p.rule.requests
    <2> DEFINE counted(stale) == {r \in Official("APPROVED") : ~(stale /\ r.stale)}
               writers(stale) == {u \in Users : word[u].on = "APPROVED" /\ (stale => word[u].at = head.ref)}
    <2>1. /\ p.rule.approvals \in Nat /\ p.rule # None /\ Effective.stale \in BOOLEAN
          /\ Effective.approvals \in Nat
      BY <1>5, PullViewAssumption DEF RuleType
    <2>2. decision = IF p.rule.approvals = 0 THEN None
                     ELSE IF Cardinality(counted(FALSE)) < p.rule.approvals THEN "review_required" ELSE None
      <3>1. {r \in Official("APPROVED") : ~(p.rule.stale /\ r.stale)} = counted(FALSE)
        BY <1>5
      <3>2. GatesReviews(p) <=> p.rule.approvals # 0
        BY <1>5, <2>1 DEF GatesReviews
      <3>3. ReviewDecision(p) = IF ~GatesReviews(p) THEN None
                                ELSE IF Cardinality(counted(FALSE)) < p.rule.approvals THEN "review_required"
                                ELSE None
        BY <1>5, <3>1, Zenon DEF ReviewDecision
      <3> HIDE DEF p, counted
      <3> QED BY <3>2, <3>3
    <2>3. /\ Cardinality(counted(FALSE)) = Cardinality(writers(FALSE)) /\ Cardinality(writers(FALSE)) \in Nat
          /\ IsFiniteSet(writers(FALSE)) /\ Cardinality(writers(Effective.stale)) \in Nat
      BY <2>1, ApprovalsCount
    <2>4. Cardinality(writers(Effective.stale)) <= Cardinality(writers(FALSE))
      <3>1. writers(Effective.stale) \subseteq writers(FALSE)
        OBVIOUS
      <3> HIDE DEF writers
      <3> QED BY <2>3, <3>1, FS_Subset
    <2>5. ReviewGate(Effective) => Cardinality(writers(Effective.stale)) >= Effective.approvals
      BY DEF ReviewGate
    <2> HIDE DEF counted, writers
    <2>6. decision = "review_required" => ~ReviewGate(Effective)
      <3> HIDE DEF decision, p
      <3>1. decision = "review_required" => Cardinality(counted(FALSE)) < p.rule.approvals
        BY <1>2, <2>2
      <3>2. Cardinality(writers(FALSE)) < Effective.approvals => Cardinality(writers(Effective.stale)) < Effective.approvals
        <4>1. ASSUME NEW a \in Nat, NEW b \in Nat, NEW c \in Nat, b <= a, a < c PROVE b < c
          BY <4>1
        <4> QED BY <2>1, <2>3, <2>4, <4>1
      <3>3. ReviewGate(Effective) => ~(Cardinality(writers(Effective.stale)) < Effective.approvals)
        BY <2>1, <2>3, <2>5
      <3>4. p.rule.approvals = Effective.approvals
        BY <1>5
      <3> QED BY <2>3, <3>1, <3>2, <3>3, <3>4
    <2>7. decision \in {"review_required", None}
      <3> HIDE DEF decision, p
      <3> QED BY <2>2
    <2> QED BY <1>2, <1>5, <2>6, <2>7
  <1> QED BY <1>1, <1>3, <1>4, <1>5, RuleSeen

(* A verdict of gh's is Forgejo's.                                         *)
LEMMA VerdictHolds ==
    ASSUME ViewType, Spoken, Reported, NEW v, NEW compare
    PROVE  LET p == Protection(v)
               verdict == MergeState(p, compare)
               unseen == pull.held \/ (compare # "found" /\ Effective # None /\ Effective.outdated /\ late)
           IN  /\ verdict \in {"clean", "unstable"} => MergeGate \/ unseen
               /\ verdict = "blocked" => Effective # None /\ ~(StatusGate(Effective) /\ ReviewGate(Effective))
               /\ verdict = "behind" => Effective # None /\ Effective.outdated /\ late
               /\ verdict \in {"blocked", "behind"} => ~MergeGate
  <1> DEFINE p == Protection(v)
             unseen == pull.held \/ (compare # "found" /\ Effective # None /\ Effective.outdated /\ late)
             refused == ReviewDecision(p) \in {"changes_requested", "review_required"}
             passes == statuses # <<>> /\ Rollup(statuses) # "success"
  <1>1. Effective \in RuleType \union {None} /\ None \notin RuleType
    BY SameRule, PullViewAssumption DEF ViewType
  <1>2. MergeState(p, compare) =
          IF Mergeable = "unknown" THEN "unknown"
          ELSE IF p.rule # None /\ p.rule.outdated /\ Behind(compare) THEN "behind"
          ELSE IF (p.rule # None /\ ~RequiredPass(statuses, p.rule)) \/ refused THEN "blocked"
          ELSE IF p.rule # None /\ (p.partial \/ p.rule.files) THEN "unknown"
          ELSE IF passes THEN "unstable" ELSE "clean"
    BY DEF MergeState
  <1>3. Mergeable = "unknown" \/ (~pull.draft /\ Open /\ pull.fits)
    BY DEF Mergeable
  <1>4. /\ refused => Effective \in RuleType /\ ~ReviewGate(Effective)
        /\ ~p.partial /\ Effective \in RuleType /\ ~refused => ReviewGate(Effective)
    BY DecisionTrue
  <1>5. Effective \in RuleType => (RequiredPass(statuses, Effective) <=> StatusGate(Effective))
    BY StatusesAgree
  <1>6. p.rule # None => (RequiredPass(statuses, p.rule) <=> RequiredPass(statuses, Effective))
    BY RuleSeen DEF RequiredPass
  <1>7. p.rule = None <=> Effective = None
    BY <1>1, RuleSeen
  <1>8. p.rule # None => (p.partial \/ p.rule = Effective) /\ (p.partial => ~p.rule.outdated) /\ (~p.partial => p.rule = Effective)
    BY RuleSeen
  <1> HIDE DEF p, refused, passes
  <1>9. MergeState(p, compare) \in {"clean", "unstable"} => MergeGate \/ unseen
    BY <1>1, <1>2, <1>3, <1>4, <1>5, <1>6, <1>7, <1>8 DEF MergeGate, Behind
  <1>10. MergeState(p, compare) = "blocked" => Effective # None /\ ~(StatusGate(Effective) /\ ReviewGate(Effective))
    BY <1>1, <1>2, <1>4, <1>5, <1>6, <1>7
  <1>11. MergeState(p, compare) = "behind" => Effective # None /\ Effective.outdated /\ late
    BY <1>1, <1>2, <1>7, <1>8 DEF Behind
  <1>12. MergeState(p, compare) \in {"blocked", "behind"} => ~MergeGate
    BY <1>10, <1>11 DEF MergeGate
  <1> QED BY <1>9, <1>10, <1>11, <1>12 DEF p

LEMMA TrueVerdicts == ViewInv => VerdictTruthful
  <1> SUFFICES ASSUME ViewInv, NEW v \in Viewers, NEW compare \in Compares
               PROVE  LET p == Protection(v)
                          verdict == MergeState(p, compare)
                          decision == ReviewDecision(p)
                          unseen == pull.held \/ (compare = "missing" /\ Effective # None /\ Effective.outdated /\ late)
                      IN  /\ verdict \in {"clean", "unstable"} => MergeGate \/ unseen
                          /\ verdict = "blocked" => Effective # None /\ ~(StatusGate(Effective) /\ ReviewGate(Effective))
                          /\ verdict = "behind" => Effective # None /\ Effective.outdated /\ late
                          /\ decision = "approved" => ReviewGate(Effective)
                          /\ decision \in {"changes_requested", "review_required"} => ~ReviewGate(Effective)
    BY Zenon DEF VerdictTruthful
  <1>1. compare # "found" => compare = "missing"
    BY DEF Compares
  <1> QED BY <1>1, VerdictHolds, DecisionTrue DEF ViewInv

(***************************************************************************)
(* The branch and the scheduled merge.                                     *)
(***************************************************************************)

LEMMA HeadsHold == ViewInv => HeadNeverMistaken
  <1> SUFFICES ASSUME ViewInv PROVE HeadNeverMistaken
    OBVIOUS
  <1>1. /\ head.name \in HeadNames /\ head.tip \in Nat /\ head.ref \in Nat \ {0}
        /\ head.kind \in {"own", "fork", "fork_gone", "agit"}
        /\ head.kind \in {"agit", "fork_gone"} => head.tip = 0
    BY DEF ViewInv, ViewType, HeadType, Ahead
  <1>2. None \notin HeadNames \union {"base", "fork"}
    BY PullViewAssumption
  <1> DEFINE mine(repo) == There /\ head.tip = head.ref /\ Branch.repo = repo /\ HeadRefName = head.name
  <1>3. /\ Branch.label = (IF head.kind = "agit" THEN None ELSE head.name)
        /\ Branch.ref = (IF There THEN head.name ELSE "refs/pull/1/head")
        /\ Branch.sha = (IF There THEN head.tip ELSE head.ref)
        /\ head.kind = "fork" => Branch.repo = "fork"
        /\ head.kind = "fork_gone" => Branch.repo = None
        /\ head.kind \in {"own", "agit"} => Branch.repo = "base"
    BY <1>1 DEF Branch
  <1>4. There <=> head.kind # "agit" /\ head.tip # 0
    BY DEF There
  <1>5. Exists => There /\ Branch.ref = head.name /\ Branch.label = head.name
    BY <1>1, <1>2, <1>3, <1>4 DEF Exists, HeadNames
  <1>6. There => HeadRefName = head.name
    BY <1>1, <1>3 DEF HeadRefName, HeadNames
  <1>7. HeadIsPrHead => Open /\ mine(Branch.repo)
    BY <1>3, <1>5, <1>6 DEF HeadIsPrHead
  <1>8. Open /\ There /\ head.tip = head.ref /\ head.name = "topic" => HeadIsPrHead
    BY <1>1, <1>2, <1>3, <1>4 DEF HeadIsPrHead, Exists, HeadNames
  <1> QED BY <1>7, <1>8 DEF HeadNeverMistaken, IsCrossRepository, HeadRepository

(* While it is not merged, the newest event is what gh is told.            *)
LEMMA EventTrue ==
    ASSUME ViewInv, ~pull.merged
    PROVE  IF scheduled = None THEN AutoMergeEvent = None
           ELSE AutoMergeEvent # None /\ AutoMergeEvent.user = scheduled.by
  <1> DEFINE newest == {e \in MergeEvents : \A o \in MergeEvents : ~Newer(o, e)}
             all == {e \in newest : e.kind = "schedule"}
  <1>1. \A i \in DOMAIN timeline : i \in Nat /\ timeline[i] \in EventType
    BY DEF ViewInv, ViewType
  <1>2. \A e \in MergeEvents : e \in EventType
    BY <1>1 DEF MergeEvents
  <1>3. ASSUME NEW e \in newest, NEW o \in newest PROVE e = o
    <2>1. PICK i \in DOMAIN timeline, j \in DOMAIN timeline : e = timeline[i] /\ o = timeline[j]
      BY DEF MergeEvents
    <2>2. ~Newer(e, o) /\ ~Newer(o, e)
      OBVIOUS
    <2> QED BY <1>1, <2>1, <2>2 DEF ViewInv, Planned, InOrder
  <1>4. CASE scheduled = None
    <2>1. all = {}
      BY <1>3, <1>4 DEF ViewInv, Planned
    <2> QED BY <1>4, <2>1 DEF AutoMergeEvent
  <1>5. CASE scheduled # None
    <2>1. PICK e \in MergeEvents : e.kind = "schedule" /\ e.user = scheduled.by /\ \A o \in MergeEvents : ~Newer(o, e)
      BY <1>5 DEF ViewInv, Planned
    <2>2. all = {e}
      BY <1>3, <2>1
    <2>3. AutoMergeEvent = e
      BY <2>2 DEF AutoMergeEvent
    <2> QED BY <1>2, <1>5, <2>1, <2>3, PullViewAssumption
  <1> QED BY <1>4, <1>5

LEMMA OffersHold == ViewInv => AutoMergeOffered
  <1> SUFFICES ASSUME ViewInv, NEW v \in Viewers
               PROVE  LET may == ~v.archived /\ v.writes /\ (Effective # None /\ Effective.limits => v.listed)
                          told == AutoMergeRequest(v)
                      IN  /\ Open /\ v.issues =>
                               (IF scheduled = None THEN told = None ELSE told # None /\ told.user = scheduled.by)
                          /\ \A compare \in Compares :
                                  CanEnableAutoMerge(v, compare) => scheduled = None /\ Open /\ may /\ ~MergeGate
                          /\ CanDisableAutoMerge(v) => /\ scheduled # None /\ Open /\ ~v.archived
                                                       /\ scheduled.by = v.login \/ may
    BY Zenon DEF AutoMergeOffered
  <1> DEFINE may == ~v.archived /\ v.writes /\ (Effective # None /\ Effective.limits => v.listed)
  <1>1. pull.merged => pull.state = "closed"
    BY DEF ViewInv, Ahead
  <1>2. pull.state = "open" => Open
    BY <1>1 DEF Open, ViewInv, ViewType
  <1>3. Open => ~pull.merged
    BY DEF Open
  <1>4. Open => IF scheduled = None THEN AutoMergeEvent = None
                ELSE AutoMergeEvent # None /\ AutoMergeEvent.user = scheduled.by
    BY <1>3, EventTrue
  <1>5. ViewerCanMerge(v) <=> may
    BY DEF ViewerCanMerge, UserCanMerge
  <1>6. ASSUME NEW compare PROVE MergeState(Protection(v), compare) \in {"blocked", "behind"} => ~MergeGate
    BY VerdictHolds DEF ViewInv
  <1> HIDE DEF may
  <1>7. ASSUME NEW compare PROVE CanEnableAutoMerge(v, compare) => scheduled = None /\ Open /\ may /\ ~MergeGate
    BY <1>2, <1>4, <1>5, <1>6 DEF CanEnableAutoMerge
  <1>8. CanDisableAutoMerge(v) => /\ scheduled # None /\ Open /\ ~v.archived
                                  /\ scheduled.by = v.login \/ may
    BY <1>4, <1>5 DEF CanDisableAutoMerge, AutoMergeRequest, may
  <1> QED BY <1>4, <1>7, <1>8 DEF AutoMergeRequest, may

(***************************************************************************)
(* PullView: every event keeps the invariant.                              *)
(***************************************************************************)

LEMMA ViewStarts == ViewInit => ViewInv
  <1> SUFFICES ASSUME ViewInit PROVE ViewInv
    OBVIOUS
  <1>1. ViewType
    <2>1. IsFiniteSet({})
      BY FS_EmptySet
    <2>2. PICK draft \in BOOLEAN, touches \in BOOLEAN :
            pull = [state |-> "open", merged |-> FALSE, draft |-> draft, fits |-> TRUE, touches |-> touches,
                    held |-> FALSE]
      BY DEF ViewInit
    <2>3. PICK kind \in {"own", "fork", "agit"}, name \in HeadNames :
            head = [kind |-> kind, name |-> name, tip |-> IF kind = "agit" THEN 0 ELSE 1, ref |-> 1]
      BY DEF ViewInit
    <2>4. pull \in StateType
      BY <2>2 DEF StateType
    <2>5. head \in HeadType
      BY <2>3 DEF HeadType
    <2>6. word \in [Users -> [on : Ratings \union {"none"}, at : Nat]]
      BY DEF ViewInit, NoWord
    <2>7. /\ rules \in RuleLists /\ late = FALSE /\ reviews = {} /\ asked = {} /\ statuses = <<>>
          /\ ci = [c \in Contexts |-> "none"] /\ timeline = <<>> /\ scheduled = None /\ clock = 1 /\ moves = 0
      BY DEF ViewInit
    <2>8. statuses \in Seq(StatusType) /\ timeline \in Seq(EventType) /\ IsFiniteSet(reviews)
      BY <2>1, <2>7
    <2> QED BY <2>4, <2>5, <2>6, <2>7, <2>8 DEF ViewType
  <1>2. Ahead
    BY DEF ViewInit, Ahead
  <1>3. Spoken
    BY DEF ViewInit, Spoken, Counting, NoWord
  <1>4. Reported
    BY DEF ViewInit, Reported, InOrder, ContextsOf, Posted
  <1>5. Planned
    BY DEF ViewInit, Planned, InOrder, MergeEvents
  <1> QED BY <1>1, <1>2, <1>3, <1>4, <1>5 DEF ViewInv

(* What an event leaves alone stays as it is.                              *)
LEMMA SpokenKept ==
    ASSUME Spoken, UNCHANGED <<reviews, word, asked>>, head'.ref = head.ref
    PROVE  Spoken'
  BY DEF Spoken, Counting

LEMMA OrderKept ==
    ASSUME NEW list, clock \in Nat, clock' \in Nat, moves \in Nat, moves' \in Nat, clock <= clock', moves <= moves',
           \A i \in DOMAIN list : list[i].time \in Nat /\ list[i].id \in Nat,
           InOrder(list)
    PROVE  /\ \A i \in DOMAIN list : list[i].time <= clock' /\ list[i].id < moves'
           /\ \A i, j \in DOMAIN list : i < j => Newer(list[j], list[i])
  BY DEF InOrder

LEMMA ReportedKept ==
    ASSUME ViewType, Reported, UNCHANGED <<statuses, ci>>, clock' \in Nat, moves' \in Nat, clock <= clock', moves <= moves'
    PROVE  Reported'
  <1>1. \A i \in DOMAIN statuses : statuses[i].time \in Nat /\ statuses[i].id \in Nat
    <2>1. \A i \in DOMAIN statuses : statuses[i] \in StatusType
      BY DEF ViewType
    <2> QED BY <2>1 DEF StatusType
  <1>2. InOrder(statuses)'
    <2>1. /\ \A i \in DOMAIN statuses : statuses[i].time <= clock' /\ statuses[i].id < moves'
          /\ \A i, j \in DOMAIN statuses : i < j => Newer(statuses[j], statuses[i])
      BY <1>1, OrderKept DEF Reported, ViewType
    <2> QED BY <2>1 DEF InOrder, Newer
  <1>3. Latest(statuses)' = Latest(statuses) /\ ContextsOf(statuses)' = ContextsOf(statuses)
    BY DEF Latest, ContextsOf, Posted, Newer
  <1> QED BY <1>2, <1>3 DEF Reported

LEMMA PlannedKept ==
    ASSUME ViewType, Planned, UNCHANGED timeline, clock' \in Nat, moves' \in Nat, clock <= clock', moves <= moves',
           \/ pull'.merged
           \/ pull'.merged = pull.merged /\ (scheduled' = None <=> scheduled = None)
              /\ (scheduled # None => scheduled'.by = scheduled.by)
    PROVE  Planned'
  <1>1. \A i \in DOMAIN timeline : timeline[i].time \in Nat /\ timeline[i].id \in Nat
    <2>1. \A i \in DOMAIN timeline : timeline[i] \in EventType
      BY DEF ViewType
    <2> QED BY <2>1 DEF EventType
  <1>2. InOrder(timeline)'
    <2>1. /\ \A i \in DOMAIN timeline : timeline[i].time <= clock' /\ timeline[i].id < moves'
          /\ \A i, j \in DOMAIN timeline : i < j => Newer(timeline[j], timeline[i])
      BY <1>1, OrderKept DEF Planned, ViewType
    <2> QED BY <2>1 DEF InOrder, Newer
  <1>3. MergeEvents' = MergeEvents
    BY DEF MergeEvents
  <1> QED BY <1>2, <1>3 DEF Planned, Newer

(* A push leaves a commit no status is of.                                 *)
LEMMA ReportedAnew ==
    ASSUME statuses' = <<>>, ci' = [c \in Contexts |-> "none"]
    PROVE  Reported'
  BY DEF Reported, InOrder, ContextsOf, Posted

(* An entry added is newer than all there are.                             *)
LEMMA OrderGrows ==
    ASSUME NEW T, NEW list \in Seq(T), NEW e \in T, \A x \in T : x.time \in Nat /\ x.id \in Nat,
           clock \in Nat, moves \in Nat, e.time = clock, e.id = moves, InOrder(list)
    PROVE  LET more == Append(list, e)
           IN  /\ \A i \in DOMAIN more : more[i].time <= clock /\ more[i].id < moves + 1
               /\ \A i, j \in DOMAIN more : i < j => Newer(more[j], more[i])
               /\ \A i \in DOMAIN list : Newer(e, list[i])
  <1> DEFINE more == Append(list, e)
  <1>1. /\ DOMAIN more = 1..(Len(list) + 1) /\ DOMAIN list = 1..Len(list) /\ Len(list) \in Nat
        /\ \A i \in 1..Len(list) : more[i] = list[i]
        /\ more[Len(list) + 1] = e
    OBVIOUS
  <1>2. \A i \in 1..Len(list) : list[i] \in T /\ list[i].time <= clock /\ list[i].id < moves
    BY <1>1 DEF InOrder
  <1>3. \A i \in 1..Len(list) : Newer(e, list[i])
    BY <1>2 DEF Newer
  <1> HIDE DEF more
  <1>4. \A i \in DOMAIN more : more[i].time <= clock /\ more[i].id < moves + 1
    <2> SUFFICES ASSUME NEW i \in DOMAIN more PROVE more[i].time <= clock /\ more[i].id < moves + 1
      OBVIOUS
    <2>1. CASE i \in 1..Len(list)
      BY <1>1, <1>2, <2>1
    <2>2. CASE i = Len(list) + 1
      BY <1>1, <2>2
    <2> QED BY <1>1, <2>1, <2>2
  <1>5. ASSUME NEW i \in DOMAIN more, NEW j \in DOMAIN more, i < j PROVE Newer(more[j], more[i])
    <2>1. i \in 1..Len(list)
      BY <1>1, <1>5
    <2>2. CASE j \in 1..Len(list)
      BY <1>1, <1>5, <2>1, <2>2 DEF InOrder
    <2>3. CASE j = Len(list) + 1
      BY <1>1, <1>3, <2>1, <2>3
    <2> QED BY <1>1, <2>2, <2>3
  <1> QED BY <1>1, <1>3, <1>4, <1>5 DEF more

LEMMA ImageFinite ==
    ASSUME NEW S, IsFiniteSet(S), NEW f, DOMAIN f = S
    PROVE  IsFiniteSet({f[x] : x \in S})
  <1> DEFINE T == {f[x] : x \in S}
             g == [x \in S |-> f[x]]
  <1>1. g \in [S -> T] /\ \A t \in T : \E x \in S : g[x] = t
    OBVIOUS
  <1> HIDE DEF T
  <1>2. g \in Surjection(S, T)
    BY <1>1, Fun_IsSurj
  <1>3. IsFiniteSet(T)
    BY <1>2, FS_Surjection
  <1> QED BY <1>3 DEF T

(* A review given: it is the one of its writer that counts, if he is one.  *)
LEMMA ReviewKeeps ==
    ASSUME ViewInv, NEW u \in Users, NEW state \in {"APPROVED", "REQUEST_CHANGES", "COMMENT"}, Review(u, state)
    PROVE  ViewInv'
  <1> DEFINE rated == state # "COMMENT"
             kept == {r \in reviews : ~(r.user = u /\ r.state = "REQUEST_REVIEW")}
             after(r) == [r EXCEPT !.official = r.official /\ ~(rated /\ r.user = u)]
             new == NewReview(u, state, rated)
  <1> USE DEF Moves
  <1>1. ViewType /\ Ahead /\ Spoken /\ Reported /\ Planned
    BY DEF ViewInv
  <1>2. /\ reviews' = {after(r) : r \in kept} \union {new}
        /\ word' = (IF ~rated THEN word
                    ELSE [word EXCEPT ![u] = IF u \in Writers THEN [on |-> state, at |-> head.ref] ELSE NoWord])
        /\ asked' = asked \ {u} /\ moves' = moves + 1
        /\ UNCHANGED <<pull, rules, late, statuses, ci, head, timeline, scheduled, clock>>
    BY DEF Review
  <1>3. /\ new \in ReviewType /\ new.user = u /\ new.state = state /\ ~new.dismissed /\ ~new.stale
        /\ new.official <=> rated /\ u \in Writers
    BY <1>1 DEF NewReview, ReviewType, Ratings, ViewType
  <1>4. \A r \in kept :
          /\ r \in reviews /\ after(r) \in ReviewType
          /\ after(r).user = r.user /\ after(r).state = r.state /\ after(r).dismissed = r.dismissed
          /\ after(r).stale = r.stale
          /\ after(r).official <=> r.official /\ ~(rated /\ r.user = u)
          /\ ~(rated /\ r.user = u) => after(r) = r
    <2> SUFFICES ASSUME NEW r \in kept
                 PROVE  /\ r \in reviews /\ after(r) \in ReviewType
                        /\ after(r).user = r.user /\ after(r).state = r.state /\ after(r).dismissed = r.dismissed
                        /\ after(r).stale = r.stale
                        /\ after(r).official <=> r.official /\ ~(rated /\ r.user = u)
                        /\ ~(rated /\ r.user = u) => after(r) = r
      OBVIOUS
    <2>1. r \in ReviewType
      BY <1>1 DEF ViewType
    <2> QED BY <2>1 DEF ReviewType
  <1>5. ViewType'
    <2>1. IsFiniteSet(reviews')
      <3>1. IsFiniteSet(kept)
        BY <1>1, FS_Subset DEF ViewType
      <3> DEFINE f == [r \in kept |-> after(r)]
      <3>2. {after(r) : r \in kept} = {f[r] : r \in kept}
        OBVIOUS
      <3>3. IsFiniteSet({f[r] : r \in kept})
        <4>1. DOMAIN f = kept
          OBVIOUS
        <4> HIDE DEF f, kept
        <4> QED BY <3>1, <4>1, ImageFinite
      <3> QED BY <1>2, <3>2, <3>3, FS_AddElement
    <2>2. reviews' \subseteq ReviewType
      BY <1>2, <1>3, <1>4
    <2>3. word' \in [Users -> [on : Ratings \union {"none"}, at : Nat]]
      BY <1>1, <1>2 DEF ViewType, HeadType, StateType, Ratings, NoWord
    <2> QED BY <1>1, <1>2, <2>1, <2>2, <2>3 DEF ViewType
  <1>6. Ahead'
    BY <1>1, <1>2 DEF Ahead, ViewType, HeadType
  <1>7. Reported' /\ Planned'
    BY <1>1, <1>2, ReportedKept, PlannedKept DEF ViewType
  <1>8. Spoken'
    <2> HIDE DEF rated, kept, after, new
    <2>1. \A r \in reviews' : r.official => r.user \in Writers /\ r.state # "COMMENT"
      BY <1>1, <1>2, <1>3, <1>4 DEF Spoken, rated
    <2>2. ASSUME NEW x \in Users
          PROVE  /\ word'[x].at <= head'.ref
                 /\ IF word'[x].on = "none" THEN Counting(x)' = {}
                    ELSE \E r \in reviews' : /\ Counting(x)' = {r} /\ r.state = word'[x].on
                                             /\ r.stale <=> word'[x].at # head'.ref
      <3>1. CASE x = u /\ rated /\ u \in Writers
        <4>1. Counting(u)' = {new}
          BY <1>2, <1>3, <1>4, <3>1 DEF Counting, rated
        <4>2. word'[u] = [on |-> state, at |-> head.ref] /\ head' = head /\ head.ref \in Nat
          BY <1>1, <1>2, <3>1 DEF ViewType, HeadType, StateType
        <4>3. state # "none" /\ new \in reviews'
          BY <1>2
        <4> QED BY <1>3, <3>1, <4>1, <4>2, <4>3
      <3>2. CASE x = u /\ rated /\ u \notin Writers
        <4>1. Counting(u)' = {}
          BY <1>2, <1>3, <1>4, <3>2 DEF Counting
        <4>2. word'[u] = NoWord /\ head' = head /\ head.ref \in Nat
          BY <1>1, <1>2, <3>2 DEF ViewType, HeadType
        <4> QED BY <3>2, <4>1, <4>2 DEF NoWord
      <3>3. CASE ~(x = u /\ rated)
        <4>1. ASSUME NEW r PROVE r \in Counting(x)' <=> r \in Counting(x)
          BY <1>2, <1>3, <1>4, <3>3 DEF Counting, kept
        <4>2. Counting(x)' = Counting(x) /\ word'[x] = word[x] /\ head' = head
          BY <1>1, <1>2, <3>3, <4>1 DEF ViewType
        <4>3. \A r : Counting(x) = {r} => r \in reviews'
          BY <4>2 DEF Counting
        <4> QED BY <1>1, <4>2, <4>3 DEF Spoken
      <3> QED BY <3>1, <3>2, <3>3
    <2>3. asked' = {r.user : r \in {r \in reviews' : r.official /\ r.state = "REQUEST_REVIEW"}}
      <3>1. ASSUME NEW r \in reviews', r.official, r.state = "REQUEST_REVIEW" PROVE r.user \in asked \ {u}
        BY <1>1, <1>2, <1>3, <1>4, <3>1 DEF Spoken, kept
      <3>2. ASSUME NEW x \in asked \ {u} PROVE \E r \in reviews' : r.official /\ r.state = "REQUEST_REVIEW" /\ r.user = x
        <4>1. PICK r \in reviews : r.official /\ r.state = "REQUEST_REVIEW" /\ r.user = x
          BY <1>1, <3>2 DEF Spoken
        <4>2. r \in kept /\ after(r) = r
          BY <1>4, <3>2, <4>1 DEF kept
        <4> QED BY <1>2, <4>1, <4>2
      <3> QED BY <1>2, <3>1, <3>2
    <2> QED BY <2>1, <2>2, <2>3 DEF Spoken
  <1> QED BY <1>5, <1>6, <1>7, <1>8 DEF ViewInv

LEMMA RequestKeeps ==
    ASSUME ViewInv, NEW u \in Users, Request(u)
    PROVE  ViewInv'
  <1> DEFINE new == NewReview(u, "REQUEST_REVIEW", TRUE)
  <1> USE DEF Moves
  <1>1. ViewType /\ Ahead /\ Spoken /\ Reported /\ Planned
    BY DEF ViewInv
  <1>2. /\ reviews' = reviews \union {new} /\ u \notin asked
        /\ asked' = (IF u \in Writers THEN asked \union {u} ELSE asked) /\ moves' = moves + 1
        /\ UNCHANGED <<pull, rules, late, word, statuses, ci, head, timeline, scheduled, clock>>
    BY DEF Request
  <1>3. /\ new \in ReviewType /\ new.user = u /\ new.state = "REQUEST_REVIEW"
        /\ new.official <=> u \in Writers
    BY <1>1 DEF NewReview, ReviewType, ViewType
  <1> HIDE DEF new
  <1>4. ViewType'
    <2>1. IsFiniteSet(reviews')
      BY <1>1, <1>2, FS_AddElement DEF ViewType
    <2> QED BY <1>1, <1>2, <1>3, <2>1 DEF ViewType
  <1>5. Ahead'
    BY <1>1, <1>2 DEF Ahead, ViewType, HeadType
  <1>6. Reported' /\ Planned'
    BY <1>1, <1>2, ReportedKept, PlannedKept DEF ViewType
  <1>7. Spoken'
    <2>1. \A x \in Users : Counting(x)' = Counting(x)
      BY <1>2, <1>3 DEF Counting
    <2>2. asked' = {r.user : r \in {r \in reviews' : r.official /\ r.state = "REQUEST_REVIEW"}}
      <3>1. \A x : x \in asked <=> \E r \in reviews : r.official /\ r.state = "REQUEST_REVIEW" /\ r.user = x
        BY <1>1 DEF Spoken
      <3>2. \A x : x \in asked' <=> \E r \in reviews' : r.official /\ r.state = "REQUEST_REVIEW" /\ r.user = x
        BY <1>2, <1>3, <3>1
      <3> QED BY <3>2
    <2>3. \A r \in reviews' : r.official => r.user \in Writers /\ r.state # "COMMENT"
      BY <1>1, <1>2, <1>3 DEF Spoken
    <2>4. ASSUME NEW x \in Users
          PROVE  /\ word'[x].at <= head'.ref
                 /\ IF word'[x].on = "none" THEN Counting(x)' = {}
                    ELSE \E r \in reviews' : /\ Counting(x)' = {r} /\ r.state = word'[x].on
                                             /\ r.stale <=> word'[x].at # head'.ref
      BY <1>1, <1>2, <2>1 DEF Spoken
    <2> QED BY <2>2, <2>3, <2>4 DEF Spoken
  <1> QED BY <1>4, <1>5, <1>6, <1>7 DEF ViewInv

LEMMA DismissKeeps ==
    ASSUME ViewInv, NEW r \in reviews, Dismiss(r)
    PROVE  ViewInv'
  <1> DEFINE gone == [r EXCEPT !.dismissed = TRUE]
  <1> USE DEF Moves
  <1>1. ViewType /\ Ahead /\ Spoken /\ Reported /\ Planned
    BY DEF ViewInv
  <1>2. /\ reviews' = (reviews \ {r}) \union {gone} /\ r.state \in Ratings /\ ~r.dismissed /\ moves' = moves + 1
        /\ word' = (IF r.official THEN [word EXCEPT ![r.user] = NoWord] ELSE word)
        /\ UNCHANGED <<pull, rules, late, asked, statuses, ci, head, timeline, scheduled, clock>>
    BY DEF Dismiss, Ratings
  <1>3. /\ gone \in ReviewType /\ gone.user = r.user /\ gone.state = r.state /\ gone.official = r.official
        /\ gone.dismissed /\ r.user \in Users
    <2>1. r \in ReviewType
      BY <1>1 DEF ViewType
    <2> QED BY <2>1 DEF ReviewType
  <1> HIDE DEF gone
  <1>4. ViewType'
    <2>1. IsFiniteSet(reviews \ {r})
      BY <1>1, FS_Subset DEF ViewType
    <2>2. IsFiniteSet(reviews')
      BY <1>2, <2>1, FS_AddElement
    <2>3. word' \in [Users -> [on : Ratings \union {"none"}, at : Nat]]
      BY <1>1, <1>2 DEF ViewType, NoWord
    <2> QED BY <1>1, <1>2, <1>3, <2>2, <2>3 DEF ViewType
  <1>5. Ahead'
    BY <1>1, <1>2 DEF Ahead, ViewType, HeadType
  <1>6. Reported' /\ Planned'
    BY <1>1, <1>2, ReportedKept, PlannedKept DEF ViewType
  <1>7. Spoken'
    <2>1. \A q \in reviews' : q.official => q.user \in Writers /\ q.state # "COMMENT"
      BY <1>1, <1>2, <1>3 DEF Spoken
    <2>2. ASSUME NEW x \in Users
          PROVE  /\ word'[x].at <= head'.ref
                 /\ IF word'[x].on = "none" THEN Counting(x)' = {}
                    ELSE \E q \in reviews' : /\ Counting(x)' = {q} /\ q.state = word'[x].on
                                             /\ q.stale <=> word'[x].at # head'.ref
      <3>1. CASE r.official /\ x = r.user
        <4>1. r \in Counting(x)
          BY <1>2, <3>1 DEF Counting, Ratings
        <4>2. Counting(x) = {r}
          BY <1>1, <4>1 DEF Spoken
        <4>3. Counting(x)' = {}
          BY <1>2, <1>3, <4>2 DEF Counting
        <4>4. word'[x] = NoWord /\ head' = head /\ head.ref \in Nat
          BY <1>1, <1>2, <3>1 DEF ViewType, HeadType
        <4> QED BY <4>3, <4>4 DEF NoWord
      <3>2. CASE ~(r.official /\ x = r.user)
        <4>1. Counting(x)' = Counting(x)
          BY <1>2, <1>3, <3>2 DEF Counting
        <4>2. word'[x] = word[x] /\ head' = head
          BY <1>1, <1>2, <1>3, <3>2 DEF ViewType
        <4>3. \A q : Counting(x) = {q} => q \in reviews'
          BY <4>1 DEF Counting
        <4> QED BY <1>1, <4>1, <4>2, <4>3 DEF Spoken
      <3> QED BY <3>1, <3>2
    <2>3. asked' = {q.user : q \in {q \in reviews' : q.official /\ q.state = "REQUEST_REVIEW"}}
      <3>1. "REQUEST_REVIEW" \notin Ratings
        BY DEF Ratings
      <3>2. {q \in reviews' : q.official /\ q.state = "REQUEST_REVIEW"} = {q \in reviews : q.official /\ q.state = "REQUEST_REVIEW"}
        BY <1>2, <1>3, <3>1
      <3> QED BY <1>1, <1>2, <3>2 DEF Spoken
    <2> QED BY <2>1, <2>2, <2>3 DEF Spoken
  <1> QED BY <1>4, <1>5, <1>6, <1>7 DEF ViewInv

LEMMA ReportKeeps ==
    ASSUME ViewInv, NEW c \in Contexts, NEW state \in CommitStates, Report(c, state)
    PROVE  ViewInv'
  <1> DEFINE new == [context |-> c, state |-> state, note |-> "none", time |-> clock, id |-> moves]
  <1> USE DEF Moves
  <1>1. ViewType /\ Ahead /\ Spoken /\ Reported /\ Planned
    BY DEF ViewInv
  <1>2. /\ statuses' = Append(statuses, new) /\ ci' = [ci EXCEPT ![c] = state] /\ moves' = moves + 1
        /\ UNCHANGED <<pull, rules, late, reviews, word, asked, head, timeline, scheduled, clock>>
    BY DEF Report
  <1>3. new \in StatusType /\ new.time = clock /\ new.id = moves /\ new.context = c /\ new.state = state
    BY <1>1 DEF StatusType, Notes, ViewType
  <1> HIDE DEF new
  <1>4. ViewType'
    BY <1>1, <1>2, <1>3 DEF ViewType
  <1>5. Ahead'
    BY <1>1, <1>2 DEF Ahead, ViewType, HeadType
  <1>6. Spoken' /\ Planned'
    BY <1>1, <1>2, SpokenKept, PlannedKept DEF ViewType
  <1>7. /\ \A i \in DOMAIN statuses' : statuses'[i].time <= clock /\ statuses'[i].id < moves + 1
        /\ \A i, j \in DOMAIN statuses' : i < j => Newer(statuses'[j], statuses'[i])
        /\ \A i \in DOMAIN statuses : Newer(new, statuses[i])
    <2>1. \A x \in StatusType : x.time \in Nat /\ x.id \in Nat
      BY DEF StatusType
    <2> QED BY <1>1, <1>2, <1>3, <2>1, OrderGrows DEF ViewType, Reported
  <1>8. Posted(statuses') = Posted(statuses) \union {new}
    <2>1. /\ DOMAIN statuses' = 1..(Len(statuses) + 1) /\ DOMAIN statuses = 1..Len(statuses) /\ Len(statuses) \in Nat
          /\ \A i \in 1..Len(statuses) : statuses'[i] = statuses[i]
          /\ statuses'[Len(statuses) + 1] = new
      BY <1>1, <1>2, <1>3 DEF ViewType
    <2>2. ASSUME NEW s PROVE s \in Posted(statuses') <=> s \in Posted(statuses) \union {new}
      BY <2>1 DEF Posted
    <2> QED BY <2>2
  <1>9. Reported'
    <2>1. InOrder(statuses)'
      BY <1>2, <1>7 DEF InOrder, Newer
    <2>2. /\ \A s \in Posted(statuses) : Newer(new, s) /\ ~Newer(s, new)
          /\ ~Newer(new, new)
      <3>1. \A i \in DOMAIN statuses : statuses[i] \in StatusType
        BY <1>1 DEF ViewType
      <3> QED BY <1>3, <1>7, <3>1 DEF Posted, Newer, StatusType
    <2>3. new \in Latest(statuses')
      BY <1>8, <2>2 DEF Latest
    <2>4. \A s \in Latest(statuses) : s.context # c => s \in Latest(statuses')
      BY <1>3, <1>8 DEF Latest
    <2>5. \A d \in Contexts : d # c => (d \in ContextsOf(statuses') <=> d \in ContextsOf(statuses))
      BY <1>3, <1>8 DEF ContextsOf
    <2>6. ASSUME NEW d \in Contexts
          PROVE  IF ci'[d] = "none" THEN d \notin ContextsOf(statuses')
                 ELSE \E s \in Latest(statuses') : s.context = d /\ s.state = ci'[d]
      <3>1. CASE d = c
        BY <1>1, <1>2, <1>3, <2>3, <3>1 DEF ViewType, CommitStates
      <3>2. CASE d # c
        BY <1>1, <1>2, <2>4, <2>5, <3>2 DEF ViewType, Reported
      <3> QED BY <3>1, <3>2
    <2>7. Latest(statuses)' = Latest(statuses') /\ ContextsOf(statuses)' = ContextsOf(statuses')
      BY DEF Latest, ContextsOf, Posted, Newer
    <2> QED BY <2>1, <2>6, <2>7 DEF Reported
  <1> QED BY <1>4, <1>5, <1>6, <1>9 DEF ViewInv

(* With the pull request at another commit, every review is stale.         *)
LEMMA OutdatedReviews ==
    ASSUME ViewType, Spoken
    PROVE  /\ Outdated \subseteq ReviewType /\ IsFiniteSet(Outdated)
           /\ reviews' = Outdated /\ word' = word /\ asked' = asked /\ head'.ref \in Nat /\ head'.ref > head.ref
                => Spoken'
  <1> DEFINE after(r) == [r EXCEPT !.stale = TRUE]
             f == [r \in reviews |-> after(r)]
  <1>1. \A r \in reviews :
          /\ after(r) \in ReviewType /\ after(r).stale
          /\ after(r).user = r.user /\ after(r).state = r.state /\ after(r).official = r.official
          /\ after(r).dismissed = r.dismissed
    <2> SUFFICES ASSUME NEW r \in reviews
                 PROVE  /\ after(r) \in ReviewType /\ after(r).stale
                        /\ after(r).user = r.user /\ after(r).state = r.state /\ after(r).official = r.official
                        /\ after(r).dismissed = r.dismissed
      OBVIOUS
    <2>1. r \in ReviewType
      BY DEF ViewType
    <2> QED BY <2>1 DEF ReviewType
  <1>2. Outdated = {after(r) : r \in reviews}
    BY DEF Outdated
  <1>3. IsFiniteSet(Outdated)
    <2>1. Outdated = {f[r] : r \in reviews}
      BY <1>2
    <2>2. DOMAIN f = reviews
      OBVIOUS
    <2> HIDE DEF f
    <2> QED BY <2>1, <2>2, ImageFinite DEF ViewType
  <1> HIDE DEF after
  <1>4. ASSUME reviews' = Outdated, word' = word, asked' = asked, head'.ref \in Nat, head'.ref > head.ref
        PROVE  Spoken'
    <2>1. \A r \in reviews' : r.official => r.user \in Writers /\ r.state # "COMMENT"
      BY <1>1, <1>2, <1>4 DEF Spoken
    <2>2. ASSUME NEW x \in Users
          PROVE  /\ word'[x].at <= head'.ref
                 /\ IF word'[x].on = "none" THEN Counting(x)' = {}
                    ELSE \E r \in reviews' : /\ Counting(x)' = {r} /\ r.state = word'[x].on
                                             /\ r.stale <=> word'[x].at # head'.ref
      <3>1. word[x].at \in Nat /\ head.ref \in Nat /\ word[x].at <= head.ref
        BY DEF ViewType, HeadType, Spoken
      <3>2. word'[x].at <= head'.ref /\ word'[x].at # head'.ref
        BY <1>4, <3>1
      <3>3. ASSUME NEW q PROVE q \in Counting(x)' <=> \E r \in Counting(x) : q = after(r)
        BY <1>1, <1>2, <1>4 DEF Counting
      <3>4. CASE word[x].on = "none"
        <4>1. Counting(x) = {}
          BY <3>4 DEF Spoken
        <4>2. Counting(x)' = {}
          BY <3>3, <4>1
        <4> QED BY <1>4, <3>2, <3>4, <4>2
      <3>5. CASE word[x].on # "none"
        <4>1. PICK r \in reviews : Counting(x) = {r} /\ r.state = word[x].on
          BY <3>5 DEF Spoken
        <4>2. Counting(x)' = {after(r)}
          BY <3>3, <4>1
        <4>3. after(r) \in reviews' /\ after(r).state = r.state /\ after(r).stale
          BY <1>1, <1>2, <1>4, <4>1
        <4> QED BY <1>4, <3>2, <3>5, <4>1, <4>2, <4>3
      <3> QED BY <3>4, <3>5
    <2>3. asked' = {q.user : q \in {q \in reviews' : q.official /\ q.state = "REQUEST_REVIEW"}}
      <3>1. \A x : x \in asked <=> \E r \in reviews : r.official /\ r.state = "REQUEST_REVIEW" /\ r.user = x
        BY DEF Spoken
      <3>2. \A x : x \in asked' <=> \E r \in reviews' : r.official /\ r.state = "REQUEST_REVIEW" /\ r.user = x
        BY <1>1, <1>2, <1>4, <3>1
      <3> QED BY <3>2
    <2> QED BY <2>1, <2>2, <2>3 DEF Spoken
  <1> QED BY <1>1, <1>2, <1>3, <1>4

LEMMA FollowKeeps == ASSUME ViewInv, Follow PROVE ViewInv'
  <1>1. ViewType /\ Ahead /\ Spoken /\ Reported /\ Planned
    BY DEF ViewInv
  <1>2. /\ head' = [head EXCEPT !.ref = head.tip] /\ head.tip # 0 /\ head.tip # head.ref /\ reviews' = Outdated
        /\ head.kind # "agit"
        /\ UNCHANGED <<pull, rules, late, word, asked, statuses, ci, timeline, scheduled, clock, moves>>
    BY DEF Follow
  <1>3. /\ head' \in HeadType
        /\ head'.ref = head.tip /\ head'.tip = head.tip /\ head'.kind = head.kind
        /\ head.tip \in Nat /\ head.ref \in Nat
    BY <1>1, <1>2 DEF ViewType, HeadType
  <1>4. head'.ref \in Nat /\ head'.ref > head.ref
    BY <1>1, <1>2, <1>3 DEF Ahead
  <1>5. ViewType'
    BY <1>1, <1>2, <1>3, OutdatedReviews DEF ViewType
  <1>6. Ahead'
    BY <1>1, <1>2, <1>3 DEF Ahead, ViewType
  <1>7. Reported' /\ Planned'
    BY <1>1, <1>2, ReportedKept, PlannedKept DEF ViewType
  <1>8. Spoken'
    BY <1>1, <1>2, <1>4, OutdatedReviews
  <1> QED BY <1>5, <1>6, <1>7, <1>8 DEF ViewInv

LEMMA PushHeadKeeps == ASSUME ViewInv, PushHead PROVE ViewInv'
  <1> USE DEF Moves
  <1>1. ViewType /\ Ahead /\ Spoken /\ Reported /\ Planned
    BY DEF ViewInv
  <1>2. /\ statuses' = <<>> /\ ci' = [c \in Contexts |-> "none"] /\ late' \in BOOLEAN /\ moves' = moves + 1
        /\ UNCHANGED <<pull, rules, word, asked, timeline, scheduled, clock>>
    BY DEF PushHead
  <1>3. CASE head.kind = "agit"
    <2>1. head' = [head EXCEPT !.ref = moves + 2] /\ reviews' = Outdated
      BY <1>3 DEF PushHead
    <2>2. /\ head' \in HeadType
          /\ head'.ref = moves + 2 /\ head'.tip = 0 /\ head'.kind = "agit"
          /\ head.ref \in Nat /\ moves \in Nat /\ head.ref <= moves + 1
      <3>1. head \in HeadType /\ moves \in Nat
        BY <1>1 DEF ViewType
      <3>2. head.tip = 0 /\ head.ref <= moves + 1
        BY <1>1, <1>3 DEF Ahead
      <3> QED BY <1>3, <2>1, <3>1, <3>2 DEF HeadType
    <2>3. Spoken' /\ Outdated \subseteq ReviewType /\ IsFiniteSet(Outdated)
      BY <1>1, <1>2, <2>1, <2>2, OutdatedReviews
    <2>4. ViewType'
      BY <1>1, <1>2, <2>1, <2>2, <2>3 DEF ViewType
    <2>5. Ahead'
      BY <1>1, <1>2, <2>2 DEF Ahead
    <2> QED BY <1>1, <1>2, <2>3, <2>4, <2>5, ReportedAnew, PlannedKept DEF ViewInv, ViewType
  <1>4. CASE head.kind # "agit"
    <2>1. head' = [head EXCEPT !.tip = moves + 2] /\ reviews' = reviews /\ head.kind # "fork_gone"
      BY <1>4 DEF PushHead
    <2>2. /\ head' \in HeadType
          /\ head'.ref = head.ref /\ head'.tip = moves + 2 /\ head'.kind = head.kind
          /\ head.ref \in Nat /\ moves \in Nat /\ head.ref <= moves + 1
      <3>1. head \in HeadType /\ moves \in Nat
        BY <1>1 DEF ViewType
      <3>2. head.ref <= moves + 1
        BY <1>1 DEF Ahead
      <3> QED BY <2>1, <3>1, <3>2 DEF HeadType
    <2>3. Spoken'
      BY <1>1, <1>2, <2>1, <2>2, SpokenKept
    <2>4. ViewType'
      BY <1>1, <1>2, <2>1, <2>2 DEF ViewType
    <2>5. Ahead'
      BY <1>1, <1>2, <1>4, <2>1, <2>2 DEF Ahead
    <2> QED BY <1>1, <1>2, <2>3, <2>4, <2>5, ReportedAnew, PlannedKept DEF ViewInv, ViewType
  <1> QED BY <1>3, <1>4

LEMMA LoseKeeps == ASSUME ViewInv, Lose PROVE ViewInv'
  <1> USE DEF Moves
  <1>1. ViewType /\ Ahead /\ Spoken /\ Reported /\ Planned
    BY DEF ViewInv
  <1>2. /\ \/ head' = [head EXCEPT !.tip = 0]
           \/ head' = [head EXCEPT !.tip = 0, !.kind = "fork_gone"]
        /\ \E state \in {pull.state, "closed"} : pull' = [pull EXCEPT !.state = state]
        /\ moves' = moves + 1
        /\ UNCHANGED <<rules, late, reviews, word, asked, timeline, scheduled, clock>>
    BY DEF Lose
  <1>3. \/ UNCHANGED <<statuses, ci>>
        \/ statuses' = <<>> /\ ci' = [c \in Contexts |-> "none"]
    BY DEF Lose
  <1>4. /\ head' \in HeadType
        /\ head'.ref = head.ref /\ head'.tip = 0
    <2>1. head \in HeadType
      BY <1>1 DEF ViewType
    <2>2. CASE head' = [head EXCEPT !.tip = 0]
      BY <2>1, <2>2 DEF HeadType
    <2>3. CASE head' = [head EXCEPT !.tip = 0, !.kind = "fork_gone"]
      BY <2>1, <2>3 DEF HeadType
    <2> QED BY <1>2, <2>2, <2>3
  <1>5. /\ pull' \in StateType
        /\ pull'.merged = pull.merged /\ pull'.state \in {pull.state, "closed"}
    BY <1>1, <1>2 DEF ViewType, HeadType, StateType
  <1>6. ViewType'
    <2>1. statuses' \in Seq(StatusType) /\ ci' \in [Contexts -> CommitStates \union {"none"}]
      <3>1. <<>> \in Seq(StatusType) /\ [c \in Contexts |-> "none"] \in [Contexts -> CommitStates \union {"none"}]
        OBVIOUS
      <3> QED BY <1>1, <1>3, <3>1 DEF ViewType
    <2> QED BY <1>1, <1>2, <1>4, <1>5, <2>1 DEF ViewType
  <1>7. Ahead'
    BY <1>1, <1>2, <1>4, <1>5 DEF Ahead, ViewType, HeadType, StateType
  <1>8. Spoken' /\ Planned'
    BY <1>1, <1>2, <1>4, <1>5, SpokenKept, PlannedKept DEF ViewType
  <1>9. Reported'
    BY <1>1, <1>2, <1>3, ReportedKept, ReportedAnew DEF ViewType
  <1> QED BY <1>6, <1>7, <1>8, <1>9 DEF ViewInv

(* The other events leave reviews and statuses alone.                      *)
LEMMA Elsewhere ==
    ASSUME ViewInv, UNCHANGED <<late, reviews, word, asked, statuses, ci, head>>, moves' \in Nat, moves <= moves',
           clock' \in Nat, clock <= clock', rules' \in RuleLists, scheduled' \in ScheduleType \union {None},
           pull' \in StateType,
           pull'.merged => pull'.state = "closed",
           timeline' \in Seq(EventType), Planned'
    PROVE  ViewInv'
  <1>1. ViewType /\ Ahead /\ Spoken /\ Reported /\ Planned
    BY DEF ViewInv
  <1>2. ViewType'
    BY <1>1 DEF ViewType
  <1>3. Ahead'
    BY <1>1 DEF Ahead, ViewType, HeadType
  <1>4. Spoken' /\ Reported'
    BY <1>1, SpokenKept, ReportedKept
  <1> QED BY <1>2, <1>3, <1>4 DEF ViewInv

LEMMA EditKeeps == ASSUME ViewInv, Edit PROVE ViewInv'
  <1> USE DEF Moves
  <1>1. ViewType /\ Planned
    BY DEF ViewInv
  <1>2. /\ ~pull.merged /\ moves' = moves + 1
        /\ \/ \E state \in {"open", "closed"} \ {pull.state} : pull' = [pull EXCEPT !.state = state]
           \/ pull' = [pull EXCEPT !.fits = ~pull.fits]
           \/ pull' = [pull EXCEPT !.draft = ~pull.draft]
           \/ pull' = [pull EXCEPT !.held = ~pull.held]
        /\ UNCHANGED <<rules, late, reviews, word, asked, statuses, ci, head, timeline, scheduled, clock>>
    BY DEF Edit
  <1>3. /\ pull' \in StateType
        /\ pull'.merged = pull.merged
    BY <1>1, <1>2 DEF ViewType, HeadType, StateType
  <1>4. Planned'
    BY <1>1, <1>2, <1>3, PlannedKept DEF ViewType
  <1> QED BY <1>1, <1>2, <1>3, <1>4, Elsewhere DEF ViewType

LEMMA MergeKeeps == ASSUME ViewInv, Merge PROVE ViewInv'
  <1> USE DEF Moves
  <1>1. ViewType /\ Planned
    BY DEF ViewInv
  <1>2. /\ pull' = [pull EXCEPT !.merged = TRUE, !.state = "closed"] /\ scheduled' = None /\ moves' = moves + 1
        /\ UNCHANGED <<rules, late, reviews, word, asked, statuses, ci, head, timeline, clock>>
    BY DEF Merge
  <1>3. /\ pull' \in StateType
        /\ pull'.merged /\ pull'.state = "closed"
    BY <1>1, <1>2 DEF ViewType, HeadType, StateType
  <1>4. Planned'
    BY <1>1, <1>2, <1>3, PlannedKept DEF ViewType
  <1> QED BY <1>1, <1>2, <1>3, <1>4, Elsewhere DEF ViewType

LEMMA ProtectKeeps == ASSUME ViewInv, Protect PROVE ViewInv'
  <1> USE DEF Moves
  <1>1. ViewType /\ Planned /\ Ahead
    BY DEF ViewInv
  <1>2. /\ rules' \in RuleLists /\ moves' = moves + 1
        /\ UNCHANGED <<pull, late, reviews, word, asked, statuses, ci, head, timeline, scheduled, clock>>
    BY DEF Protect
  <1>3. Planned'
    BY <1>1, <1>2, PlannedKept DEF ViewType
  <1> QED BY <1>1, <1>2, <1>3, Elsewhere DEF ViewType, Ahead

LEMMA TickKeeps == ASSUME ViewInv, Tick PROVE ViewInv'
  <1>1. ViewType /\ Planned /\ Ahead
    BY DEF ViewInv
  <1>2. Planned'
    BY <1>1, PlannedKept DEF ViewType, Tick
  <1> QED BY <1>1, <1>2, Elsewhere DEF ViewType, Ahead, Tick

LEMMA DropKeeps == ASSUME ViewInv, Drop PROVE ViewInv'
  <1> USE DEF Moves
  <1>1. ViewType /\ Planned /\ Ahead
    BY DEF ViewInv
  <1>2. /\ scheduled # None /\ scheduled' = [scheduled EXCEPT !.live = FALSE] /\ moves' = moves + 1
        /\ UNCHANGED <<pull, rules, late, reviews, word, asked, statuses, ci, head, timeline, clock>>
    BY DEF Drop, Live
  <1>3. scheduled' \in ScheduleType /\ scheduled'.by = scheduled.by /\ scheduled' # None
    BY <1>1, <1>2, PullViewAssumption DEF ViewType, ScheduleType
  <1>4. Planned'
    BY <1>1, <1>2, <1>3, PlannedKept DEF ViewType
  <1> QED BY <1>1, <1>2, <1>3, <1>4, Elsewhere DEF ViewType, Ahead

LEMMA PlanKeeps == ASSUME ViewInv, NEW u \in Users, Plan(u) PROVE ViewInv'
  <1> USE DEF Moves
  <1> DEFINE new(kind) == [kind |-> kind, user |-> u, time |-> clock, id |-> moves]
  <1>1. ViewType /\ Planned /\ Ahead
    BY DEF ViewInv
  <1>2. PICK kind \in {"schedule", "cancel", "comment"} :
          /\ timeline' = Append(timeline, new(kind))
          /\ scheduled' = IF kind = "schedule" THEN [by |-> u, live |-> TRUE] ELSE IF kind = "cancel" THEN None ELSE scheduled
    <2>1. "schedule" # "cancel" /\ "comment" \notin {"schedule", "cancel"}
      OBVIOUS
    <2> QED BY <2>1, Zenon DEF Plan, Event
  <1>3. moves' = moves + 1 /\ ~pull.merged
        /\ UNCHANGED <<pull, rules, late, reviews, word, asked, statuses, ci, head, clock>>
    BY DEF Plan, Open
  <1> DEFINE e == new(kind)
  <1>4. e \in EventType /\ e.time = clock /\ e.id = moves /\ e.kind = kind /\ e.user = u
    BY <1>1 DEF EventType, ViewType
  <1> HIDE DEF e
  <1>5. timeline' = Append(timeline, e)
    BY <1>2 DEF e
  <1>6. /\ \A i \in DOMAIN timeline' : timeline'[i].time <= clock /\ timeline'[i].id < moves + 1
        /\ \A i, j \in DOMAIN timeline' : i < j => Newer(timeline'[j], timeline'[i])
        /\ \A i \in DOMAIN timeline : Newer(e, timeline[i])
    <2>1. \A x \in EventType : x.time \in Nat /\ x.id \in Nat
      BY DEF EventType
    <2> QED BY <1>1, <1>4, <1>5, <2>1, OrderGrows DEF ViewType, Planned
  <1>7. MergeEvents' = IF kind = "comment" THEN MergeEvents ELSE MergeEvents \union {e}
    <2>1. /\ DOMAIN timeline' = 1..(Len(timeline) + 1) /\ DOMAIN timeline = 1..Len(timeline) /\ Len(timeline) \in Nat
          /\ \A i \in 1..Len(timeline) : timeline'[i] = timeline[i]
          /\ timeline'[Len(timeline) + 1] = e
      BY <1>1, <1>4, <1>5 DEF ViewType
    <2>2. ASSUME NEW x PROVE x \in {timeline'[i] : i \in DOMAIN timeline'} <=> x \in {timeline[i] : i \in DOMAIN timeline} \union {e}
      BY <2>1
    <2> QED BY <1>4, <2>2 DEF MergeEvents
  <1>8. \A o \in MergeEvents : Newer(e, o) /\ ~Newer(o, e)
    <2>1. \A i \in DOMAIN timeline : timeline[i] \in EventType
      BY <1>1 DEF ViewType
    <2> QED BY <1>4, <1>6, <2>1 DEF MergeEvents, Newer, EventType
  <1>9. ~Newer(e, e)
    BY <1>1, <1>4 DEF Newer, ViewType
  <1>10. Planned'
    <2>1. InOrder(timeline)'
      BY <1>3, <1>6 DEF InOrder, Newer
    <2>2. \A a, b : Newer(a, b)' <=> Newer(a, b)
      BY DEF Newer
    <2>3. CASE kind = "schedule"
      <3>1. scheduled' # None /\ scheduled'.by = u
        <4>1. scheduled' = [by |-> u, live |-> TRUE]
          BY <1>2, <2>3
        <4>2. scheduled' \in ScheduleType
          BY <4>1 DEF ScheduleType
        <4> QED BY <4>1, <4>2, PullViewAssumption
      <3> QED BY <1>2, <1>4, <1>7, <1>8, <1>9, <2>1, <2>2, <2>3, <3>1 DEF Planned
    <2>4. CASE kind = "cancel"
      BY <1>2, <1>4, <1>7, <1>8, <1>9, <2>1, <2>2, <2>4 DEF Planned
    <2>5. CASE kind = "comment"
      BY <1>1, <1>2, <1>3, <1>7, <2>1, <2>2, <2>5 DEF Planned
    <2> QED BY <2>3, <2>4, <2>5
  <1>11. timeline' \in Seq(EventType) /\ scheduled' \in ScheduleType \union {None}
    BY <1>1, <1>2, <1>4, <1>5 DEF ViewType, ScheduleType
  <1> QED BY <1>1, <1>3, <1>10, <1>11, Elsewhere DEF ViewType, Ahead

LEMMA ViewNextKeeps == ViewInv /\ [ViewNext]_viewVars => ViewInv'
  <1> SUFFICES ASSUME ViewInv, [ViewNext]_viewVars PROVE ViewInv'
    OBVIOUS
  <1>1. CASE ViewNext
    BY <1>1, ReviewKeeps, RequestKeeps, DismissKeeps, ReportKeeps, FollowKeeps, PushHeadKeeps, LoseKeeps, EditKeeps,
       MergeKeeps, ProtectKeeps, PlanKeeps, DropKeeps, TickKeeps DEF ViewNext, Reviewing, Building, Branching, Scheduling
  <1>2. CASE UNCHANGED viewVars
    <2>1. ViewType /\ Planned /\ Ahead
      BY DEF ViewInv
    <2>2. Planned'
      BY <1>2, <2>1, PlannedKept DEF ViewType, viewVars
    <2> QED BY <1>2, <2>1, <2>2, Elsewhere DEF ViewType, Ahead, viewVars
  <1> QED BY <1>1, <1>2

(***************************************************************************)
(* What gh is told of a pull request.                                      *)
(***************************************************************************)

\* The lists Forgejo serves agree with what has happened: a writer's latest verdict
\* is the one review of his that counts, the newest status of a context is its
\* state, and the newest event of a scheduled merge is of the schedule last made and not
\* cancelled, though Forgejo may have dropped it since (reviews, statuses and timelines as
\* map::pulls and auto_merge_event read them).
THEOREM ViewInvariance == ViewSpec => []ViewInv
  BY ViewStarts, ViewNextKeeps, PTL DEF ViewSpec

\* A pull request gh is told is clean or unstable Forgejo would merge, but for a refusal
\* no read shows and a compare that is missing, and one said blocked or behind it refuses
\* for that reason, for any rules, reviews, statuses and viewers (map::pulls merge_state,
\* review_decision, Session::behind).
THEOREM VerdictsTrue == ViewSpec => []VerdictTruthful
  BY ViewInvariance, TrueVerdicts, PTL

\* gh is led to a head branch by name exactly while that name is the pull request's own
\* commit, whatever is pushed, deleted or closed (head_is_pr_head, head_repository).
THEOREM HeadsTrue == ViewSpec => []HeadNeverMistaken
  BY ViewInvariance, HeadsHold, PTL

\* gh is told of the schedule last made until it is cancelled or the pull request ends,
\* dropped by Forgejo or not, and is offered to make or cancel one only where Forgejo would
\* let that user (auto_merge_request, viewer_can_enable_auto_merge,
\* viewer_can_disable_auto_merge).
THEOREM OffersTrue == ViewSpec => []AutoMergeOffered
  BY ViewInvariance, OffersHold, PTL
=============================================================================
