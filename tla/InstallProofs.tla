--------------------------- MODULE InstallProofs ---------------------------
(***************************************************************************)
(* What gfj keeps of the user's, whatever commands run beside each other,  *)
(* fail or are killed: the tokens and entries of hosts no command names,   *)
(* and the gh and git that are not gfj's.  And what a command nobody       *)
(* disturbs does: `gfj auth` and `gfj config` what they say and nothing    *)
(* else, install-shim and bootstrap a wrapper that runs the gh they        *)
(* checked, uninstall-shim the removal of each of those.  The invariant    *)
(* says, of each command and each place it may be, how what it read some   *)
(* steps ago still bears on the files as they are now.                     *)
(***************************************************************************)
EXTENDS Install, SequenceTheorems, FiniteSetTheorems, WellFoundedInduction, TLAPS

(***************************************************************************)
(* The invariant: what the stores hold                                     *)
(***************************************************************************)

\* bootstrap has a host only once it has looked.
Acting == {p \in Procs : cmd[p].op \in Ops \/ pc[p] \notin {"ready", "inspect"}}
Unnamed == Hosts \ {cmd[p].host : p \in Acting}

\* A file nobody has made holds nothing.
MissingIsEmpty == auth.state = "missing" => auth.of = NoTokens

\* A command about to replace or remove auth.json found it whole, or missing, and
\* agrees with it on the hosts nobody names.
WriterOK(p) ==
    /\ pc[p] \in {"publish", "unlink"} => auth.state \in {"missing", "whole"}
    /\ pc[p] = "publish" => read[p].state = "whole" /\ \A h \in Unnamed : read[p].of[h] = auth.of[h]
    /\ pc[p] = "unlink" => \A h \in Unnamed : auth.of[h] = None

\* A command about to replace config.toml lists what is listed now.
EditorOK(p) ==
    /\ pc[p] \in {"reread", "replace"} =>
          /\ ~config.corrupt /\ ~loaded[p].corrupt
          /\ \A h \in Unnamed : h \in loaded[p].listed <=> h \in Allowed
    /\ pc[p] = "replace" => \A h \in Unnamed : h \in loaded[p].tables => h \in Allowed

\* What no command names is as each of them found it.
Kept == \A h \in Unnamed, p \in Procs :
          /\ StoredToken[h] = before[p].tokens[h] /\ auth.of[h] = before[p].held[h]
          /\ h \in Allowed <=> h \in before[p].allowed

(***************************************************************************)
(* The invariant: where a command may be, and what it has seen             *)
(***************************************************************************)

Plans == {"none", "leave", "not_resolved", "github_allowlisted", "allowlist", "unusable", "conflict"}
Fixes == {"real gh", "repository", "shim", "current PATH", "auth"}
Views == [target: Dirs \union {None}, gh: Places \union {None}, plan: Plans, hosts: SUBSET Hosts,
          fixes: SUBSET Fixes, left: Seq(Dirs), done: BOOLEAN]
ViewTypes == path \in Seq(Dirs) /\ view \in [Procs -> Views]

Editing == {"load", "reread", "replace"}
Clearing == {"erase", "unlink", "publish"}
Installing == {"look", "place", "path", "agent", "apply", "finish"}
Recording == {"open", "put_git", "put_marker", "drop_git", "drop_marker", "drop_dir"}
OrderOK(p) ==
    /\ pc[p] \in {"obtain", "save", "write"} => cmd[p].op \in Logins
    /\ pc[p] = "forget" => cmd[p].op = "logout"
    /\ pc[p] \in Clearing => cmd[p].op \in Logins \union {"logout"}
    /\ pc[p] \in Editing => cmd[p].op \in Logins \union {"add", "remove", "bootstrap"}
    /\ pc[p] \in {"inspect"} \union Installing => cmd[p].op \in Installers
    /\ pc[p] \in {"gather", "sift", "unlink_shim"} => cmd[p].op = "uninstall"
    /\ pc[p] \in Recording => cmd[p].op \in Recorders
    /\ p \in litter => pc[p] \in {"publish", "killed"}

\* Two commands that run at once are known to.
Solo == \A p, q \in Running : p # q => p \in overlapped /\ q \in overlapped

\* An installer that has looked.
Looked(p) == pc[p] \in Installing \/ (cmd[p].op = "bootstrap" /\ pc[p] \in Editing)
Theirs == {"gh", "old", "dispatcher"}
DefaultDirs == {Local} \union (Listed(path) \cap HomeDirs)
Doomed(p) == IF view[p].left = <<>> THEN Local ELSE Head(view[p].left)

\* Where it will write or remove is not the user's, unless he came between.
PlaceOK(p) ==
    /\ Looked(p) => view[p].target \in Dirs
    /\ args[p].dir = None => view[p].target \in DefaultDirs \union {None}
    /\ pc[p] = "place" => ~args[p].dry_run
    /\ pc[p] = "place" /\ ~args[p].force /\ p \notin raced => entry[view[p].target] \notin Theirs
    /\ pc[p] = "unlink_shim" /\ p \notin raced
         => entry[Doomed(p)] \notin Theirs /\ (args[p].dir = None => entry[Doomed(p)] \notin Places)

BoxOK(p) ==
    /\ pc[p] = "put_git" /\ box.git = "user" => p \in raced
    /\ pc[p] = "drop_dir" => view[p].done

(***************************************************************************)
(* The invariant: a command nobody disturbs                                *)
(***************************************************************************)

\* The gh it checked is the one its wrapper will run, or runs.
Expected(p) == SetupFinds(entry, IF args[p].force THEN view[p].target ELSE None)
ShimOK(p) ==
    LET a == args[p]
        v == view[p]
    IN  Undisturbed(p) =>
          /\ Looked(p) /\ pc[p] \in Editing \union {"look", "place"}
               => /\ v.gh = Expected(p)
                  /\ a.dry_run \/ Supported(entry, v.gh)
          /\ pc[p] = "place" => a.force \/ entry[v.target] = "missing" \/ Managed(entry, v.target)
          /\ pc[p] \in {"path", "agent", "apply", "finish"} /\ ~a.dry_run /\ "shim" \notin v.fixes
               => WrapperFinds(entry) = v.gh /\ Supported(entry, v.gh)
          /\ pc[p] \in {"agent", "apply", "finish"} /\ ~a.dry_run /\ "current PATH" \notin v.fixes
               => FirstGh # None /\ Managed(entry, FirstGh)

\* What a plain uninstall-shim has yet to look at.
SiftOK(p) ==
    Undisturbed(p) /\ pc[p] \in {"sift", "unlink_shim"} /\ args[p].dir = None
      => \A d \in DefaultDirs : entry[d] = "wrapper" => d \in Listed(view[p].left)

Untouched(p) == Allowed = AllowedThen(p) /\ StoredToken = TokensThen(p)
Edited(p) == IF cmd[p].op = "remove" THEN AllowedThen(p) \ {cmd[p].host} ELSE AllowedThen(p) \union {cmd[p].host}
With(p, t) == [TokensThen(p) EXCEPT ![cmd[p].host] = t]

\* The Keychain has let go of the host's token, or has the new one.
Cleared(p) ==
    LET h == cmd[p].host
    IN  IF cmd[p].op = "logout"
        THEN /\ onMac /\ keychain[h] # None => p \in refused
             /\ \A g \in Hosts \ {h} : StoredToken[g] = TokensThen(p)[g]
        ELSE onMac /\ keychain[h] = p /\ StoredToken = With(p, p)

\* It refused, or is not there, and auth.json is to hold the new token.
Falling(p) == StoredToken = TokensThen(p) /\ (onMac => p \in refused)

\* How far a command has got on the stores.
ProgressOK(p) ==
    LET h == cmd[p].host
    IN  Alone(p) =>
          /\ pc[p] \in {"obtain", "forget", "inspect"} \union Editing => Untouched(p)
          /\ pc[p] \in {"reread", "replace"}
               => ~config.corrupt /\ ~loaded[p].corrupt /\ loaded[p].listed = Edited(p)
          /\ pc[p] = "replace" => AllowedBy(loaded[p]) = Edited(p)
          /\ pc[p] \in {"save", "write"} \union Clearing
               => Allowed = IF cmd[p].op = "logout" THEN AllowedThen(p) ELSE Edited(p)
          /\ pc[p] = "save" => StoredToken = TokensThen(p)
          /\ pc[p] = "write" => Falling(p)
          /\ pc[p] \in {"erase", "unlink"} => Cleared(p)
          /\ pc[p] = "unlink" => auth.state = "whole" /\ [auth.of EXCEPT ![h] = None] = NoTokens
          /\ pc[p] = "publish" =>
               /\ read[p].state = "whole"
               /\ \/ Cleared(p) /\ auth.state = "whole" /\ read[p].of = [auth.of EXCEPT ![h] = None]
                  \/ /\ Falling(p) /\ cmd[p].op \in Logins /\ auth.state \in {"missing", "whole"}
                     /\ read[p].of = [auth.of EXCEPT ![h] = p]
          /\ cmd[p].op = "bootstrap" /\ Looked(p)
               => /\ view[p].plan = "allowlist" => h \notin checkout.yml
                  /\ pc[p] \in Editing => view[p].plan = "allowlist" /\ ~args[p].dry_run
                  /\ pc[p] \in Installing
                       => Allowed = IF view[p].plan = "allowlist" /\ ~args[p].dry_run
                                    THEN Edited(p) ELSE AllowedThen(p)

\* The parts of the invariant, and all of it.
StoresOK == MissingIsEmpty /\ Kept /\ \A p \in Procs : WriterOK(p) /\ EditorOK(p)
HomeOK == /\ box.dir \/ box = NoBox
          /\ defaults \subseteq DefaultDirs
          /\ \A p \in Procs : PlaceOK(p) /\ BoxOK(p)
UndisturbedOK == \A p \in Procs : ShimOK(p) /\ SiftOK(p) /\ ProgressOK(p)
Orders == \A p \in Procs : OrderOK(p)
IInv == InstallTypeOK /\ ViewTypes /\ Orders /\ Solo /\ StoresOK /\ HomeOK /\ UndisturbedOK

(***************************************************************************)
(* Links: a chain ends once, and putting a wrapper somewhere ends there    *)
(* what passed through, and nothing else                                   *)
(***************************************************************************)

Entries == [Places -> Files \union Places]

LEMMA ChainClosed ==
    ASSUME NEW e \in Entries, NEW d \in Places
    PROVE  /\ d \in Chain(e, d) /\ Chain(e, d) \subseteq Places
           /\ \A x \in Chain(e, d) : e[x] \in Places => e[x] \in Chain(e, d)
BY DEF Chain

LEMMA ChainLeast ==
    ASSUME NEW e \in Entries, NEW d \in Places, NEW S \in SUBSET Places, d \in S,
           \A x \in S : e[x] \in Places => e[x] \in S
    PROVE  Chain(e, d) \subseteq S
BY DEF Chain

LEMMA ChainWithin ==
    ASSUME NEW e \in Entries, NEW d \in Places, NEW z \in Chain(e, d)
    PROVE  Chain(e, z) \subseteq Chain(e, d)
<1>1. Chain(e, d) \in SUBSET Places /\ z \in Places
  BY ChainClosed
<1> QED BY <1>1, ChainClosed, ChainLeast

LEMMA ChainOfFile ==
    ASSUME NEW e \in Entries, NEW d \in Places, e[d] \in Files
    PROVE  Chain(e, d) = {d}
<1>1. e[d] \notin Places
  BY InstallAssumption
<1>2. {d} \in SUBSET Places /\ \A x \in {d} : e[x] \in Places => e[x] \in {d}
  BY <1>1
<1>3. Chain(e, d) \subseteq {d}
  BY <1>2, ChainLeast
<1> QED BY <1>3, ChainClosed

\* A chain has one end.
LEMMA OneEnd ==
    ASSUME NEW e \in Entries, NEW d \in Places, NEW x \in Chain(e, d), e[x] \in Files,
           NEW y \in Chain(e, d), e[y] \in Files
    PROVE  x = y
<1> DEFINE U == {z \in Chain(e, d) : x \in Chain(e, z)}
<1>0. x \in Places /\ y \in Places /\ Chain(e, y) = {y} /\ e[x] \notin Places
  BY ChainClosed, ChainOfFile, InstallAssumption
<1>1. U \in SUBSET Places /\ d \in U
  BY ChainClosed
<1>2. ASSUME NEW z \in U, e[z] \in Places PROVE e[z] \in U
  <2>1. z \in Places /\ e[z] \in Chain(e, d) /\ z # x
    BY <1>0, <1>2, ChainClosed
  <2> DEFINE S == {z} \union Chain(e, e[z])
  <2>2. S \in SUBSET Places /\ z \in S /\ \A w \in S : e[w] \in Places => e[w] \in S
    BY <1>2, <2>1, ChainClosed
  <2>3. x \in S
    BY <1>2, <2>1, <2>2, ChainLeast
  <2> QED BY <2>1, <2>3
<1>3. Chain(e, d) \subseteq U
  BY <1>1, <1>2, ChainLeast
<1> QED BY <1>0, <1>3

LEMMA ReachesEnd ==
    ASSUME NEW e \in Entries, NEW d \in Places, NEW x \in Chain(e, d), e[x] \in Files
    PROVE  Canonical(e, d) = x /\ Reaches(e, d) = e[x]
<1>1. x \in Places /\ x # None
  BY ChainClosed, InstallAssumption
<1>2. {z \in Chain(e, d) : e[z] \in Files} = {x}
  BY OneEnd
<1>3. Canonical(e, d) = x
  BY <1>2 DEF Canonical
<1> QED BY <1>1, <1>3 DEF Reaches

LEMMA ReachesFile == ASSUME NEW e \in Entries, NEW d \in Places, e[d] \in Files PROVE Reaches(e, d) = e[d]
BY ChainClosed, ReachesEnd

LEMMA ReachesLoop ==
    ASSUME NEW e \in Entries, NEW d \in Places, \A x \in Chain(e, d) : e[x] \notin Files
    PROVE  Reaches(e, d) = "missing"
<1>1. {z \in Chain(e, d) : e[z] \in Files} = {}
  OBVIOUS
<1> QED BY <1>1 DEF Reaches, Canonical

\* Whatever passes through a place reaches what that place reaches.
LEMMA ReachesThrough ==
    ASSUME NEW e \in Entries, NEW d \in Places, NEW z \in Chain(e, d)
    PROVE  Reaches(e, d) = Reaches(e, z)
<1>0. z \in Places /\ Chain(e, z) \subseteq Chain(e, d)
  BY ChainClosed, ChainWithin
<1>1. CASE \E x \in Chain(e, z) : e[x] \in Files
  <2>1. PICK x \in Chain(e, z) : e[x] \in Files
    BY <1>1
  <2> QED BY <1>0, <2>1, ReachesEnd
<1>2. CASE \A x \in Chain(e, d) : e[x] \notin Files
  BY <1>0, <1>2, ReachesLoop
<1>3. CASE (\A x \in Chain(e, z) : e[x] \notin Files) /\ \E x \in Chain(e, d) : e[x] \in Files
  <2>1. PICK x \in Chain(e, d) : e[x] \in Files
    BY <1>3
  <2> DEFINE S == {w \in Chain(e, d) : x \in Chain(e, w)}
  <2>2. x \in Places /\ e[x] \notin Places
    BY <2>1, ChainClosed, InstallAssumption
  <2>3. S \in SUBSET Places /\ d \in S
    BY <2>1, ChainClosed
  <2>4. ASSUME NEW w \in S, e[w] \in Places PROVE e[w] \in S
    <3>1. w \in Places /\ w # x /\ e[w] \in Chain(e, d)
      BY <2>2, <2>4, ChainClosed
    <3> DEFINE T == {w} \union Chain(e, e[w])
    <3>2. T \in SUBSET Places /\ w \in T /\ \A v \in T : e[v] \in Places => e[v] \in T
      BY <2>4, <3>1, ChainClosed
    <3>3. x \in T
      BY <2>4, <3>1, <3>2, ChainLeast
    <3> QED BY <3>1, <3>3
  <2>5. z \in S
    BY <2>3, <2>4, ChainLeast
  <2> QED BY <1>3, <2>1, <2>5
<1> QED BY <1>1, <1>2, <1>3

\* What a new wrapper at t changes.
LEMMA WrapperAt ==
    ASSUME NEW e \in Entries, NEW t \in Places, NEW d \in Places
    PROVE  LET after == [e EXCEPT ![t] = "wrapper"]
           IN  /\ after \in Entries
               /\ t \in Chain(e, d) => Reaches(after, d) = "wrapper"
               /\ t \notin Chain(e, d) => Chain(after, d) = Chain(e, d) /\ Reaches(after, d) = Reaches(e, d)
<1> DEFINE after == [e EXCEPT ![t] = "wrapper"]
<1>1. after \in Entries /\ after[t] = "wrapper" /\ \A x \in Places : x # t => after[x] = e[x]
  BY DEF Entries, Files
<1> HIDE DEF after
<1>2. CASE t \in Chain(e, d)
  <2>1. t \in Chain(after, d)
    <3> SUFFICES ASSUME t \notin Chain(after, d) PROVE FALSE
      OBVIOUS
    <3>1. Chain(after, d) \in SUBSET Places /\ d \in Chain(after, d)
          /\ \A x \in Chain(after, d) : e[x] \in Places => e[x] \in Chain(after, d)
      BY <1>1, ChainClosed
    <3> QED BY <1>2, <3>1, ChainLeast
  <2> QED BY <1>1, <1>2, <2>1, ReachesEnd DEF Files, after
<1>3. CASE t \notin Chain(e, d)
  <2>1. Chain(after, d) \subseteq Chain(e, d)
    <3>1. Chain(e, d) \in SUBSET Places /\ d \in Chain(e, d)
          /\ \A x \in Chain(e, d) : after[x] \in Places => after[x] \in Chain(e, d)
      BY <1>1, <1>3, ChainClosed
    <3> QED BY <1>1, <3>1, ChainLeast
  <2>2. Chain(e, d) \subseteq Chain(after, d)
    <3>1. Chain(after, d) \in SUBSET Places /\ d \in Chain(after, d)
          /\ \A x \in Chain(after, d) : e[x] \in Places => e[x] \in Chain(after, d)
      BY <1>1, <1>3, <2>1, ChainClosed
    <3> QED BY <3>1, ChainLeast
  <2>3. Reaches(after, d) = Reaches(e, d)
    <3>1. CASE \E x \in Chain(e, d) : e[x] \in Files
      <4>1. PICK x \in Chain(e, d) : e[x] \in Files
        BY <3>1
      <4>2. after[x] = e[x] /\ x \in Chain(after, d)
        BY <1>1, <1>3, <2>2, <4>1, ChainClosed
      <4> QED BY <1>1, <4>1, <4>2, ReachesEnd
    <3>2. CASE \A x \in Chain(e, d) : e[x] \notin Files
      <4>1. \A x \in Chain(after, d) : after[x] \notin Files
        BY <1>1, <1>3, <2>1, <3>2, ChainClosed
      <4> QED BY <1>1, <3>2, <4>1, ReachesLoop
    <3> QED BY <3>1, <3>2
  <2> QED BY <1>1, <1>3, <2>1, <2>2, <2>3 DEF after
<1> QED BY <1>1, <1>2, <1>3 DEF after

(***************************************************************************)
(* The first of a list                                                     *)
(***************************************************************************)

LEMMA LeastExists ==
    ASSUME NEW S \in SUBSET Nat, S # {}
    PROVE  \E x \in S : \A y \in S : x <= y
<1>1. PICK x \in S : \A y \in S : ~(<<y, x>> \in OpToRel(<, Nat))
  <2>1. IsWellFoundedOn(OpToRel(<, Nat), Nat)
    BY NatLessThanWellFounded
  <2> QED BY <2>1, WFMin, Zenon
<1>2. \A y \in S : ~(y < x)
  BY <1>1 DEF OpToRel
<1> QED BY <1>2

LEMMA FirstInAt ==
    ASSUME NEW T, NEW s \in Seq(T), NEW G, NEW i \in 1..Len(s), s[i] \in G,
           \A j \in 1..(i - 1) : s[j] \notin G
    PROVE  FirstIn(s, G) = s[i]
<1>0. DOMAIN s = 1..Len(s) /\ Len(s) \in Nat
  OBVIOUS
<1> DEFINE k == CHOOSE k \in DOMAIN s : s[k] \in G /\ \A j \in 1..(k - 1) : s[j] \notin G
<1>1. k \in DOMAIN s /\ s[k] \in G /\ \A j \in 1..(k - 1) : s[j] \notin G
  BY <1>0
<1> HIDE DEF k
<1>2. k = i
  BY <1>0, <1>1
<1>3. Listed(s) \cap G # {}
  BY <1>0 DEF Listed
<1> QED BY <1>2, <1>3 DEF FirstIn, k

LEMMA FirstInFound ==
    ASSUME NEW T, NEW s \in Seq(T), NEW G, Listed(s) \cap G # {}
    PROVE  \E i \in 1..Len(s) : s[i] \in G /\ (\A j \in 1..(i - 1) : s[j] \notin G) /\ FirstIn(s, G) = s[i]
<1>0. DOMAIN s = 1..Len(s) /\ Len(s) \in Nat
  OBVIOUS
<1> DEFINE S == {i \in 1..Len(s) : s[i] \in G}
<1>1. S \in SUBSET Nat /\ S # {}
  BY <1>0 DEF Listed
<1>2. PICK i \in S : \A j \in S : i <= j
  <2> HIDE DEF S
  <2> QED BY <1>1, LeastExists
<1>3. \A j \in 1..(i - 1) : s[j] \notin G
  BY <1>0, <1>2
<1> QED BY <1>2, <1>3, FirstInAt

LEMMA FirstInMember ==
    ASSUME NEW T, NEW s \in Seq(T), NEW G
    PROVE  FirstIn(s, G) = None \/ (FirstIn(s, G) \in G /\ FirstIn(s, G) \in T /\ FirstIn(s, G) \in Listed(s))
<1>1. CASE Listed(s) \cap G = {}
  BY <1>1 DEF FirstIn
<1>2. CASE Listed(s) \cap G # {}
  <2>1. PICK i \in 1..Len(s) : s[i] \in G /\ FirstIn(s, G) = s[i]
    BY <1>2, FirstInFound
  <2>2. s[i] \in T /\ s[i] \in Listed(s)
    BY <2>1 DEF Listed
  <2> QED BY <2>1, <2>2
<1> QED BY <1>1, <1>2

\* Searching one list and then another is searching the two joined.
LEMMA FirstInJoined ==
    ASSUME NEW T, NEW s \in Seq(T), NEW t \in Seq(T), NEW G, None \notin G
    PROVE  FirstIn(s \o t, G) = IF FirstIn(s, G) # None THEN FirstIn(s, G) ELSE FirstIn(t, G)
<1>0. /\ s \o t \in Seq(T) /\ Len(s \o t) = Len(s) + Len(t) /\ Len(s) \in Nat /\ Len(t) \in Nat
      /\ \A i \in 1..(Len(s) + Len(t)) : (s \o t)[i] = IF i <= Len(s) THEN s[i] ELSE t[i - Len(s)]
  OBVIOUS
<1> DEFINE u == s \o t
<1> HIDE DEF u
<1>1. CASE Listed(s) \cap G # {}
  <2>1. PICK i \in 1..Len(s) : s[i] \in G /\ (\A j \in 1..(i - 1) : s[j] \notin G) /\ FirstIn(s, G) = s[i]
    BY <1>1, FirstInFound
  <2>2. i \in 1..Len(u) /\ u[i] = s[i] /\ \A j \in 1..(i - 1) : u[j] = s[j]
    BY <1>0, <2>1 DEF u
  <2>3. FirstIn(u, G) = u[i]
    BY <1>0, <2>1, <2>2, FirstInAt DEF u
  <2> QED BY <2>1, <2>2, <2>3 DEF u
<1>2. CASE Listed(s) \cap G = {} /\ Listed(t) \cap G # {}
  <2>1. PICK i \in 1..Len(t) : t[i] \in G /\ (\A j \in 1..(i - 1) : t[j] \notin G) /\ FirstIn(t, G) = t[i]
    BY <1>2, FirstInFound
  <2>2. \A j \in 1..Len(s) : s[j] \notin G
    BY <1>2 DEF Listed
  <2> DEFINE n == Len(s) + i
  <2>3. n \in 1..Len(u) /\ u[n] = t[i]
    BY <1>0, <2>1 DEF u
  <2>4. ASSUME NEW j \in 1..(n - 1) PROVE u[j] \notin G
    <3>1. CASE j <= Len(s)
      BY <1>0, <2>1, <2>2, <3>1 DEF u
    <3>2. CASE ~(j <= Len(s))
      <4>1. j - Len(s) \in 1..(i - 1) /\ u[j] = t[j - Len(s)]
        BY <1>0, <2>1, <3>2 DEF u
      <4> QED BY <2>1, <4>1
    <3> QED BY <3>1, <3>2
  <2> HIDE DEF n
  <2>5. FirstIn(u, G) = u[n]
    BY <1>0, <2>1, <2>3, <2>4, FirstInAt DEF u
  <2>6. FirstIn(s, G) = None
    BY <1>2 DEF FirstIn
  <2> QED BY <2>1, <2>3, <2>5, <2>6 DEF u
<1>3. CASE Listed(s) \cap G = {} /\ Listed(t) \cap G = {}
  <2>1. Listed(u) \cap G = {}
    <3> SUFFICES ASSUME NEW i \in 1..Len(u) PROVE u[i] \notin G
      BY <1>0 DEF Listed, u
    <3>1. CASE i <= Len(s)
      <4>1. i \in 1..Len(s) /\ u[i] = s[i]
        BY <1>0, <3>1 DEF u
      <4> QED BY <1>3, <4>1 DEF Listed
    <3>2. CASE ~(i <= Len(s))
      <4>1. i - Len(s) \in 1..Len(t) /\ u[i] = t[i - Len(s)]
        BY <1>0, <3>2 DEF u
      <4> QED BY <1>3, <4>1 DEF Listed
    <3> QED BY <3>1, <3>2
  <2> QED BY <1>3, <2>1 DEF FirstIn, u
<1>4. FirstIn(s, G) # None <=> Listed(s) \cap G # {}
  <2>1. CASE Listed(s) \cap G # {}
    BY <2>1, FirstInFound
  <2>2. CASE Listed(s) \cap G = {}
    BY <2>2 DEF FirstIn
  <2> QED BY <2>1, <2>2
<1> QED BY <1>1, <1>2, <1>3, <1>4 DEF FirstIn

LEMMA FallbackIsList == Fallback \in Seq(Dirs)
<1>1. ExistsBijection(1..Cardinality(SysDirs), SysDirs) /\ Cardinality(SysDirs) \in Nat
  BY InstallAssumption, FS_CardinalityType
<1>2. \E f \in [1..Cardinality(SysDirs) -> SysDirs] : IsInjective(f)
  BY <1>1 DEF ExistsBijection, Bijection, Injection, IsInjective
<1>3. SetToSeq(SysDirs) \in [1..Cardinality(SysDirs) -> SysDirs]
  BY <1>2 DEF SetToSeq
<1>4. SetToSeq(SysDirs) \in Seq(Dirs)
  BY <1>1, <1>3 DEF Dirs
<1>5. <<Local>> \in Seq(Dirs)
  BY InstallAssumption DEF Dirs
<1> QED BY <1>4, <1>5 DEF Fallback

(***************************************************************************)
(* What an installer checks is what the wrapper finds                      *)
(***************************************************************************)

LEMMA WrapperFindsChecked ==
    ASSUME NEW e \in Entries, NEW t \in Dirs, NEW force \in BOOLEAN,
           force \/ e[t] = "missing" \/ Managed(e, t),
           path \in Seq(Dirs), paths_gh \in Places \union {None},
           NEW g, g = SetupFinds(e, IF force THEN t ELSE None), Supported(e, g)
    PROVE  LET after == [e EXCEPT ![t] = "wrapper"] IN WrapperFinds(after) = g /\ Supported(after, g)
<1> DEFINE after == [e EXCEPT ![t] = "wrapper"]
           r == IF force THEN t ELSE None
           F == {d \in Places : Runs(e, d) /\ ~(Skipped(e, d) \/ r \in Chain(e, d))}
<1>0. t \in Places /\ None \notin Places /\ None \notin F /\ F \subseteq Places
  BY InstallAssumption DEF Places
<1>1. ASSUME NEW d \in Places, t \in Chain(e, d)
      PROVE  Reaches(after, d) = "wrapper" /\ d \notin F
  <2>1. Reaches(after, d) = "wrapper"
    BY <1>0, <1>1, WrapperAt
  <2>2. Reaches(e, d) = Reaches(e, t)
    BY <1>1, ReachesThrough
  <2>3. e[t] = "missing" => Reaches(e, t) = "missing"
    BY <1>0, ReachesFile DEF Files
  <2> QED BY <1>1, <2>1, <2>2, <2>3 DEF Managed, Runs, Skipped
<1>2. ASSUME NEW d \in Places, t \notin Chain(e, d)
      PROVE  Reaches(after, d) = Reaches(e, d) /\ (d \in F <=> Runs(e, d) /\ ~Skipped(e, d))
  <2>1. r \notin Chain(e, d)
    BY <1>0, <1>2, ChainClosed
  <2> QED BY <1>0, <1>2, <2>1, WrapperAt
<1>3. {d \in Places : Runs(after, d) /\ ~Skipped(after, d)} = F
  BY <1>1, <1>2 DEF Runs, Skipped
<1>4. g # None /\ (g \in F => Supported(after, g))
  BY <1>0, <1>1, <1>2 DEF Supported
<1>5. \A d \in Places : Runs(e, d) => Runs(after, d)
  BY <1>1, <1>2 DEF Runs
<1> HIDE DEF F, after
<1>6. CASE paths_gh # None /\ ~Runs(e, paths_gh)
  BY <1>4, <1>6 DEF SetupFinds
<1>7. CASE paths_gh # None /\ Runs(e, paths_gh) /\ paths_gh \in F
  <2>1. g = paths_gh
    BY <1>7 DEF SetupFinds, F
  <2>2. Runs(after, paths_gh) /\ ~Skipped(after, paths_gh)
    BY <1>3, <1>7
  <2>3. WrapperFinds(after) = paths_gh
    BY <1>7, <2>2 DEF WrapperFinds
  <2> QED BY <1>4, <1>7, <2>1, <2>3 DEF after
<1>8. CASE paths_gh = None \/ (Runs(e, paths_gh) /\ paths_gh \notin F)
  <2>1. g = IF FirstIn(path, F) # None THEN FirstIn(path, F) ELSE FirstIn(Fallback, F \ Listed(path))
    BY <1>8 DEF SetupFinds, F
  <2>2. WrapperFinds(after) = FirstIn(path \o Fallback, F)
    <3>1. paths_gh # None => Runs(after, paths_gh) /\ Skipped(after, paths_gh)
      BY <1>3, <1>5, <1>8
    <3> QED BY <1>3, <3>1 DEF WrapperFinds
  <2>3. FirstIn(path \o Fallback, F) = IF FirstIn(path, F) # None THEN FirstIn(path, F) ELSE FirstIn(Fallback, F)
    BY <1>0, FallbackIsList, FirstInJoined
  <2>4. FirstIn(path, F) = None => F \ Listed(path) = F
    <3>1. Listed(path) \cap F # {} => FirstIn(path, F) # None
      BY <1>0, FirstInFound
    <3> QED BY <3>1
  <2>5. g = FirstIn(path \o Fallback, F)
    BY <2>1, <2>3, <2>4
  <2>6. g \in F
    <3>1. path \o Fallback \in Seq(Dirs)
      BY FallbackIsList
    <3> QED BY <1>4, <2>5, <3>1, FirstInMember
  <2> QED BY <1>4, <2>2, <2>5, <2>6 DEF after
<1> QED BY <1>6, <1>7, <1>8

(***************************************************************************)
(* Types                                                                   *)
(***************************************************************************)

Spots == {"ready", "obtain", "load", "reread", "replace", "save", "forget",
          "write", "erase", "unlink", "publish", "look"} \union Ended \union InstallPlaces

LEMMA Types ==
    ASSUME TypeOK
    PROVE  /\ onMac \in BOOLEAN /\ keychain \in [Hosts -> Token]
           /\ auth.of \in [Hosts -> Token] /\ auth.state \in {"missing", "unreadable", "malformed", "whole"}
           /\ auth \in AuthFile /\ config \in ConfigFile
           /\ config.corrupt \in BOOLEAN /\ config.listed \subseteq Hosts /\ config.tables \subseteq Hosts
           /\ pc \in [Procs -> Spots] /\ read \in [Procs -> AuthFile] /\ loaded \in [Procs -> ConfigFile]
           /\ cmd \in [Procs -> [op: Ops \union InstallOps, host: Hosts]]
           /\ \A p \in Procs : cmd[p].host \in Hosts
           /\ before \in [Procs -> [tokens: Book, held: Book, allowed: SUBSET Hosts]]
BY InstallAssumption DEF TypeOK, Book, AuthFile, ConfigFile, Commands, Spots

LEMMA HomeTypes ==
    ASSUME InstallTypeOK, ViewTypes
    PROVE  /\ TypeOK /\ entry \in Entries /\ path \in Seq(Dirs) /\ Listed(path) \subseteq Dirs
           /\ paths_gh \in Places \union {None} /\ args \in [Procs -> Options] /\ box \in Box
           /\ view \in [Procs -> Views] /\ checkout \in Checkouts
           /\ users \in 0..MaxUser /\ raced \subseteq Procs /\ defaults \subseteq HomeDirs
           /\ agent \in BOOLEAN /\ launchd \in BOOLEAN
           /\ Local \in HomeDirs /\ HomeDirs \subseteq Dirs /\ Dirs \subseteq Places
BY InstallAssumption DEF InstallTypeOK, ViewTypes, Entries, Dirs, Places

LEMMA FileTypes ==
    ASSUME TypeOK
    PROVE  /\ NoTokens \in Book /\ NoAuthFile \in AuthFile
           /\ StoredToken \in Book /\ Allowed \subseteq Hosts
<1>1. NoTokens \in Book /\ NoAuthFile \in AuthFile
  BY DEF NoTokens, NoAuthFile, Book, Token, AuthFile
<1>2. ASSUME NEW h \in Hosts PROVE Stored(keychain, auth, h) \in Token
  BY Types DEF Stored, FileToken, Token
<1>3. StoredToken \in Book
  BY <1>2 DEF StoredToken, Book
<1>4. Allowed \subseteq Hosts
  BY Types DEF Allowed, AllowedBy
<1> QED BY <1>1, <1>3, <1>4

(***************************************************************************)
(* What a step changes                                                     *)
(***************************************************************************)

\* A step of one command.
Act(p) == (Step(p) /\ UNCHANGED installs) \/ InstallStep(p)

\* What a step of the stores may make of each of them.
LEMMA Moves ==
    ASSUME NEW p \in Procs, Step(p)
    PROVE  /\ onMac' = onMac /\ cmd' = cmd
           /\ config' = config \/ (Replace(p) /\ config' = loaded[p])
           /\ auth' = auth \/ (Unlink(p) /\ auth' = NoAuthFile) \/ (Publish(p) /\ auth' = read[p])
           /\ \/ keychain' = keychain
              \/ Save(p) /\ keychain' = [keychain EXCEPT ![cmd[p].host] = p]
              \/ Forget(p) /\ keychain' = [keychain EXCEPT ![cmd[p].host] = None]
<1>1. CASE Start(p) \/ Obtain(p) \/ Load(p) \/ Crash(p)
  BY <1>1 DEF Start, Begin, Obtain, Load, Crash, stores
<1>2. CASE Reread(p) \/ Write(p)
  BY <1>2 DEF Reread, Write, Fails, stores
<1>3. CASE Erase(p)
  BY <1>3 DEF Erase, Fails, stores
<1>4. CASE Replace(p)
  BY <1>4 DEF Replace, Fails, stores
<1>5. CASE Save(p)
  BY <1>5 DEF Save, stores
<1>6. CASE Forget(p)
  BY <1>6 DEF Forget
<1>7. CASE Unlink(p)
  BY <1>7 DEF Unlink, Fails, stores
<1>8. CASE Publish(p)
  BY <1>8 DEF Publish
<1> QED BY <1>1, <1>2, <1>3, <1>4, <1>5, <1>6, <1>7, <1>8 DEF Step

\* A step of the installers' own leaves the stores and the user's settings alone,
\* and is at a place of theirs.
LEMMA InstallMoves ==
    ASSUME TypeOK, NEW p \in Procs, InstallStep(p)
    PROVE  /\ UNCHANGED <<onMac, keychain, auth, config, litter, read, loaded, crashes, refused>>
           /\ UNCHANGED <<path, paths_gh, checkout, args, users, raced>>
           /\ faults' = faults \/ Fault
           /\ (Begin(p) /\ pc[p] = "ready" /\ UNCHANGED <<cmd, installs>>) \/ UNCHANGED <<overlapped, before>>
           /\ cmd' = cmd \/ (Inspect(p) /\ \E h : cmd' = [cmd EXCEPT ![p].host = h])
           /\ view' = view \/ \E v : view' = [view EXCEPT ![p] = v]
           /\ \E where : pc' = [pc EXCEPT ![p] = where]
           /\ pc[p] \in {"ready", "look"} \union InstallPlaces
<1> USE DEF Same, World, stores, locals, history, NoFault, InstallPlaces
<1>0. \A w : Goto(p, w) => \E where : pc' = [pc EXCEPT ![p] = where]
  BY DEF Goto
<1>1. CASE BeginInstall(p)
  BY <1>0, <1>1 DEF BeginInstall, Begin, installs
<1>2. CASE Inspect(p)
  <2>1. cmd' = cmd \/ \E h : cmd' = [cmd EXCEPT ![p].host = h]
    BY <1>2, Zenon DEF Inspect
  <2> QED BY <1>0, <1>2, <2>1 DEF Inspect
<1>3. CASE LookAtTarget(p)
  <2>1. \E where : pc' = [pc EXCEPT ![p] = where]
    BY <1>0, <1>3 DEF LookAtTarget, Refuse
  <2>2. view' = view \/ \E v : view' = [view EXCEPT ![p] = v]
    BY <1>3 DEF LookAtTarget, Refuse
  <2> QED BY <1>3, <2>1, <2>2 DEF LookAtTarget
<1>4. CASE Place(p)
  <2>1. \E where : pc' = [pc EXCEPT ![p] = where]
    BY <1>0, <1>4 DEF Place, Refuse
  <2>2. view' = view \/ \E v : view' = [view EXCEPT ![p] = v]
    BY <1>4 DEF Place, Refuse
  <2> QED BY <1>4, <2>1, <2>2 DEF Place
<1>5. CASE CheckPath(p) \/ WriteAgent(p) \/ ApplyAgent(p) \/ Finish(p)
  BY <1>0, <1>5 DEF CheckPath, WriteAgent, ApplyAgent, Finish
<1>6. CASE Gather(p)
  BY <1>0, <1>6 DEF Gather, Rest
<1>7. CASE Sift(p)
  <2>1. \E where : pc' = [pc EXCEPT ![p] = where]
    <3>1. CASE UNCHANGED pc
      <4>1. pc' = [pc EXCEPT ![p] = pc[p]]
        BY <3>1, Types
      <4> QED BY <4>1
    <3> QED BY <1>0, <1>7, <3>1 DEF Sift
  <2> QED BY <1>7, <2>1 DEF Sift, Rest
<1>8. CASE UnlinkShim(p)
  <2>1. \E where : pc' = [pc EXCEPT ![p] = where]
    BY <1>0, <1>8 DEF UnlinkShim
  <2>2. view' = view \/ \E v : view' = [view EXCEPT ![p] = v]
    BY <1>8 DEF UnlinkShim
  <2> QED BY <1>8, <2>1, <2>2 DEF UnlinkShim, Rest
<1>9. CASE OpenBox(p)
  BY <1>0, <1>9 DEF OpenBox, BoxOnly
<1>10. CASE PutGit(p) \/ PutMarker(p)
  BY <1>0, <1>10 DEF PutGit, PutMarker, BoxOnly
<1>11. CASE DropGit(p) \/ DropMarker(p) \/ DropDir(p)
  BY <1>0, <1>11 DEF DropGit, DropMarker, DropDir, BoxOnly
<1> QED BY <1>1, <1>2, <1>3, <1>4, <1>5, <1>6, <1>7, <1>8, <1>9, <1>10, <1>11 DEF InstallStep

LEMMA StepFrame ==
    ASSUME TypeOK, NEW p \in Procs, Step(p), NEW q \in Procs, q # p
    PROVE  pc'[q] = pc[q] /\ read'[q] = read[q] /\ loaded'[q] = loaded[q] /\ before'[q] = before[q]
<1> USE Types DEF Goto, locals, history, Fails
<1>1. CASE Start(p)
  BY <1>1 DEF Start, Begin
<1>2. CASE Obtain(p) \/ Load(p) \/ Crash(p)
  BY <1>2 DEF Obtain, Load, Crash
<1>3. CASE Reread(p)
  BY <1>3 DEF Reread
<1>4. CASE Replace(p)
  BY <1>4 DEF Replace
<1>5. CASE Save(p) \/ Forget(p)
  BY <1>5 DEF Save, Forget
<1>6. CASE Write(p)
  BY <1>6 DEF Write
<1>7. CASE Erase(p)
  BY <1>7 DEF Erase
<1>8. CASE Unlink(p) \/ Publish(p)
  BY <1>8 DEF Unlink, Publish
<1> QED BY <1>1, <1>2, <1>3, <1>4, <1>5, <1>6, <1>7, <1>8 DEF Step

\* The other commands stay where they are, with what they know.
LEMMA Frame ==
    ASSUME InstallTypeOK, ViewTypes, NEW p \in Procs, Act(p), NEW q \in Procs, q # p
    PROVE  /\ pc'[q] = pc[q] /\ read'[q] = read[q] /\ loaded'[q] = loaded[q] /\ before'[q] = before[q]
           /\ cmd'[q] = cmd[q] /\ view'[q] = view[q]
<1> USE HomeTypes, Types
<1>1. CASE Step(p) /\ UNCHANGED installs
  BY <1>1, StepFrame, Moves DEF installs
<1>2. CASE InstallStep(p)
  <2>1. pc'[q] = pc[q] /\ read'[q] = read[q] /\ loaded'[q] = loaded[q] /\ view'[q] = view[q]
    BY <1>2, InstallMoves
  <2>2. cmd'[q] = cmd[q]
    BY <1>2, InstallMoves
  <2>3. before'[q] = before[q]
    BY <1>2, InstallMoves DEF Begin
  <2> QED BY <2>1, <2>2, <2>3
<1> QED BY <1>1, <1>2 DEF Act

\* What no command changes.
LEMMA Fixed ==
    ASSUME TypeOK, NEW p \in Procs, Act(p)
    PROVE  /\ onMac' = onMac /\ UNCHANGED <<path, paths_gh, checkout, args, users, raced>>
           /\ overlapped \subseteq overlapped'
<1>1. CASE Step(p) /\ UNCHANGED installs
  <2>1. overlapped \subseteq overlapped'
    BY <1>1 DEF Step, Start, Begin, Obtain, Load, Reread, Replace, Save, Forget, Write, Erase, Unlink, Publish,
         Crash, Fails, history
  <2> QED BY <1>1, <2>1, Moves DEF installs
<1>2. CASE InstallStep(p)
  BY <1>2, InstallMoves DEF Begin
<1> QED BY <1>1, <1>2 DEF Act

\* A command that moves while another runs overlaps it.
LEMMA Overlaps ==
    ASSUME TypeOK, Solo, NEW p \in Procs, Act(p), NEW q \in Running, q # p
    PROVE  q \in overlapped' /\ p \in overlapped'
<1>1. CASE p \in Running
  BY <1>1, Fixed DEF Solo
<1>2. CASE p \notin Running
  <2>1. Begin(p)
    <3>1. CASE Step(p)
      BY <1>2, <3>1 DEF Running, Ended, Step, Start, Obtain, Load, Reread, Replace, Save, Forget, Write, Erase, Unlink, Publish, Crash
    <3>2. CASE InstallStep(p)
      BY <1>2, <3>2, InstallMoves DEF Running, Ended, InstallPlaces, Inspect, BeginInstall, InstallStep,
         LookAtTarget, Place, CheckPath, WriteAgent, ApplyAgent, Finish, Gather, Sift, UnlinkShim, OpenBox, PutGit, PutMarker,
         DropGit, DropMarker, DropDir
    <3> QED BY <3>1, <3>2 DEF Act
  <2> QED BY <2>1 DEF Begin
<1> QED BY <1>1, <1>2

(***************************************************************************)
(* Types: one step after another                                           *)
(***************************************************************************)

StoreTypes == onMac \in BOOLEAN /\ keychain \in Book /\ auth \in AuthFile /\ config \in ConfigFile
CommandTypes ==
    /\ litter \subseteq Procs /\ cmd \in [Procs -> Commands] /\ pc \in [Procs -> Spots]
    /\ read \in [Procs -> AuthFile] /\ loaded \in [Procs -> ConfigFile]
BoundTypes == faults \in 0..MaxFaults /\ crashes \in 0..MaxCrashes
HistoryTypes ==
    /\ overlapped \subseteq Procs /\ refused \subseteq Procs
    /\ before \in [Procs -> [tokens: Book, held: Book, allowed: SUBSET Hosts]]

LEMMA InParts == TypeOK <=> StoreTypes /\ CommandTypes /\ BoundTypes /\ HistoryTypes
BY InstallAssumption DEF TypeOK, StoreTypes, CommandTypes, BoundTypes, HistoryTypes, Spots

LEMMA StoreStep == ASSUME TypeOK, NEW p \in Procs, Step(p) PROVE StoreTypes'
<1>1. onMac' \in BOOLEAN
  BY Moves, Types
<1>2. config' \in ConfigFile
  BY Moves, Types
<1>3. auth' \in AuthFile
  BY Moves, Types, FileTypes
<1>4. keychain' \in Book
  BY Moves, Types DEF Book, Token
<1> QED BY <1>1, <1>2, <1>3, <1>4 DEF StoreTypes

LEMMA BoundStep == ASSUME TypeOK, NEW p \in Procs, Step(p) PROVE BoundTypes'
<1>0. faults \in 0..MaxFaults /\ crashes \in 0..MaxCrashes /\ MaxFaults \in Nat /\ MaxCrashes \in Nat
  BY StoresAssumption DEF TypeOK
<1>1. faults' = faults \/ Fault
  BY DEF Step, Start, Begin, Obtain, Load, Reread, Replace, Save, Forget, Write, Erase, Unlink, Publish,
         Crash, Fails, NoFault, Fault
<1>2. crashes' = crashes \/ (crashes < MaxCrashes /\ crashes' = crashes + 1)
  BY DEF Step, Start, Begin, Obtain, Load, Reread, Replace, Save, Forget, Write, Erase, Unlink, Publish,
         Crash, Fails
<1> QED BY <1>0, <1>1, <1>2 DEF BoundTypes, Fault

\* What a command found when it began has its type.
LEMMA BeginTypes ==
    ASSUME TypeOK, NEW p \in Procs, Begin(p)
    PROVE  /\ overlapped' \subseteq Procs
           /\ before' \in [Procs -> [tokens: Book, held: Book, allowed: SUBSET Hosts]]
           /\ before'[p] = [tokens |-> StoredToken, held |-> auth.of, allowed |-> Allowed]
<1>1. Running \subseteq Procs /\ overlapped \subseteq Procs
  BY DEF Running, TypeOK
<1>2. auth.of \in Book
  BY Types DEF Book
<1> QED BY <1>1, <1>2, Types, FileTypes DEF Begin

LEMMA HistoryStep == ASSUME TypeOK, NEW p \in Procs, Step(p) PROVE HistoryTypes'
<1>0. HistoryTypes
  BY InParts
<1>1. CASE Start(p)
  BY <1>0, <1>1, BeginTypes DEF HistoryTypes, Start, Begin
<1>2. CASE Save(p) \/ Forget(p)
  BY <1>0, <1>2 DEF HistoryTypes, Save, Forget
<1>3. CASE ~Start(p) /\ ~Save(p) /\ ~Forget(p)
  BY <1>0, <1>3 DEF HistoryTypes, Step, Obtain, Load, Reread, Replace, Write, Erase, Unlink, Publish,
         Crash, Fails, history
<1> QED BY <1>1, <1>2, <1>3

LEMMA CommandStep == ASSUME TypeOK, NEW p \in Procs, Step(p) PROVE CommandTypes'
<1>0. CommandTypes
  BY InParts
<1>1. cmd' = cmd
  BY Moves
<1>2. litter' \subseteq Procs
  BY <1>0 DEF CommandTypes, Step, Start, Begin, Obtain, Load, Reread, Replace, Save, Forget, Write, Erase,
         Unlink, Publish, Crash, Fails, stores
<1>3. pc' \in [Procs -> Spots]
  BY <1>0 DEF CommandTypes, Step, Start, Begin, Obtain, Load, Reread, Replace, Save, Forget, Write, Erase,
         Unlink, Publish, Crash, Fails, Goto, AfterAddHost, Spots, Ended
<1>4. read' \in [Procs -> AuthFile]
  <2>1. CASE Write(p)
    <3>1. CASE auth.state \in {"missing", "whole"}
      <4>1. [auth.of EXCEPT ![cmd[p].host] = p] \in Book
        BY Types DEF Book, Token
      <4> QED BY <1>0, <2>1, <3>1, <4>1 DEF Write, Fails, CommandTypes, AuthFile, locals
    <3> QED BY <1>0, <2>1, <3>1 DEF Write, Fails, CommandTypes, locals
  <2>2. CASE Erase(p)
    <3>1. [auth.of EXCEPT ![cmd[p].host] = None] \in Book
      BY Types DEF Book, Token
    <3> QED BY <1>0, <2>2, <3>1 DEF Erase, Fails, CommandTypes, AuthFile, locals
  <2>3. CASE ~Write(p) /\ ~Erase(p)
    BY <1>0, <2>3 DEF CommandTypes, Step, Start, Begin, Obtain, Load, Reread, Replace, Save, Forget,
         Unlink, Publish, Crash, Fails, locals
  <2> QED BY <2>1, <2>2, <2>3
<1>5. loaded' \in [Procs -> ConfigFile]
  <2>1. CASE Load(p)
    <3>1. [corrupt |-> FALSE, tables |-> config.tables,
           listed |-> IF cmd[p].op = "remove" THEN Allowed \ {cmd[p].host}
                      ELSE Allowed \union {cmd[p].host}] \in ConfigFile
      BY Types, FileTypes DEF ConfigFile
    <3> QED BY <1>0, <2>1, <3>1 DEF Load, CommandTypes
  <2>2. CASE Reread(p)
    <3>1. [corrupt |-> FALSE, listed |-> loaded[p].listed,
           tables |-> IF cmd[p].op = "remove" THEN config.tables \ {cmd[p].host} ELSE config.tables] \in ConfigFile
      BY Types DEF ConfigFile
    <3> QED BY <1>0, <2>2, <3>1 DEF Reread, Fails, CommandTypes, locals
  <2>3. CASE ~Load(p) /\ ~Reread(p)
    BY <1>0, <2>3 DEF CommandTypes, Step, Start, Begin, Obtain, Replace, Save, Forget, Write, Erase,
         Unlink, Publish, Crash, Fails, locals
  <2> QED BY <2>1, <2>2, <2>3
<1> QED BY <1>0, <1>1, <1>2, <1>3, <1>4, <1>5 DEF CommandTypes

LEMMA Pair == ASSUME NEW T, NEW x \in T, NEW y \in T PROVE <<x, y>> \in Seq(T)
OBVIOUS

\* bootstrap allows no host the user's gh has for GitHub's.
LEMMA PlanTypes ==
    ASSUME InstallTypeOK, ViewTypes
    PROVE  /\ Plan(Allowed).plan \in Plans
           /\ Plan(Allowed).plan = "allowlist" => Plan(Allowed).host \in Hosts \ checkout.yml
<1> USE HomeTypes
<1> DEFINE candidate == FirstIn(<<checkout.now, checkout.first>>, Hosts \ checkout.yml)
<1>1. checkout.now \in AnyHost /\ checkout.first \in AnyHost /\ Allowed \subseteq Hosts
  BY FileTypes DEF Checkouts
<1>2. candidate = None \/ candidate \in Hosts \ checkout.yml
  <2>1. <<checkout.now, checkout.first>> \in Seq(AnyHost)
    BY <1>1, Pair
  <2>2. ASSUME NEW s \in Seq(AnyHost), NEW G PROVE FirstIn(s, G) = None \/ FirstIn(s, G) \in G
    BY <2>2, FirstInMember
  <2> QED BY <2>1, <2>2
<1>3. GitHub \notin Hosts
  BY InstallAssumption
<1> HIDE DEF candidate
<1>4. CASE checkout.now # None /\ checkout.now \in Allowed
  BY <1>1, <1>4 DEF Plan, Plans
<1>5. CASE ~(checkout.now # None /\ checkout.now \in Allowed)
  <2>1. candidate = None => Plan(Allowed).plan \in {"none", "leave", "not_resolved"}
    BY <1>5 DEF Plan, candidate
  <2>2. candidate # None => \/ Plan(Allowed).plan \in {"none", "unusable", "leave", "not_resolved", "conflict"}
                            \/ Plan(Allowed).plan = "allowlist" /\ Plan(Allowed).host = candidate
    BY <1>5 DEF Plan, candidate
  <2> QED BY <1>2, <2>1, <2>2 DEF Plans
<1> QED BY <1>4, <1>5

\* What an installer's look yields.
LEMMA LookTypes ==
    ASSUME InstallTypeOK, ViewTypes, NEW a \in Options, NEW r
    PROVE  /\ SetupFinds(entry, r) \in Places \union {None}
           /\ Target(entry, a) \in Dirs
           /\ a.dir = None => Target(entry, a) \in DefaultDirs
<1> USE HomeTypes
<1>1. SetupFinds(entry, r) \in Places \union {None}
  <2> DEFINE found == {d \in Places : Runs(entry, d) /\ ~(Skipped(entry, d) \/ r \in Chain(entry, d))}
  <2>1. FirstIn(path, found) \in Places \union {None}
    BY FirstInMember
  <2>2. FirstIn(Fallback, found \ Listed(path)) \in Places \union {None}
    BY FallbackIsList, FirstInMember
  <2> HIDE DEF found
  <2> QED BY <2>1, <2>2 DEF SetupFinds, found
<1>2. Target(entry, a) \in Dirs /\ (a.dir = None => Target(entry, a) \in DefaultDirs)
  <2>1. CASE a.dir # None
    BY <2>1 DEF Target, Options
  <2>2. CASE a.dir = None /\ (a.user_local \/ Listed(path) \cap SafeTargets(entry) = {})
    BY <2>2 DEF Target, DefaultDirs
  <2>3. CASE a.dir = None /\ ~a.user_local /\ Listed(path) \cap SafeTargets(entry) # {}
    <3>1. Target(entry, a) = FirstIn(path, SafeTargets(entry))
      BY <2>3 DEF Target
    <3>2. PICK i \in 1..Len(path) : path[i] \in SafeTargets(entry) /\ FirstIn(path, SafeTargets(entry)) = path[i]
      BY <2>3, FirstInFound
    <3>3. path[i] \in Listed(path) /\ path[i] \in HomeDirs
      BY <3>2 DEF Listed, SafeTargets
    <3> QED BY <3>1, <3>2, <3>3 DEF DefaultDirs
  <2> QED BY <2>1, <2>2, <2>3
<1> QED BY <1>1, <1>2

LEMMA InstallCommandStep ==
    ASSUME InstallTypeOK, ViewTypes, NEW p \in Procs, InstallStep(p)
    PROVE  cmd' \in [Procs -> Commands] /\ pc' \in [Procs -> Spots] /\ faults' \in 0..MaxFaults
<1> USE HomeTypes, Types
<1>1. cmd' \in [Procs -> Commands]
  <2>1. CASE cmd' = cmd
    BY <2>1 DEF TypeOK
  <2>2. CASE cmd' # cmd
    <3>1. Plan(Allowed).plan = "allowlist" /\ cmd' = [cmd EXCEPT ![p].host = Plan(Allowed).host]
      BY <2>2, InstallMoves, Zenon DEF Inspect
    <3>2. PICK h \in Hosts : cmd' = [cmd EXCEPT ![p].host = h]
      BY <3>1, PlanTypes
    <3>3. cmd \in [Procs -> Commands]
      BY DEF TypeOK
    <3> QED BY <3>2, <3>3 DEF Commands
  <2> QED BY <2>1, <2>2
<1>2. pc' \in [Procs -> Spots]
  <2> SUFFICES pc'[p] \in Spots
    BY InstallMoves
  <2> USE DEF Goto, Spots, InstallPlaces, Ended
  <2>1. CASE BeginInstall(p) \/ Inspect(p)
    BY <2>1 DEF BeginInstall, Inspect
  <2>2. CASE LookAtTarget(p) \/ Place(p)
    BY <2>2 DEF LookAtTarget, Place, Refuse
  <2>3. CASE CheckPath(p) \/ WriteAgent(p) \/ ApplyAgent(p) \/ Finish(p)
    BY <2>3 DEF CheckPath, WriteAgent, ApplyAgent, Finish
  <2>4. CASE Gather(p) \/ Sift(p) \/ UnlinkShim(p)
    BY <2>4 DEF Gather, Sift, UnlinkShim
  <2>5. CASE OpenBox(p) \/ PutGit(p) \/ PutMarker(p)
    BY <2>5 DEF OpenBox, PutGit, PutMarker
  <2>6. CASE DropGit(p) \/ DropMarker(p) \/ DropDir(p)
    BY <2>6 DEF DropGit, DropMarker, DropDir
  <2> QED BY <2>1, <2>2, <2>3, <2>4, <2>5, <2>6 DEF InstallStep
<1>3. faults' \in 0..MaxFaults
  BY InstallMoves, StoresAssumption DEF TypeOK, Fault
<1> QED BY <1>1, <1>2, <1>3

LEMMA TypeStep == ASSUME InstallTypeOK, ViewTypes, NEW p \in Procs, Act(p) PROVE TypeOK'
<1> USE HomeTypes
<1>1. CASE Step(p)
  <2>1. StoreTypes' /\ CommandTypes' /\ BoundTypes' /\ HistoryTypes'
    BY <1>1, StoreStep, CommandStep, BoundStep, HistoryStep
  <2> QED BY <2>1, InstallAssumption DEF TypeOK, StoreTypes, CommandTypes, BoundTypes, HistoryTypes, Spots
<1>2. CASE InstallStep(p)
  <2>0. StoreTypes /\ CommandTypes /\ BoundTypes /\ HistoryTypes
    BY InParts
  <2>1. StoreTypes' /\ CommandTypes' /\ BoundTypes'
    BY <1>2, <2>0, InstallMoves, InstallCommandStep DEF StoreTypes, CommandTypes, BoundTypes
  <2>2. HistoryTypes'
    BY <1>2, <2>0, InstallMoves, BeginTypes DEF HistoryTypes
  <2> QED BY <2>1, <2>2, InstallAssumption DEF TypeOK, StoreTypes, CommandTypes, BoundTypes, HistoryTypes, Spots
<1> QED BY <1>1, <1>2 DEF Act

LEMMA ViewStep == ASSUME InstallTypeOK, ViewTypes, NEW p \in Procs, InstallStep(p) PROVE view' \in [Procs -> Views]
<1> USE HomeTypes
<1>0. view[p] \in Views
  OBVIOUS
<1>1. CASE Inspect(p)
  <2> DEFINE a == args[p]
             target == IF cmd[p].op = "install" /\ a.dir = None THEN Local ELSE Target(entry, a)
             gh == SetupFinds(entry, IF a.force THEN target ELSE None)
             plan == IF cmd[p].op = "install" THEN [plan |-> "none", host |-> None] ELSE Plan(Allowed)
  <2>1. target \in Dirs /\ gh \in Places \union {None} /\ plan.plan \in Plans /\ Allowed \subseteq Hosts
    BY LookTypes, PlanTypes, FileTypes DEF Plans
  <2>2. NoView \in Views
    BY DEF NoView, Views, Plans
  <2> HIDE DEF target, gh, plan
  <2>3. view' = view \/ \E bad \in SUBSET {"real gh", "repository"} :
          view' = [view EXCEPT ![p] = [NoView EXCEPT !.target = target, !.gh = gh,
                                                    !.plan = plan.plan, !.hosts = Allowed, !.fixes = bad]]
    BY <1>1 DEF Inspect, target, gh, plan
  <2>4. ASSUME NEW bad \in SUBSET {"real gh", "repository"}
        PROVE  [NoView EXCEPT !.target = target, !.gh = gh, !.plan = plan.plan, !.hosts = Allowed, !.fixes = bad] \in Views
    BY <2>1, <2>2, <2>4 DEF Views, Fixes
  <2> QED BY <2>3, <2>4
<1>2. CASE LookAtTarget(p) \/ Place(p) \/ CheckPath(p) \/ Finish(p)
  <2>1. view' = view \/ \E more \in SUBSET {"shim", "current PATH", "auth"} :
                          view' = [view EXCEPT ![p].fixes = @ \union more]
    BY <1>2 DEF LookAtTarget, Place, Refuse, CheckPath, Finish
  <2>2. ASSUME NEW more \in SUBSET {"shim", "current PATH", "auth"}
        PROVE  [view EXCEPT ![p].fixes = @ \union more] \in [Procs -> Views]
    <3>1. view[p].fixes \union more \in SUBSET Fixes
      BY <1>0, <2>2 DEF Views, Fixes
    <3> QED BY <1>0, <3>1 DEF Views
  <2> QED BY <2>1, <2>2
<1>3. CASE Gather(p)
  <2>1. PICK s \in Seq(Dirs) : view' = [view EXCEPT ![p].left = s]
    <3>1. <<Local>> \o path \in Seq(Dirs)
      BY InstallAssumption DEF Dirs
    <3>2. args[p].dir # None => <<args[p].dir>> \in Seq(Dirs)
      BY DEF Options
    <3> QED BY <1>3, <3>1, <3>2 DEF Gather
  <2> QED BY <1>0, <2>1 DEF Views
<1>4. CASE Sift(p)
  <2>1. view' = view \/ (view[p].left # <<>> /\ view' = [view EXCEPT ![p].left = Tail(view[p].left)])
    BY <1>4 DEF Sift
  <2>2. view[p].left \in Seq(Dirs) /\ (view[p].left # <<>> => Tail(view[p].left) \in Seq(Dirs))
    BY <1>0 DEF Views
  <2> QED BY <1>0, <2>1, <2>2 DEF Views
<1>5. CASE UnlinkShim(p)
  <2>1. view' = view \/ \E s \in Seq(Dirs) : view' = [view EXCEPT ![p].left = s, ![p].done = TRUE]
    <3>1. view[p].left \in Seq(Dirs) /\ (view[p].left # <<>> => Tail(view[p].left) \in Seq(Dirs))
      BY <1>0 DEF Views
    <3> QED BY <1>5, <3>1 DEF UnlinkShim
  <2>2. ASSUME NEW s \in Seq(Dirs) PROVE [view EXCEPT ![p].left = s, ![p].done = TRUE] \in [Procs -> Views]
    BY <1>0 DEF Views
  <2> QED BY <2>1, <2>2
<1>6. CASE OpenBox(p)
  <2>1. PICK b \in BOOLEAN : view' = [view EXCEPT ![p].done = b]
    <3>1. (~box.dir) \in BOOLEAN /\ (box.marker = "made") \in BOOLEAN
      OBVIOUS
    <3> QED BY <1>6, <3>1 DEF OpenBox
  <2> QED BY <1>0, <2>1 DEF Views
<1>7. CASE ~Inspect(p) /\ ~LookAtTarget(p) /\ ~Place(p) /\ ~CheckPath(p) /\ ~Finish(p) /\ ~Gather(p) /\ ~Sift(p)
           /\ ~UnlinkShim(p) /\ ~OpenBox(p)
  BY <1>7 DEF InstallStep, BeginInstall, WriteAgent, ApplyAgent, PutGit, PutMarker, DropGit, DropMarker, DropDir, installs
<1> QED BY <1>1, <1>2, <1>3, <1>4, <1>5, <1>6, <1>7

\* What an installer that has looked goes on with.
LEMMA InspectView ==
    ASSUME InstallTypeOK, ViewTypes, NEW p \in Procs, Inspect(p)
    PROVE  LET a == args[p]
               target == IF cmd[p].op = "install" /\ a.dir = None THEN Local ELSE Target(entry, a)
               gh == SetupFinds(entry, IF a.force THEN target ELSE None)
               plan == IF cmd[p].op = "install" THEN [plan |-> "none", host |-> None] ELSE Plan(Allowed)
           IN  \/ pc'[p] = "error" /\ UNCHANGED <<view, cmd>>
               \/ /\ view'[p].target = target /\ view'[p].gh = gh /\ view'[p].plan = plan.plan
                  /\ a.dry_run \/ Supported(entry, gh)
                  /\ pc'[p] = IF plan.plan = "allowlist" /\ ~a.dry_run THEN "load" ELSE "look"
                  /\ IF plan.plan = "allowlist" THEN cmd' = [cmd EXCEPT ![p].host = plan.host] ELSE cmd' = cmd
<1> USE HomeTypes, Types
<1> DEFINE a == args[p]
           target == IF cmd[p].op = "install" /\ a.dir = None THEN Local ELSE Target(entry, a)
           gh == SetupFinds(entry, IF a.force THEN target ELSE None)
           plan == IF cmd[p].op = "install" THEN [plan |-> "none", host |-> None] ELSE Plan(Allowed)
           looked(bad) == [NoView EXCEPT !.target = target, !.gh = gh, !.plan = plan.plan, !.hosts = Allowed, !.fixes = bad]
<1> HIDE DEF target, gh, plan
<1>1. CASE config.corrupt \/ (~Supported(entry, gh) /\ ~a.dry_run)
  BY <1>1 DEF Inspect, target, gh, plan, Goto
<1>2. CASE ~(config.corrupt \/ (~Supported(entry, gh) /\ ~a.dry_run))
  <2>1. PICK bad : view' = [view EXCEPT ![p] = looked(bad)]
    BY <1>2 DEF Inspect, target, gh, plan
  <2>2. view'[p].target = target /\ view'[p].gh = gh /\ view'[p].plan = plan.plan
    BY <2>1 DEF NoView
  <2>3. /\ pc'[p] = IF plan.plan = "allowlist" /\ ~a.dry_run THEN "load" ELSE "look"
        /\ IF plan.plan = "allowlist" THEN cmd' = [cmd EXCEPT ![p].host = plan.host] ELSE cmd' = cmd
    BY <1>2 DEF Inspect, target, gh, plan, Goto
  <2> QED BY <1>2, <2>2, <2>3 DEF target, gh, plan
<1> QED BY <1>1, <1>2

LEMMA HomeTypeStep ==
    ASSUME InstallTypeOK, ViewTypes, HomeOK, NEW p \in Procs, Act(p)
    PROVE  InstallTypeOK' /\ ViewTypes'
<1> USE HomeTypes
<1>1. TypeOK' /\ UNCHANGED <<path, paths_gh, checkout, args, users, raced>>
  BY TypeStep, Fixed
<1>2. CASE Step(p) /\ UNCHANGED installs
  BY <1>1, <1>2 DEF InstallTypeOK, ViewTypes, installs, Listed
<1>3. CASE InstallStep(p)
  <2>1. view' \in [Procs -> Views]
    BY <1>3, ViewStep
  <2>2. entry' = entry \/ \E d \in Dirs, f \in Files : entry' = [entry EXCEPT ![d] = f]
    <3>1. CASE Place(p)
      BY <3>1 DEF Place, Files
    <3>2. CASE UnlinkShim(p)
      BY <3>2 DEF UnlinkShim, Files
    <3>3. CASE ~Place(p) /\ ~UnlinkShim(p)
      BY <1>3, <3>3 DEF InstallStep, BeginInstall, Inspect, LookAtTarget, CheckPath, WriteAgent, ApplyAgent, Finish,
           Gather, Sift, OpenBox, PutGit, PutMarker, DropGit, DropMarker, DropDir, installs, Rest, BoxOnly
    <3> QED BY <3>1, <3>2, <3>3
  <2>3. entry' \in Entries
    BY <2>2 DEF Entries
  <2>4. agent' \in BOOLEAN /\ launchd' \in BOOLEAN
    BY <1>3 DEF InstallStep, BeginInstall, Inspect, LookAtTarget, Place, CheckPath, WriteAgent, ApplyAgent, Finish,
           Gather, Sift, UnlinkShim, OpenBox, PutGit, PutMarker, DropGit, DropMarker, DropDir, installs, Rest, BoxOnly
  <2>5. box' \in Box
    <3>1. CASE OpenBox(p) \/ PutGit(p)
      BY <3>1 DEF OpenBox, PutGit, Box
    <3>2. CASE PutMarker(p)
      <4>1. box' = box \/ \E m \in {"made", "found"} : box' = [box EXCEPT !.marker = m]
        BY <3>2 DEF PutMarker
      <4> QED BY <4>1 DEF Box
    <3>3. CASE DropGit(p) \/ DropMarker(p) \/ DropDir(p)
      BY <3>3 DEF DropGit, DropMarker, DropDir, Box
    <3>4. CASE box' = box
      BY <3>4
    <3> QED BY <1>3, <3>1, <3>2, <3>3, <3>4 DEF InstallStep, BeginInstall, Inspect, LookAtTarget, Place, CheckPath,
              WriteAgent, ApplyAgent, Finish, Gather, Sift, UnlinkShim, installs, Rest
  <2>6. defaults' \subseteq HomeDirs
    <3>1. CASE Place(p)
      BY <3>1 DEF Place
    <3>2. CASE ~Place(p)
      BY <1>3, <3>2 DEF InstallStep, BeginInstall, Inspect, LookAtTarget, CheckPath, WriteAgent, ApplyAgent, Finish,
           Gather, Sift, UnlinkShim, OpenBox, PutGit, PutMarker, DropGit, DropMarker, DropDir, installs, Rest, BoxOnly
    <3> QED BY <3>1, <3>2
  <2>7. \A q \in Procs : view'[q].fixes \subseteq Fixes
    BY <2>1 DEF Views
  <2> QED BY <1>1, <2>1, <2>3, <2>4, <2>5, <2>6, <2>7 DEF InstallTypeOK, ViewTypes, Entries, Fixes, Listed
<1> QED BY <1>2, <1>3 DEF Act

LEMMA UserTypes == ASSUME InstallTypeOK, ViewTypes, User PROVE InstallTypeOK' /\ ViewTypes'
<1> USE HomeTypes
<1>1. TypeOK'
  BY DEF User, Same, stores, locals, history, TypeOK
<1>2. entry' \in Entries
  BY InstallAssumption DEF User, Entries, Files, Places
<1>3. box' \in Box
  BY DEF User, Box
<1>4. raced' \subseteq Procs /\ users' \in 0..MaxUser
  BY InstallAssumption DEF User, Running
<1>5. UNCHANGED <<path, paths_gh, checkout, args, agent, launchd, view, defaults>>
  BY DEF User, World
<1> QED BY <1>1, <1>2, <1>3, <1>4, <1>5 DEF InstallTypeOK, ViewTypes, Entries, Listed

(***************************************************************************)
(* Where a command may be                                                  *)
(***************************************************************************)

\* Only the host may change, and only when bootstrap looks.
LEMMA OpKept ==
    ASSUME TypeOK, NEW p \in Procs, Act(p)
    PROVE  /\ cmd'[p].op = cmd[p].op
           /\ ~Inspect(p) => cmd' = cmd
           /\ litter' \ {p} = litter \ {p}
<1> USE Types
<1>1. CASE Step(p)
  <2>1. litter' \ {p} = litter \ {p}
    BY <1>1 DEF Step, Start, Begin, Obtain, Load, Reread, Replace, Save, Forget, Write, Erase, Unlink, Publish,
         Crash, Fails, stores
  <2> QED BY <1>1, <2>1, Moves
<1>2. CASE InstallStep(p)
  BY <1>2, InstallMoves
<1> QED BY <1>1, <1>2 DEF Act

LEMMA OrderStep ==
    ASSUME InstallTypeOK, ViewTypes, Orders, NEW p \in Procs, Act(p), NEW q \in Procs
    PROVE  OrderOK(q)'
<1> USE HomeTypes, Types
<1>0. OrderOK(q) /\ cmd'[p].op = cmd[p].op
  BY OpKept DEF Orders
<1>1. CASE q # p
  <2>1. q \in litter' => q \in litter
    BY <1>1, OpKept
  <2> QED BY <1>0, <1>1, <2>1, Frame DEF OrderOK
<1>2. CASE q = p /\ Step(p)
  <2> USE <1>0, <1>2 DEF OrderOK, Goto, Editing, Clearing, Installing, Recording, Logins, Installers, Fails, stores
  <2>1. CASE Start(p)
    BY <2>1 DEF Start, Begin, Ops
  <2>2. CASE Obtain(p) \/ Load(p)
    BY <2>2 DEF Obtain, Load
  <2>3. CASE Reread(p)
    BY <2>3 DEF Reread
  <2>4. CASE Replace(p)
    <3>1. cmd[p].op \in OtherOps => cmd[p].op \notin Ops
      BY StoresAssumption
    <3>2. pc[p] = "replace" /\ cmd[p].op \in Logins \union {"add", "remove", "bootstrap"}
      BY <2>4 DEF Replace
    <3>3. pc'[p] \in {AfterAddHost(p), "error"} /\ litter' = litter
      BY <2>4 DEF Replace
    <3>4. \/ AfterAddHost(p) = "save" /\ cmd[p].op \in Logins
          \/ AfterAddHost(p) = "look" /\ cmd[p].op = "bootstrap"
          \/ AfterAddHost(p) = "ok"
      BY <3>1, <3>2 DEF AfterAddHost, Ops
    <3> QED BY <3>2, <3>3, <3>4
  <2>5. CASE Save(p) \/ Forget(p)
    BY <2>5 DEF Save, Forget
  <2>6. CASE Write(p)
    BY <2>6 DEF Write
  <2>7. CASE Erase(p)
    BY <2>7 DEF Erase
  <2>8. CASE Unlink(p) \/ Publish(p) \/ Crash(p)
    BY <2>8 DEF Unlink, Publish, Crash
  <2> QED BY <1>2, <2>1, <2>2, <2>3, <2>4, <2>5, <2>6, <2>7, <2>8 DEF Step
<1>3. CASE q = p /\ InstallStep(p)
  <2> USE <1>0, <1>3 DEF OrderOK, Goto, Editing, Clearing, Installing, Recording, Installers
  <2>0. p \notin litter' \/ pc[p] \in {"publish", "killed"}
    BY InstallMoves
  <2>1. CASE BeginInstall(p)
    BY <2>0, <2>1, InstallMoves, InstallAssumption DEF BeginInstall, InstallOps, Recorders, Begin
  <2>2. CASE Inspect(p)
    <3>1. Plan(Allowed).plan = "allowlist" \/ pc'[p] \in {"error", "look"}
      BY <2>2 DEF Inspect
    <3>2. pc'[p] \in {"error", "look", "load"} /\ (pc'[p] = "load" => cmd[p].op # "install")
      BY <2>2 DEF Inspect
    <3> QED BY <2>0, <2>2, <3>2 DEF Inspect
  <2>3. CASE LookAtTarget(p) \/ Place(p)
    BY <2>0, <2>3 DEF LookAtTarget, Place, Refuse
  <2>4. CASE CheckPath(p) \/ WriteAgent(p) \/ ApplyAgent(p) \/ Finish(p)
    BY <2>0, <2>4 DEF CheckPath, WriteAgent, ApplyAgent, Finish
  <2>5. CASE Gather(p) \/ Sift(p) \/ UnlinkShim(p)
    BY <2>0, <2>5 DEF Gather, Sift, UnlinkShim
  <2>6. CASE OpenBox(p) \/ PutGit(p) \/ PutMarker(p)
    BY <2>0, <2>6 DEF OpenBox, PutGit, PutMarker
  <2>7. CASE DropGit(p) \/ DropMarker(p) \/ DropDir(p)
    BY <2>0, <2>7 DEF DropGit, DropMarker, DropDir
  <2> QED BY <1>3, <2>1, <2>2, <2>3, <2>4, <2>5, <2>6, <2>7 DEF InstallStep
<1> QED BY <1>1, <1>2, <1>3 DEF Act

LEMMA SoloStep ==
    ASSUME InstallTypeOK, ViewTypes, Solo, NEW p \in Procs, Act(p)
    PROVE  Solo'
<1> USE HomeTypes
<1> SUFFICES ASSUME NEW q \in Running', NEW r \in Running', q # r
             PROVE  q \in overlapped' /\ r \in overlapped'
  BY DEF Solo
<1>1. ASSUME NEW s \in Running', s # p PROVE s \in Running
  BY <1>1, Frame DEF Running
<1>2. CASE q # p /\ r # p
  BY <1>1, <1>2, Fixed DEF Solo
<1>3. CASE q = p
  <2>1. r \in Running /\ r # p
    BY <1>1, <1>3
  <2> QED BY <1>3, <2>1, Overlaps
<1>4. CASE r = p
  <2>1. q \in Running /\ q # p
    BY <1>1, <1>4
  <2> QED BY <1>4, <2>1, Overlaps
<1> QED BY <1>2, <1>3, <1>4

(***************************************************************************)
(* The stores keep what nobody names                                       *)
(***************************************************************************)

\* What a step may do to the hosts nobody names: nothing.
Steady ==
    /\ auth.state \in {"missing", "whole"} <=> auth'.state \in {"missing", "whole"}
    /\ config'.corrupt = config.corrupt
    /\ \A h \in Unnamed :
          /\ StoredToken'[h] = StoredToken[h] /\ auth'.of[h] = auth.of[h]
          /\ h \in Allowed' <=> h \in Allowed

LEMMA UnnamedShrinks ==
    ASSUME InstallTypeOK, ViewTypes, Orders, NEW p \in Procs, Act(p)
    PROVE  Unnamed' \subseteq Unnamed
<1> USE HomeTypes, Types
<1> SUFFICES ASSUME NEW r \in Acting PROVE r \in Acting' /\ cmd'[r].host = cmd[r].host
  BY DEF Unnamed
<1>1. r \in Procs /\ cmd'[r].op = cmd[r].op
  BY Frame, OpKept DEF Acting
<1>2. CASE r # p
  BY <1>1, <1>2, Frame DEF Acting
<1>3. CASE r = p
  <2>1. ~Inspect(p)
    <3>1. cmd[p].op \in Installers => cmd[p].op \notin Ops
      BY DEF Installers, Ops
    <3> QED BY <1>3, <3>1 DEF Orders, OrderOK, Acting, Inspect
  <2>2. cmd' = cmd
    BY <2>1, OpKept
  <2>3. pc[p] \notin {"ready", "inspect"} => pc'[p] \notin {"ready", "inspect"}
    <3> USE DEF Goto
    <3>1. CASE Step(p)
      BY <3>1 DEF Step, Start, Begin, Obtain, Load, Reread, Replace, AfterAddHost, Save, Forget, Write, Erase, Unlink,
           Publish, Crash, Fails
    <3>2. CASE BeginInstall(p)
      BY <3>2 DEF BeginInstall, Begin
    <3>3. CASE LookAtTarget(p) \/ Place(p)
      BY <3>3 DEF LookAtTarget, Place, Refuse
    <3>4. CASE CheckPath(p) \/ WriteAgent(p) \/ ApplyAgent(p) \/ Finish(p)
      BY <3>4 DEF CheckPath, WriteAgent, ApplyAgent, Finish
    <3>5. CASE Gather(p) \/ Sift(p) \/ UnlinkShim(p)
      BY <3>5 DEF Gather, Sift, UnlinkShim
    <3>6. CASE OpenBox(p) \/ PutGit(p) \/ PutMarker(p)
      BY <3>6 DEF OpenBox, PutGit, PutMarker
    <3>7. CASE DropGit(p) \/ DropMarker(p) \/ DropDir(p)
      BY <3>7 DEF DropGit, DropMarker, DropDir
    <3> QED BY <2>1, <3>1, <3>2, <3>3, <3>4, <3>5, <3>6, <3>7 DEF Act, InstallStep
  <2> QED BY <1>1, <1>3, <2>2, <2>3 DEF Acting
<1> QED BY <1>2, <1>3

LEMMA SteadyStep == ASSUME TypeOK, StoresOK, NEW p \in Procs, Act(p) PROVE Steady
<1>0. MissingIsEmpty /\ WriterOK(p) /\ EditorOK(p)
  BY DEF StoresOK
<1>1. CASE Step(p)
  <2>1. ASSUME NEW h \in Unnamed PROVE h \in Hosts /\ NoTokens[h] = None
    BY <2>1 DEF Unnamed, NoTokens
  <2>2. pc[p] \notin {"ready", "inspect"} => \A h \in Unnamed : h # cmd[p].host
    BY DEF Unnamed, Acting
  <2>3. \A h \in Unnamed : keychain'[h] = keychain[h]
    BY <1>1, <2>1, <2>2, Moves, Types DEF Save, Forget
  <2>4. \A h \in Unnamed : auth'.of[h] = auth.of[h] /\ FileToken(auth, h)' = FileToken(auth, h)
    <3> SUFFICES ASSUME NEW h \in Unnamed
                 PROVE  auth'.of[h] = auth.of[h] /\ FileToken(auth, h)' = FileToken(auth, h)
      OBVIOUS
    <3>1. CASE auth' = auth
      BY <3>1 DEF FileToken
    <3>2. CASE Unlink(p) /\ auth' = NoAuthFile
      BY <1>0, <2>1, <3>2 DEF Unlink, WriterOK, FileToken, NoAuthFile, MissingIsEmpty
    <3>3. CASE Publish(p) /\ auth' = read[p]
      BY <1>0, <2>1, <3>3 DEF Publish, WriterOK, FileToken, MissingIsEmpty
    <3> QED BY <1>1, <3>1, <3>2, <3>3, Moves
  <2>5. \A h \in Unnamed : StoredToken'[h] = StoredToken[h]
    BY <1>1, <2>1, <2>3, <2>4, Moves DEF StoredToken, Stored, FileToken
  <2>6. auth.state \in {"missing", "whole"} <=> auth'.state \in {"missing", "whole"}
    BY <1>0, <1>1, Moves DEF Unlink, Publish, WriterOK, NoAuthFile
  <2>7. config'.corrupt = config.corrupt
    BY <1>0, <1>1, Moves, Types DEF Replace, EditorOK, ConfigFile
  <2>8. \A h \in Unnamed : h \in Allowed' <=> h \in Allowed
    <3>1. CASE config' = config
      BY <3>1 DEF Allowed, AllowedBy
    <3>2. CASE Replace(p) /\ config' = loaded[p]
      BY <1>0, <3>2 DEF Replace, EditorOK, Allowed, AllowedBy
    <3> QED BY <1>1, <3>1, <3>2, Moves
  <2> QED BY <2>4, <2>5, <2>6, <2>7, <2>8 DEF Steady
<1>2. CASE InstallStep(p)
  BY <1>2, InstallMoves DEF Steady, StoredToken, Stored, FileToken, Allowed, AllowedBy
<1> QED BY <1>1, <1>2 DEF Act

LEMMA MissingStep == ASSUME TypeOK, StoresOK, NEW p \in Procs, Act(p) PROVE MissingIsEmpty'
<1>0. MissingIsEmpty /\ WriterOK(p) /\ NoTokens' = NoTokens
  BY DEF StoresOK, NoTokens
<1>1. CASE Step(p)
  BY <1>0, <1>1, Moves DEF MissingIsEmpty, Publish, WriterOK, NoAuthFile
<1>2. CASE InstallStep(p)
  BY <1>0, <1>2, InstallMoves DEF MissingIsEmpty
<1> QED BY <1>1, <1>2 DEF Act

\* No place of the installers' is one of these.
LEMMA InstallPlacesOnly ==
    ASSUME TypeOK, NEW p \in Procs, InstallStep(p)
    PROVE  pc'[p] \in {"look", "load"} \union Ended \union InstallPlaces
<1> USE Types DEF Goto, InstallPlaces, Ended
<1>1. CASE BeginInstall(p) \/ Inspect(p)
  BY <1>1 DEF BeginInstall, Inspect
<1>2. CASE LookAtTarget(p) \/ Place(p)
  BY <1>2 DEF LookAtTarget, Place, Refuse
<1>3. CASE CheckPath(p) \/ WriteAgent(p) \/ ApplyAgent(p) \/ Finish(p)
  BY <1>3 DEF CheckPath, WriteAgent, ApplyAgent, Finish
<1>4. CASE Gather(p) \/ Sift(p) \/ UnlinkShim(p)
  BY <1>4 DEF Gather, Sift, UnlinkShim
<1>5. CASE OpenBox(p) \/ PutGit(p) \/ PutMarker(p)
  BY <1>5 DEF OpenBox, PutGit, PutMarker
<1>6. CASE DropGit(p) \/ DropMarker(p) \/ DropDir(p)
  BY <1>6 DEF DropGit, DropMarker, DropDir
<1> QED BY <1>1, <1>2, <1>3, <1>4, <1>5, <1>6 DEF InstallStep

LEMMA WriterStep ==
    ASSUME InstallTypeOK, ViewTypes, Orders, StoresOK, NEW p \in Procs, Act(p), Steady, NEW q \in Procs
    PROVE  WriterOK(q)'
<1>0. TypeOK /\ WriterOK(q) /\ Unnamed' \subseteq Unnamed
  BY HomeTypes, UnnamedShrinks DEF StoresOK
<1>1. CASE q # p
  BY <1>0, <1>1, Frame DEF WriterOK, Steady
<1>2. CASE q = p /\ Write(p)
  <2>1. CASE Fails(p) \/ auth.state \notin {"missing", "whole"}
    BY <1>0, <1>2, <2>1, Types DEF Write, Fails, Goto, WriterOK
  <2>2. CASE ~Fails(p) /\ auth.state \in {"missing", "whole"}
    <3>1. ASSUME NEW h \in Unnamed PROVE h \in Hosts /\ h # cmd[p].host
      BY <1>2, <3>1 DEF Unnamed, Acting, Write
    <3>2. pc'[p] = "publish" /\ auth' = auth /\ read'[p].state = "whole"
          /\ read'[p].of = [auth.of EXCEPT ![cmd[p].host] = p]
      BY <1>0, <1>2, <2>2, Types DEF Write, Goto
    <3> QED BY <1>0, <1>2, <2>2, <3>1, <3>2, Types DEF WriterOK
  <2> QED BY <2>1, <2>2
<1>3. CASE q = p /\ Erase(p)
  <2>1. CASE pc'[p] \notin {"publish", "unlink"}
    BY <1>0, <1>3, <2>1 DEF WriterOK
  <2>2. CASE pc'[p] = "publish"
    <3>1. ASSUME NEW h \in Unnamed PROVE h \in Hosts /\ h # cmd[p].host
      BY <1>3, <3>1 DEF Unnamed, Acting, Erase
    <3>2. auth.state = "whole" /\ auth' = auth /\ read'[p].state = "whole"
          /\ read'[p].of = [auth.of EXCEPT ![cmd[p].host] = None]
      BY <1>0, <1>3, <2>2, Types DEF Erase, Fails, Goto
    <3> QED BY <1>0, <1>3, <2>2, <3>1, <3>2, Types DEF WriterOK
  <2>3. CASE pc'[p] = "unlink"
    <3>1. ASSUME NEW h \in Unnamed PROVE h \in Hosts /\ h # cmd[p].host /\ NoTokens[h] = None
      BY <1>3, <3>1 DEF Unnamed, Acting, Erase, NoTokens
    <3>2. auth.state = "whole" /\ auth' = auth /\ [auth.of EXCEPT ![cmd[p].host] = None] = NoTokens
      BY <1>0, <1>3, <2>3, Types DEF Erase, Fails, Goto
    <3>3. ASSUME NEW h \in Unnamed PROVE auth.of[h] = None
      <4>1. [auth.of EXCEPT ![cmd[p].host] = None][h] = auth.of[h]
        BY <1>0, <3>1, <3>3, Types
      <4> QED BY <3>1, <3>2, <3>3, <4>1
    <3> QED BY <1>0, <1>3, <2>3, <3>2, <3>3 DEF WriterOK
  <2> QED BY <2>1, <2>2, <2>3
<1>4. CASE q = p /\ ~Write(p) /\ ~Erase(p)
  <2>1. pc'[p] \notin {"publish", "unlink"}
    <3>1. CASE Step(p)
      BY <1>0, <1>4, <3>1, Types DEF Step, Start, Begin, Obtain, Load, Reread, Replace, AfterAddHost, Save, Forget,
           Unlink, Publish, Crash, Fails, Goto
    <3>2. CASE InstallStep(p)
      BY <1>0, <3>2, InstallPlacesOnly DEF Ended, InstallPlaces
    <3> QED BY <3>1, <3>2 DEF Act
  <2> QED BY <1>4, <2>1 DEF WriterOK
<1> QED BY <1>1, <1>2, <1>3, <1>4

LEMMA EditorStep ==
    ASSUME InstallTypeOK, ViewTypes, Orders, StoresOK, NEW p \in Procs, Act(p), Steady, NEW q \in Procs
    PROVE  EditorOK(q)'
<1>0. TypeOK /\ EditorOK(q) /\ Unnamed' \subseteq Unnamed
  BY HomeTypes, UnnamedShrinks DEF StoresOK
<1>1. CASE q # p
  BY <1>0, <1>1, Frame DEF EditorOK, Steady
<1>2. CASE q = p /\ Load(p)
  <2>1. CASE config.corrupt
    BY <1>0, <1>2, <2>1, Types DEF Load, Goto, EditorOK
  <2>2. CASE ~config.corrupt
    <3>1. ASSUME NEW h \in Unnamed PROVE h # cmd[p].host
      BY <1>2, <3>1 DEF Unnamed, Acting, Load
    <3>2. pc'[p] = "reread" /\ config' = config /\ ~loaded'[p].corrupt
          /\ loaded'[p].listed = IF cmd[p].op = "remove" THEN Allowed \ {cmd[p].host}
                                 ELSE Allowed \union {cmd[p].host}
      BY <1>0, <1>2, <2>2, Types DEF Load, Goto, stores
    <3>3. Allowed' = Allowed
      BY <3>2 DEF Allowed, AllowedBy
    <3> QED BY <1>0, <1>2, <2>2, <3>1, <3>2, <3>3 DEF EditorOK
  <2> QED BY <2>1, <2>2
<1>3. CASE q = p /\ Reread(p)
  <2>1. CASE pc'[p] # "replace"
    BY <1>0, <1>3, <2>1, Types DEF Reread, Fails, Goto, EditorOK
  <2>2. CASE pc'[p] = "replace"
    <3>1. /\ pc[p] = "reread" /\ ~config.corrupt /\ config' = config /\ ~loaded'[p].corrupt
          /\ loaded'[p].listed = loaded[p].listed /\ loaded'[p].tables \subseteq config.tables
      BY <1>0, <1>3, <2>2, Types DEF Reread, Fails, Goto, stores
    <3>2. Allowed' = Allowed /\ config.tables \subseteq Allowed
      BY <3>1 DEF Allowed, AllowedBy
    <3> QED BY <1>0, <1>3, <2>2, <3>1, <3>2 DEF EditorOK
  <2> QED BY <2>1, <2>2
<1>4. CASE q = p /\ ~Load(p) /\ ~Reread(p)
  <2>1. pc'[p] \notin {"reread", "replace"}
    <3>1. CASE Step(p)
      BY <1>0, <1>4, <3>1, Types DEF Step, Start, Begin, Obtain, Replace, AfterAddHost, Save, Forget, Write, Erase,
           Unlink, Publish, Crash, Fails, Goto
    <3>2. CASE InstallStep(p)
      BY <1>0, <3>2, InstallPlacesOnly DEF Ended, InstallPlaces
    <3> QED BY <3>1, <3>2 DEF Act
  <2> QED BY <1>4, <2>1 DEF EditorOK
<1> QED BY <1>1, <1>2, <1>3, <1>4

LEMMA KeptStep ==
    ASSUME InstallTypeOK, ViewTypes, Orders, StoresOK, NEW p \in Procs, Act(p), Steady
    PROVE  Kept'
<1>0. TypeOK /\ Kept /\ Unnamed' \subseteq Unnamed
  BY HomeTypes, UnnamedShrinks DEF StoresOK
<1> SUFFICES ASSUME NEW h \in Unnamed, NEW q \in Procs
             PROVE  /\ StoredToken'[h] = before'[q].tokens[h] /\ auth'.of[h] = before'[q].held[h]
                    /\ h \in Allowed' <=> h \in before'[q].allowed
  BY <1>0 DEF Kept
<1>1. /\ StoredToken[h] = before[q].tokens[h] /\ auth.of[h] = before[q].held[h]
      /\ h \in Allowed <=> h \in before[q].allowed
  BY <1>0 DEF Kept
<1>2. before'[q] = before[q] \/ before'[q] = [tokens |-> StoredToken, held |-> auth.of, allowed |-> Allowed]
  <2>1. CASE q # p
    BY <2>1, Frame
  <2>2. CASE q = p /\ Step(p)
    BY <1>0, <2>2, BeginTypes DEF Step, Start, Obtain, Load, Reread, Replace, Save, Forget, Write, Erase,
           Unlink, Publish, Crash, Fails, history
  <2>3. CASE q = p /\ InstallStep(p)
    BY <1>0, <2>3, InstallMoves, BeginTypes
  <2> QED BY <2>1, <2>2, <2>3 DEF Act
<1> QED BY <1>1, <1>2 DEF Steady

LEMMA StoresStep ==
    ASSUME InstallTypeOK, ViewTypes, Orders, StoresOK, NEW p \in Procs, Act(p)
    PROVE  StoresOK'
<1>1. Steady /\ MissingIsEmpty'
  BY HomeTypes, SteadyStep, MissingStep
<1>2. Kept' /\ \A q \in Procs : WriterOK(q)' /\ EditorOK(q)'
  BY <1>1, KeptStep, WriterStep, EditorStep
<1> QED BY <1>1, <1>2 DEF StoresOK

(***************************************************************************)
(* The user's files                                                        *)
(***************************************************************************)

\* Only the rename of a wrapper and the removal of one change an entry.
LEMMA EntryMoves ==
    ASSUME NEW p \in Procs, Act(p)
    PROVE  \/ entry' = entry
           \/ /\ Place(p) /\ view[p].target \in HomeDirs /\ view' = view
              /\ entry' = [entry EXCEPT ![view[p].target] = "wrapper"]
           \/ /\ UnlinkShim(p) /\ Doomed(p) \in HomeDirs /\ entry[Doomed(p)] # "missing"
              /\ entry' = [entry EXCEPT ![Doomed(p)] = "missing"]
<1>1. CASE UNCHANGED installs
  BY <1>1 DEF installs
<1>2. CASE Place(p)
  BY <1>2 DEF Place
<1>3. CASE UnlinkShim(p)
  BY <1>3 DEF UnlinkShim, Doomed
<1>4. CASE InstallStep(p) /\ ~Place(p) /\ ~UnlinkShim(p)
  BY <1>4 DEF InstallStep, BeginInstall, Inspect, LookAtTarget, CheckPath, WriteAgent, ApplyAgent, Finish,
       Gather, Sift, OpenBox, PutGit, PutMarker, DropGit, DropMarker, DropDir, installs, Rest, BoxOnly
<1> QED BY <1>1, <1>2, <1>3, <1>4 DEF Act

\* What is not the user's does not become his.
LEMMA NotTheirs ==
    ASSUME InstallTypeOK, ViewTypes, NEW p \in Procs, Act(p), NEW d \in Places
    PROVE  /\ entry[d] \notin Theirs => entry'[d] \notin Theirs
           /\ entry[d] \notin Places => entry'[d] \notin Places
<1>1. entry'[d] \in {entry[d], "wrapper", "missing"}
  BY HomeTypes, EntryMoves DEF Entries
<1>2. "wrapper" \notin Places /\ "missing" \notin Places
  BY InstallAssumption DEF Files
<1> QED BY <1>1, <1>2 DEF Theirs

LEMMA DoomedPlace ==
    ASSUME InstallTypeOK, ViewTypes, NEW p \in Procs
    PROVE  Doomed(p) \in Dirs
<1> USE HomeTypes
<1>1. view[p].left \in Seq(Dirs)
  BY DEF Views
<1> QED BY <1>1 DEF Doomed

\* A place that holds our wrapper, or a link to one, is not the user's.
LEMMA ManagedNotTheirs ==
    ASSUME InstallTypeOK, ViewTypes, NEW d \in Places, Managed(entry, d)
    PROVE  entry[d] \notin Theirs
<1>1. entry[d] \in Theirs => Reaches(entry, d) = entry[d]
  BY HomeTypes, ReachesFile DEF Theirs, Files
<1> QED BY <1>1 DEF Managed, Theirs

LEMMA PlaceStep ==
    ASSUME InstallTypeOK, ViewTypes, Orders, HomeOK, NEW p \in Procs, Act(p), NEW q \in Procs
    PROVE  PlaceOK(q)'
<1> USE HomeTypes, Types
<1>0. /\ PlaceOK(q) /\ OrderOK(q) /\ UNCHANGED <<path, args, raced>> /\ DefaultDirs' = DefaultDirs
      /\ cmd'[p].op = cmd[p].op
  BY Fixed, OpKept DEF HomeOK, Orders, DefaultDirs, Listed
<1>1. CASE q # p
  <2>1. pc'[q] = pc[q] /\ view'[q] = view[q] /\ cmd'[q] = cmd[q]
    BY <1>1, Frame
  <2>2. Doomed(q)' = Doomed(q) /\ Doomed(q) \in Places /\ (Looked(q)' <=> Looked(q))
    BY <2>1, DoomedPlace DEF Doomed, Looked, Installing, Editing
  <2>3. pc[q] = "place" => view[q].target \in Places
    BY <1>0 DEF PlaceOK, Looked, Installing
  <2> QED BY <1>0, <2>1, <2>2, <2>3, NotTheirs DEF PlaceOK
<1>2. CASE q = p /\ Step(p) /\ UNCHANGED installs
  <2>1. view'[p] = view[p]
    BY <1>2 DEF installs
  <2>2. pc'[p] \notin {"place", "unlink_shim"} /\ (Looked(p)' => Looked(p))
    <3> USE <1>0, <1>2 DEF Goto, Looked, Installing, Editing, OrderOK, Logins, Fails
    <3>1. CASE Start(p)
      BY <3>1 DEF Start, Begin, Ops
    <3>2. CASE Obtain(p) \/ Load(p)
      BY <3>2 DEF Obtain, Load
    <3>3. CASE Reread(p)
      BY <3>3 DEF Reread
    <3>4. CASE Replace(p)
      <4>1. pc[p] = "replace" /\ pc'[p] \in {"look", "save", "ok", "error"}
        BY <3>4 DEF Replace, AfterAddHost
      <4>2. pc'[p] = "look" => cmd[p].op = "bootstrap"
        <5>1. pc'[p] = "look" => cmd[p].op \notin Ops
          BY <3>4, StoresAssumption DEF Replace, AfterAddHost
        <5> QED BY <4>1, <5>1 DEF Ops
      <4> QED BY <4>1, <4>2
    <3>5. CASE Save(p) \/ Forget(p)
      BY <3>5 DEF Save, Forget
    <3>6. CASE Write(p)
      BY <3>6 DEF Write
    <3>7. CASE Erase(p)
      BY <3>7 DEF Erase
    <3>8. CASE Unlink(p) \/ Publish(p) \/ Crash(p)
      BY <3>8 DEF Unlink, Publish, Crash
    <3> QED BY <1>2, <3>1, <3>2, <3>3, <3>4, <3>5, <3>6, <3>7, <3>8 DEF Step
  <2> QED BY <1>0, <1>2, <2>1, <2>2 DEF PlaceOK
<1>3. CASE q = p /\ InstallStep(p)
  <2> USE <1>0, <1>3 DEF Goto
  <2>0. view[p] \in Views /\ args[p] \in Options /\ None \notin Dirs
    BY InstallAssumption DEF Places
  <2>1. CASE BeginInstall(p)
    <3>1. view'[p] = view[p] /\ pc'[p] \in {"inspect", "gather", "open"}
      BY <2>1 DEF BeginInstall, installs, Begin
    <3> QED BY <3>1 DEF PlaceOK, Looked, Installing, Editing
  <2>2. CASE Inspect(p)
    <3>1. CASE view' = view /\ pc'[p] = "error"
      BY <3>1 DEF PlaceOK, Looked, Installing, Editing
    <3>2. CASE ~(view' = view /\ pc'[p] = "error")
      <4>1. pc'[p] \in {"load", "look"}
            /\ view'[p].target = IF cmd[p].op = "install" /\ args[p].dir = None THEN Local ELSE Target(entry, args[p])
        BY <2>2, <3>2, InspectView
      <4>2. view'[p].target \in Dirs /\ (args[p].dir = None => view'[p].target \in DefaultDirs)
        BY <2>0, <4>1, LookTypes DEF DefaultDirs
      <4> QED BY <4>1, <4>2 DEF PlaceOK
    <3> QED BY <3>1, <3>2
  <2>3. CASE LookAtTarget(p)
    <3>1. view'[p].target = view[p].target /\ pc[p] = "look"
      BY <2>0, <2>3 DEF LookAtTarget, Refuse, Views
    <3>2. view[p].target \in Dirs
      BY <3>1 DEF PlaceOK, Looked, Installing
    <3>3. entry' = entry /\ pc'[p] \in {"place", "path", "error"}
      BY <2>3 DEF LookAtTarget, Refuse
    <3>4. pc'[p] = "place" => ~args[p].dry_run /\ (args[p].force \/ entry[view[p].target] = "missing" \/ Managed(entry, view[p].target))
      BY <2>3 DEF LookAtTarget, Refuse
    <3>5. pc'[p] = "place" /\ ~args[p].force => entry[view[p].target] \notin Theirs
      BY <3>2, <3>4, ManagedNotTheirs DEF Theirs
    <3> QED BY <3>1, <3>2, <3>3, <3>4, <3>5 DEF PlaceOK
  <2>4. CASE Place(p) \/ CheckPath(p) \/ WriteAgent(p) \/ ApplyAgent(p) \/ Finish(p)
    <3>1. pc[p] \in Installing /\ pc'[p] \notin {"place", "unlink_shim"}
      BY <2>4 DEF Place, Refuse, CheckPath, WriteAgent, ApplyAgent, Finish, Installing
    <3>2. view' = view \/ \E more : view' = [view EXCEPT ![p].fixes = @ \union more]
      BY <2>4 DEF Place, Refuse, CheckPath, WriteAgent, ApplyAgent, Finish
    <3>3. view'[p].target = view[p].target
      BY <2>0, <3>2 DEF Views
    <3> QED BY <3>1, <3>3 DEF PlaceOK, Looked
  <2>5. CASE Gather(p)
    <3>1. view'[p].target = view[p].target /\ pc'[p] \in {"sift", "ok", "unlink_shim", "error"} /\ entry' = entry
      BY <2>0, <2>5 DEF Gather, Views
    <3>2. pc'[p] = "unlink_shim" => /\ args[p].dir # None /\ Managed(entry, args[p].dir)
                                    /\ view'[p].left = <<args[p].dir>>
      BY <2>0, <2>5 DEF Gather, Views
    <3>3. pc'[p] = "unlink_shim" => args[p].dir \in Places /\ Doomed(p)' = args[p].dir
      <4>1. <<args[p].dir>> # <<>> /\ Head(<<args[p].dir>>) = args[p].dir
        OBVIOUS
      <4>2. args[p].dir \in Dirs \union {None}
        BY <2>0 DEF Options
      <4> QED BY <3>2, <4>1, <4>2 DEF Doomed
    <3> QED BY <3>1, <3>2, <3>3, ManagedNotTheirs DEF PlaceOK, Looked, Installing, Editing
  <2>6. CASE Sift(p)
    <3>1. view'[p].target = view[p].target /\ pc'[p] \in {"sift", "ok", "unlink_shim", "error"} /\ entry' = entry
      BY <2>0, <2>6 DEF Sift, Views
    <3>2. pc'[p] = "unlink_shim" => view' = view /\ entry[Doomed(p)] = "wrapper"
      BY <2>6 DEF Sift, Doomed
    <3>3. pc'[p] = "unlink_shim" => Doomed(p)' = Doomed(p)
      BY <3>2 DEF Doomed
    <3>4. "wrapper" \notin Theirs /\ "wrapper" \notin Places
      BY InstallAssumption DEF Theirs, Files
    <3> QED BY <3>1, <3>2, <3>3, <3>4 DEF PlaceOK, Looked, Installing, Editing
  <2>7. CASE UnlinkShim(p)
    <3>1. view'[p].target = view[p].target /\ pc'[p] \in {"sift", "ok", "error"}
      BY <2>0, <2>7 DEF UnlinkShim, Views
    <3> QED BY <3>1 DEF PlaceOK, Looked, Installing, Editing
  <2>8. CASE OpenBox(p) \/ PutGit(p) \/ PutMarker(p) \/ DropGit(p) \/ DropMarker(p) \/ DropDir(p)
    <3>1. view'[p].target = view[p].target
      BY <2>0, <2>8 DEF OpenBox, PutGit, PutMarker, DropGit, DropMarker, DropDir, Views
    <3>2. pc'[p] \in {"put_git", "put_marker", "drop_git", "drop_marker", "drop_dir", "ok", "error"}
      BY <2>8 DEF OpenBox, PutGit, PutMarker, DropGit, DropMarker, DropDir
    <3> QED BY <3>1, <3>2 DEF PlaceOK, Looked, Installing, Editing
  <2> QED BY <1>3, <2>1, <2>2, <2>3, <2>4, <2>5, <2>6, <2>7, <2>8 DEF InstallStep
<1> QED BY <1>1, <1>2, <1>3 DEF Act

\* What a step may do in the recorder's directory.
LEMMA BoxMoves ==
    ASSUME NEW p \in Procs, Act(p)
    PROVE  \/ box' = box
           \/ OpenBox(p) /\ box' = [box EXCEPT !.dir = TRUE]
           \/ PutGit(p) /\ box.dir /\ box' = [box EXCEPT !.git = "recorder"]
           \/ PutMarker(p) /\ box.dir /\ \E m \in {"made", "found"} : box' = [box EXCEPT !.marker = m]
           \/ DropGit(p) /\ box.git = "recorder" /\ box' = [box EXCEPT !.git = "missing"]
           \/ DropMarker(p) /\ box.marker \in {"made", "found"} /\ box' = [box EXCEPT !.marker = "missing"]
           \/ /\ DropDir(p) /\ box.git = "missing" /\ box.marker = "missing" /\ ~box.other
              /\ box' = [box EXCEPT !.dir = FALSE]
<1>1. CASE UNCHANGED installs
  BY <1>1 DEF installs
<1>2. CASE OpenBox(p)
  BY <1>2 DEF OpenBox
<1>3. CASE PutGit(p) \/ PutMarker(p)
  BY <1>3 DEF PutGit, PutMarker
<1>4. CASE DropGit(p) \/ DropMarker(p)
  BY <1>4 DEF DropGit, DropMarker
<1>5. CASE DropDir(p)
  BY <1>5 DEF DropDir
<1>6. CASE InstallStep(p) /\ ~OpenBox(p) /\ ~PutGit(p) /\ ~PutMarker(p) /\ ~DropGit(p) /\ ~DropMarker(p) /\ ~DropDir(p)
  BY <1>6 DEF InstallStep, BeginInstall, Inspect, LookAtTarget, Place, CheckPath, WriteAgent, ApplyAgent, Finish,
       Gather, Sift, UnlinkShim, installs, Rest
<1> QED BY <1>1, <1>2, <1>3, <1>4, <1>5, <1>6 DEF Act

LEMMA BoxWhole ==
    ASSUME InstallTypeOK, ViewTypes, HomeOK, NEW p \in Procs, Act(p)
    PROVE  box'.dir \/ box' = NoBox
<1> USE HomeTypes
<1>0. box \in Box /\ (box.dir \/ box = NoBox)
  BY DEF HomeOK
<1>1. CASE box' = box
  BY <1>0, <1>1
<1>2. CASE OpenBox(p) /\ box' = [box EXCEPT !.dir = TRUE]
  BY <1>0, <1>2 DEF Box
<1>3. CASE box.dir /\ \E g \in {"recorder", "missing"} : box' = [box EXCEPT !.git = g]
  BY <1>0, <1>3 DEF Box
<1>4. CASE box.dir /\ \E m \in {"made", "found", "missing"} : box' = [box EXCEPT !.marker = m]
  BY <1>0, <1>4 DEF Box
<1>5. CASE box.git = "missing" /\ box.marker = "missing" /\ ~box.other /\ box' = [box EXCEPT !.dir = FALSE]
  BY <1>0, <1>5 DEF Box, NoBox
<1>6. box.git = "recorder" \/ box.marker \in {"made", "found"} => box.dir
  BY <1>0 DEF NoBox
<1> QED BY <1>1, <1>2, <1>3, <1>4, <1>5, <1>6, BoxMoves

LEMMA BoxStep ==
    ASSUME InstallTypeOK, ViewTypes, HomeOK, NEW p \in Procs, Act(p), NEW q \in Procs
    PROVE  BoxOK(q)'
<1> USE HomeTypes, Types
<1>0. BoxOK(q) /\ raced' = raced
  BY Fixed DEF HomeOK
<1>1. box'.git = "user" => box.git = "user"
  BY BoxMoves DEF Box
<1>2. CASE q # p
  BY <1>0, <1>1, <1>2, Frame DEF BoxOK
<1>3. CASE q = p /\ Step(p)
  BY <1>3 DEF BoxOK, Step, Start, Begin, Obtain, Load, Reread, Replace, AfterAddHost, Save, Forget, Write, Erase,
       Unlink, Publish, Crash, Fails, Goto
<1>4. CASE q = p /\ OpenBox(p)
  BY <1>0, <1>1, <1>4 DEF BoxOK, OpenBox, Goto, Box
<1>5. CASE q = p /\ DropMarker(p)
  BY <1>0, <1>1, <1>5 DEF BoxOK, DropMarker, Goto
<1>6. CASE q = p /\ InstallStep(p) /\ ~OpenBox(p) /\ ~DropMarker(p)
  <2> USE <1>6 DEF Goto
  <2> SUFFICES pc'[p] \notin {"put_git", "drop_dir"}
    BY DEF BoxOK
  <2>1. CASE BeginInstall(p) \/ Inspect(p)
    BY <2>1 DEF BeginInstall, Inspect
  <2>2. CASE LookAtTarget(p) \/ Place(p)
    BY <2>2 DEF LookAtTarget, Place, Refuse
  <2>3. CASE CheckPath(p) \/ WriteAgent(p) \/ ApplyAgent(p) \/ Finish(p)
    BY <2>3 DEF CheckPath, WriteAgent, ApplyAgent, Finish
  <2>4. CASE Gather(p) \/ Sift(p) \/ UnlinkShim(p)
    BY <2>4 DEF Gather, Sift, UnlinkShim
  <2>5. CASE PutGit(p) \/ PutMarker(p) \/ DropGit(p) \/ DropDir(p)
    BY <2>5 DEF PutGit, PutMarker, DropGit, DropDir
  <2> QED BY <2>1, <2>2, <2>3, <2>4, <2>5 DEF InstallStep
<1> QED BY <1>2, <1>3, <1>4, <1>5, <1>6 DEF Act

LEMMA HomeStep ==
    ASSUME InstallTypeOK, ViewTypes, Orders, HomeOK, NEW p \in Procs, Act(p)
    PROVE  HomeOK'
<1> USE HomeTypes
<1>1. DefaultDirs' = DefaultDirs /\ args' = args
  BY Fixed DEF DefaultDirs, Listed
<1>2. defaults' \subseteq DefaultDirs
  <2>1. CASE Place(p)
    <3>1. pc[p] = "place" /\ (defaults' = defaults \/ (args[p].dir = None /\ defaults' = defaults \union {view[p].target}))
      BY <2>1 DEF Place
    <3>2. view[p].target \in Dirs /\ PlaceOK(p)
      BY <3>1 DEF HomeOK, PlaceOK, Looked, Installing
    <3>3. None \notin Dirs
      BY InstallAssumption DEF Places
    <3> QED BY <3>1, <3>2, <3>3 DEF HomeOK, PlaceOK
  <2>2. CASE ~Place(p)
    <3>1. defaults' = defaults
      BY <2>2 DEF Act, InstallStep, BeginInstall, Inspect, LookAtTarget, CheckPath, WriteAgent, ApplyAgent, Finish,
           Gather, Sift, UnlinkShim, OpenBox, PutGit, PutMarker, DropGit, DropMarker, DropDir, installs, Rest, BoxOnly
    <3> QED BY <3>1 DEF HomeOK
  <2> QED BY <2>1, <2>2
<1>3. box'.dir \/ box' = NoBox
  BY BoxWhole
<1>4. \A q \in Procs : PlaceOK(q)' /\ BoxOK(q)'
  BY PlaceStep, BoxStep
<1>5. NoBox' = NoBox
  BY DEF NoBox
<1> QED BY <1>1, <1>2, <1>3, <1>4, <1>5 DEF HomeOK

\* After the user came between.
LEMMA UserHome ==
    ASSUME InstallTypeOK, ViewTypes, HomeOK, User
    PROVE  HomeOK'
<1> USE HomeTypes
<1>0. UNCHANGED <<pc, cmd, path, args, view, defaults>> /\ raced' = raced \union Running
  BY DEF User, Same, World
<1>1. box'.dir \/ box' = NoBox
  BY DEF User, HomeOK, Box
<1>2. DefaultDirs' = DefaultDirs
  BY <1>0 DEF DefaultDirs, Listed
<1>3. ASSUME NEW q \in Procs PROVE PlaceOK(q)' /\ BoxOK(q)'
  <2>1. PlaceOK(q) /\ BoxOK(q)
    BY DEF HomeOK
  <2>2. pc[q] \in {"place", "unlink_shim", "put_git"} => q \in raced'
    BY <1>0 DEF Running, Ended
  <2>3. (Looked(q)' <=> Looked(q))
    BY <1>0 DEF Looked, Installing, Editing
  <2> QED BY <1>0, <1>2, <2>1, <2>2, <2>3 DEF PlaceOK, BoxOK
<1>4. NoBox' = NoBox
  BY DEF NoBox
<1> QED BY <1>0, <1>1, <1>2, <1>3, <1>4 DEF HomeOK

(***************************************************************************)
(* A command nobody disturbs                                               *)
(***************************************************************************)

\* While nothing changes at home, the searches find what they found.
LEMMA SameHome ==
    ASSUME NEW p \in Procs, UNCHANGED <<entry, path, paths_gh, args>>, view'[p].target = view[p].target
    PROVE  /\ Expected(p)' = Expected(p) /\ WrapperFinds(entry)' = WrapperFinds(entry) /\ FirstGh' = FirstGh
           /\ \A d : Supported(entry', d) <=> Supported(entry, d)
           /\ \A d : Managed(entry', d) <=> Managed(entry, d)
<1>1. Expected(p)' = Expected(p)
  BY DEF Expected, SetupFinds
<1>2. WrapperFinds(entry)' = WrapperFinds(entry)
  BY DEF WrapperFinds
<1>3. FirstGh' = FirstGh
  BY DEF FirstGh
<1> QED BY <1>1, <1>2, <1>3

\* Only its own steps leave a running command undisturbed.
LEMMA Undisturbing ==
    ASSUME InstallTypeOK, ViewTypes, Solo, NEW p \in Procs, Act(p), NEW q \in Procs, q # p, Alone(q)'
    PROVE  q \notin Running /\ pc'[q] = pc[q] /\ q \notin Running'
<1>1. pc'[q] = pc[q]
  BY Frame
<1>2. q \notin Running
  BY HomeTypes, Overlaps DEF Alone
<1> QED BY <1>1, <1>2 DEF Running

LEMMA StillUndisturbed ==
    ASSUME TypeOK, NEW p \in Procs, Act(p)
    PROVE  (Alone(p)' => Alone(p)) /\ (Undisturbed(p)' => Undisturbed(p))
BY Fixed DEF Alone, Undisturbed

\* Where the commands of the stores go.
LEMMA StoreSpots ==
    ASSUME TypeOK, NEW p \in Procs, OrderOK(p), Step(p)
    PROVE  /\ pc'[p] \in {"obtain", "save", "forget", "write"} \union Editing \union Clearing \union {"look"} \union Ended
           /\ pc'[p] = "look" => pc[p] = "replace" /\ cmd[p].op = "bootstrap"
           /\ pc'[p] \in Editing /\ cmd[p].op = "bootstrap" => pc[p] \in Editing
<1> USE Types DEF Goto, Editing, Clearing, Ended, OrderOK, Logins, Fails
<1>1. CASE Start(p)
  BY <1>1 DEF Start, Begin, Ops
<1>2. CASE Obtain(p) \/ Load(p)
  BY <1>2 DEF Obtain, Load
<1>3. CASE Reread(p)
  BY <1>3 DEF Reread
<1>4. CASE Replace(p)
  <2>1. pc[p] = "replace" /\ pc'[p] \in {"look", "save", "ok", "error"}
    BY <1>4 DEF Replace, AfterAddHost
  <2>2. pc'[p] = "look" => cmd[p].op \notin Ops
    BY <1>4, StoresAssumption DEF Replace, AfterAddHost
  <2> QED BY <2>1, <2>2 DEF Ops
<1>5. CASE Save(p) \/ Forget(p)
  BY <1>5 DEF Save, Forget
<1>6. CASE Write(p)
  BY <1>6 DEF Write
<1>7. CASE Erase(p)
  BY <1>7 DEF Erase
<1>8. CASE Unlink(p) \/ Publish(p) \/ Crash(p)
  BY <1>8 DEF Unlink, Publish, Crash
<1> QED BY <1>1, <1>2, <1>3, <1>4, <1>5, <1>6, <1>7, <1>8 DEF Step

LEMMA ShimStep ==
    ASSUME InstallTypeOK, ViewTypes, Orders, Solo, HomeOK, UndisturbedOK, NEW p \in Procs, Act(p), NEW q \in Procs
    PROVE  ShimOK(q)'
<1> USE HomeTypes, Types
<1>0. /\ OrderOK(p) /\ ShimOK(p) /\ PlaceOK(p) /\ UNCHANGED <<path, paths_gh, args>>
      /\ cmd'[p].op = cmd[p].op /\ view[p] \in Views
  BY Fixed, OpKept DEF Orders, UndisturbedOK, HomeOK
<1> SUFFICES ASSUME Undisturbed(q)' PROVE ShimOK(q)'
  BY DEF ShimOK
<1>1. CASE q # p
  <2>1. q \notin Running'
    BY <1>1, Undisturbing DEF Undisturbed
  <2> QED BY <2>1 DEF ShimOK, Running, Ended, Looked, Installing, Editing
<1>2. CASE q = p
  <2> USE <1>0, <1>2
  <2>0. Undisturbed(p)
    BY StillUndisturbed
  <2>1. CASE Step(p) /\ UNCHANGED installs
    <3>1. view'[p].target = view[p].target /\ view'[p].gh = view[p].gh /\ entry' = entry
      BY <2>1 DEF installs
    <3>2. Looked(p)' => Looked(p) /\ pc[p] \in Editing /\ pc'[p] \in Editing \union {"look"}
      BY <2>1, StoreSpots DEF Looked, Installing, Editing, Clearing, Ended
    <3>3. pc'[p] \notin {"place", "path", "agent", "apply", "finish"}
      BY <2>1, StoreSpots DEF Editing, Clearing, Ended
    <3> QED BY <2>0, <3>1, <3>2, <3>3, SameHome DEF ShimOK
  <2>2. CASE Inspect(p)
    <3>1. pc'[p] \in {"error", "load", "look"} /\ entry' = entry
      BY <2>2 DEF Inspect, Goto
    <3>2. ASSUME pc'[p] # "error"
          PROVE  view'[p].gh = Expected(p)' /\ (args[p].dry_run \/ Supported(entry, view'[p].gh))
      <4>1. view'[p].gh = SetupFinds(entry, IF args[p].force THEN view'[p].target ELSE None)
            /\ (args[p].dry_run \/ Supported(entry, view'[p].gh))
        BY <2>2, <3>2, InspectView
      <4>2. SetupFinds(entry, IF args[p].force THEN view'[p].target ELSE None) = Expected(p)'
        BY <3>1 DEF Expected, SetupFinds
      <4> QED BY <4>1, <4>2
    <3> QED BY <3>1, <3>2 DEF ShimOK, Looked, Installing, Editing
  <2>3. CASE LookAtTarget(p)
    <3>1. /\ pc[p] = "look" /\ entry' = entry /\ pc'[p] \in {"place", "path", "error"}
          /\ pc'[p] = "path" => args[p].dry_run \/ "shim" \in view'[p].fixes
          /\ pc'[p] = "place" => \/ args[p].force \/ entry[view[p].target] = "missing"
                                 \/ Managed(entry, view[p].target)
      BY <2>3 DEF LookAtTarget, Refuse, Goto, Views
    <3>2. view' = view \/ \E more : view' = [view EXCEPT ![p].fixes = @ \union more]
      BY <2>3 DEF LookAtTarget, Refuse
    <3>3. view'[p].target = view[p].target /\ view'[p].gh = view[p].gh
      BY <3>2 DEF Views
    <3> QED BY <2>0, <3>1, <3>3, SameHome DEF ShimOK, Looked, Installing
  <2>4. CASE Place(p)
    <3>1. pc[p] = "place" /\ ~args[p].dry_run /\ view[p].target \in Dirs
      BY <2>4 DEF Place, PlaceOK, Looked, Installing
    <3>2. pc'[p] \in {"path", "ok", "error"}
      BY <2>4 DEF Place, Refuse, Goto
    <3>3. CASE pc'[p] = "path" /\ "shim" \notin view'[p].fixes
      <4>1. entry' = [entry EXCEPT ![view[p].target] = "wrapper"] /\ view' = view
        BY <2>4, <3>3 DEF Place, Refuse, Goto, Views
      <4>2. view[p].gh = Expected(p) /\ Supported(entry, view[p].gh)
            /\ (args[p].force \/ entry[view[p].target] = "missing" \/ Managed(entry, view[p].target))
        BY <2>0, <3>1 DEF ShimOK, Looked, Installing
      <4>3. args[p].force \in BOOLEAN
        BY DEF Options
      <4>4. WrapperFinds(entry') = view[p].gh /\ Supported(entry', view[p].gh)
        BY <3>1, <4>1, <4>2, <4>3, WrapperFindsChecked DEF Expected
      <4>5. WrapperFinds(entry)' = WrapperFinds(entry')
        BY DEF WrapperFinds
      <4> QED BY <3>3, <4>1, <4>4, <4>5 DEF ShimOK, Looked, Installing, Editing
    <3>4. CASE ~(pc'[p] = "path" /\ "shim" \notin view'[p].fixes)
      BY <3>2, <3>4 DEF ShimOK, Looked, Installing, Editing
    <3> QED BY <3>3, <3>4
  <2>5. CASE CheckPath(p)
    <3>1. /\ pc[p] = "path" /\ pc'[p] = "agent" /\ entry' = entry
          /\ view'[p] = [view[p] EXCEPT !.fixes = @ \union (IF PathFine(p) THEN {} ELSE {"current PATH"})]
      BY <2>5 DEF CheckPath, Goto
    <3>2. /\ view'[p].target = view[p].target /\ view'[p].gh = view[p].gh
          /\ view'[p].fixes = view[p].fixes \union (IF PathFine(p) THEN {} ELSE {"current PATH"})
      BY <3>1 DEF Views
    <3>3. "current PATH" \notin view'[p].fixes /\ ~args[p].dry_run => FirstGh # None /\ Managed(entry, FirstGh)
      BY <3>2 DEF PathFine
    <3>4. "shim" \notin view'[p].fixes => "shim" \notin view[p].fixes
      BY <3>2
    <3> QED BY <2>0, <3>1, <3>2, <3>3, <3>4, SameHome DEF ShimOK, Looked, Editing
  <2>6. CASE WriteAgent(p) \/ ApplyAgent(p)
    <3>1. pc[p] \in {"agent", "apply"} /\ pc'[p] \in {"apply", "finish", "error"} /\ entry' = entry /\ view' = view
      BY <2>6 DEF WriteAgent, ApplyAgent, Goto
    <3> QED BY <2>0, <3>1, SameHome DEF ShimOK, Looked, Editing
  <2>7. CASE InstallStep(p) /\ ~Inspect(p) /\ ~LookAtTarget(p) /\ ~Place(p) /\ ~CheckPath(p) /\ ~WriteAgent(p) /\ ~ApplyAgent(p)
    <3>1. pc'[p] \notin Installing \union Editing
      <4> USE <2>7 DEF Installing, Editing, Goto
      <4>1. CASE BeginInstall(p) \/ Finish(p)
        BY <4>1 DEF BeginInstall, Finish
      <4>2. CASE Gather(p) \/ Sift(p) \/ UnlinkShim(p)
        BY <4>2 DEF Gather, Sift, UnlinkShim
      <4>3. CASE OpenBox(p) \/ PutGit(p) \/ PutMarker(p)
        BY <4>3 DEF OpenBox, PutGit, PutMarker
      <4>4. CASE DropGit(p) \/ DropMarker(p) \/ DropDir(p)
        BY <4>4 DEF DropGit, DropMarker, DropDir
      <4> QED BY <2>7, <4>1, <4>2, <4>3, <4>4 DEF InstallStep
    <3> QED BY <3>1 DEF ShimOK, Looked, Installing, Editing
  <2> QED BY <2>1, <2>2, <2>3, <2>4, <2>5, <2>6, <2>7 DEF Act
<1> QED BY <1>1, <1>2

\* What is listed first is not listed in the rest.
LEMMA ListedParts ==
    ASSUME NEW T, NEW s \in Seq(T), NEW d \in Listed(s)
    PROVE  s # <<>> /\ (d = Head(s) \/ d \in Listed(Tail(s)))
<1>1. PICK i \in 1..Len(s) : d = s[i]
  BY DEF Listed
<1>2. CASE i = 1
  BY <1>1, <1>2
<1>3. CASE i # 1
  <2>1. s # <<>> /\ i - 1 \in DOMAIN Tail(s) /\ Tail(s)[i - 1] = s[i]
    BY <1>1, <1>3
  <2> QED BY <1>1, <2>1 DEF Listed
<1> QED BY <1>1, <1>2, <1>3

LEMMA SiftStep ==
    ASSUME InstallTypeOK, ViewTypes, Orders, Solo, HomeOK, UndisturbedOK, NEW p \in Procs, Act(p), NEW q \in Procs
    PROVE  SiftOK(q)'
<1> USE HomeTypes, Types
<1>0. /\ SiftOK(p) /\ PlaceOK(p) /\ UNCHANGED <<path, args>> /\ view[p] \in Views /\ DefaultDirs' = DefaultDirs
  BY Fixed DEF UndisturbedOK, HomeOK, DefaultDirs, Listed
<1> SUFFICES ASSUME Undisturbed(q)', pc'[q] \in {"sift", "unlink_shim"}, args[q].dir = None,
                    NEW d \in DefaultDirs, entry'[d] = "wrapper"
             PROVE  d \in Listed(view'[q].left)
  BY <1>0 DEF SiftOK, Listed
<1>1. q = p
  BY Undisturbing DEF Undisturbed, Running, Ended
<1> USE <1>0, <1>1
<1>2. Undisturbed(p) /\ d \in HomeDirs /\ d \in Places
  BY StillUndisturbed DEF DefaultDirs
<1>3. ASSUME pc[p] \in {"sift", "unlink_shim"}, entry[d] = "wrapper"
      PROVE  view[p].left \in Seq(Dirs) /\ view[p].left # <<>>
             /\ (d = Head(view[p].left) \/ d \in Listed(Tail(view[p].left))) /\ d \in Listed(view[p].left)
  <2>1. d \in Listed(view[p].left) /\ view[p].left \in Seq(Dirs)
    BY <1>2, <1>3 DEF SiftOK, Views
  <2> QED BY <2>1, ListedParts
<1>4. CASE Gather(p)
  <2>1. view'[p].left = <<Local>> \o path
    BY <1>4 DEF Gather, Goto, Views
  <2>2. d = Local \/ \E i \in 1..Len(path) : d = path[i]
    BY DEF DefaultDirs, Listed
  <2>3. (<<Local>> \o path)[1] = Local /\ 1 \in DOMAIN (<<Local>> \o path)
    OBVIOUS
  <2>4. ASSUME NEW i \in 1..Len(path) PROVE (<<Local>> \o path)[i + 1] = path[i] /\ i + 1 \in DOMAIN (<<Local>> \o path)
    OBVIOUS
  <2> QED BY <2>1, <2>2, <2>3, <2>4 DEF Listed
<1>5. CASE Sift(p)
  <2>1. pc[p] = "sift" /\ entry' = entry
    BY <1>5 DEF Sift
  <2>2. CASE view' = view
    BY <1>3, <2>1, <2>2
  <2>3. CASE view' # view
    <3>1. view'[p].left = Tail(view[p].left) /\ ~(Head(view[p].left) \in HomeDirs /\ entry[Head(view[p].left)] = "wrapper")
      BY <1>5, <2>3 DEF Sift, Views
    <3> QED BY <1>2, <1>3, <2>1, <3>1
  <2> QED BY <2>2, <2>3
<1>6. CASE UnlinkShim(p)
  <2>1. /\ pc[p] = "unlink_shim" /\ entry' = [entry EXCEPT ![Doomed(p)] = "missing"]
        /\ view'[p].left = IF view[p].left = <<>> THEN view[p].left ELSE Tail(view[p].left)
    <3>1. pc[p] = "unlink_shim" /\ pc'[p] # "error"
      BY <1>6 DEF UnlinkShim
    <3>2. /\ entry' = [entry EXCEPT ![Doomed(p)] = "missing"]
          /\ view' = [view EXCEPT ![p].left = IF view[p].left = <<>> THEN view[p].left ELSE Tail(view[p].left),
                                  ![p].done = TRUE]
      BY <1>6, <3>1 DEF UnlinkShim, Doomed, Goto
    <3> QED BY <3>1, <3>2 DEF Views
  <2>2. d # Doomed(p) /\ entry[d] = "wrapper"
    BY <1>2, <2>1 DEF Entries
  <2> QED BY <1>3, <2>1, <2>2 DEF Doomed
<1>7. CASE ~Gather(p) /\ ~Sift(p) /\ ~UnlinkShim(p)
  <2> SUFFICES pc'[p] \notin {"sift", "unlink_shim"}
    OBVIOUS
  <2> USE <1>7 DEF Goto
  <2>1. CASE Step(p)
    BY <2>1 DEF Step, Start, Begin, Obtain, Load, Reread, Replace, AfterAddHost, Save, Forget, Write, Erase, Unlink,
         Publish, Crash, Fails
  <2>2. CASE BeginInstall(p) \/ Inspect(p)
    BY <2>2 DEF BeginInstall, Inspect
  <2>3. CASE LookAtTarget(p) \/ Place(p)
    BY <2>3 DEF LookAtTarget, Place, Refuse
  <2>4. CASE CheckPath(p) \/ WriteAgent(p) \/ ApplyAgent(p) \/ Finish(p)
    BY <2>4 DEF CheckPath, WriteAgent, ApplyAgent, Finish
  <2>5. CASE OpenBox(p) \/ PutGit(p) \/ PutMarker(p)
    BY <2>5 DEF OpenBox, PutGit, PutMarker
  <2>6. CASE DropGit(p) \/ DropMarker(p) \/ DropDir(p)
    BY <2>6 DEF DropGit, DropMarker, DropDir
  <2> QED BY <2>1, <2>2, <2>3, <2>4, <2>5, <2>6 DEF Act, InstallStep
<1> QED BY <1>4, <1>5, <1>6, <1>7

(***************************************************************************)
(* How far a command has got on the stores                                 *)
(***************************************************************************)

\* What is known of a command that runs by itself.
Calm(p) == InstallTypeOK /\ ViewTypes /\ OrderOK(p) /\ ProgressOK(p) /\ MissingIsEmpty /\ Alone(p)

\* Stores nobody writes.
LEMMA SameStores ==
    ASSUME UNCHANGED <<onMac, keychain, auth, config>>
    PROVE  StoredToken' = StoredToken /\ Allowed' = Allowed
BY DEF StoredToken, Stored, FileToken, Allowed, AllowedBy

\* What a command found is not written over while it runs.
LEMMA SameThen ==
    ASSUME NEW p \in Procs, before' = before, cmd' = cmd
    PROVE  /\ AllowedThen(p)' = AllowedThen(p) /\ TokensThen(p)' = TokensThen(p) /\ Edited(p)' = Edited(p)
           /\ With(p, p)' = With(p, p)
BY DEF AllowedThen, TokensThen, Edited, With

LEMMA ThenTypes ==
    ASSUME TypeOK, NEW p \in Procs
    PROVE  TokensThen(p) \in [Hosts -> Token] /\ AllowedThen(p) \subseteq Hosts /\ StoredToken \in [Hosts -> Token]
BY Types, FileTypes DEF TokensThen, AllowedThen, Book

LEMMA ProgressBegin ==
    ASSUME InstallTypeOK, ViewTypes, NEW p \in Procs, Start(p) \/ BeginInstall(p)
    PROVE  ProgressOK(p)'
<1> USE HomeTypes, Types
<1>1. /\ Begin(p) /\ cmd' = cmd /\ UNCHANGED <<onMac, keychain, auth, config>>
  BY DEF Start, BeginInstall, Begin, stores
<1>2. AllowedThen(p)' = Allowed /\ TokensThen(p)' = StoredToken
  BY <1>1, BeginTypes DEF AllowedThen, TokensThen
<1>3. Untouched(p)'
  BY <1>1, <1>2, SameStores DEF Untouched
<1>4. /\ pc'[p] \in {"obtain", "forget", "load", "inspect", "gather", "open"}
      /\ pc'[p] = "load" => cmd[p].op # "bootstrap"
  BY DEF Start, BeginInstall, Goto, Ops, Logins
<1> QED BY <1>1, <1>3, <1>4 DEF ProgressOK, Editing, Clearing, Looked, Installing

LEMMA ProgressObtain ==
    ASSUME NEW p \in Procs, Calm(p), Obtain(p)
    PROVE  ProgressOK(p)'
<1>1. /\ pc[p] = "obtain" /\ pc'[p] \in {"load", "error"} /\ cmd' = cmd /\ before' = before
      /\ UNCHANGED <<onMac, keychain, auth, config>> /\ cmd[p].op \in Logins
  BY HomeTypes, Types DEF Calm, Obtain, Goto, stores, history, OrderOK
<1>2. Untouched(p)'
  BY <1>1, SameStores, SameThen DEF Calm, ProgressOK, Untouched
<1>3. cmd'[p].op # "bootstrap"
  BY <1>1 DEF Logins
<1> QED BY <1>1, <1>2, <1>3 DEF ProgressOK, Editing, Clearing, Looked, Installing

\* bootstrap's plan, while it goes on.
PlanOK(p) ==
    cmd[p].op = "bootstrap" /\ Looked(p)
      => /\ view[p].plan = "allowlist" => cmd[p].host \notin checkout.yml
         /\ pc[p] \in Editing => view[p].plan = "allowlist" /\ ~args[p].dry_run

LEMMA ProgressLoad ==
    ASSUME NEW p \in Procs, Calm(p), Load(p), UNCHANGED installs
    PROVE  ProgressOK(p)'
<1> USE HomeTypes, Types DEF Calm
<1>1. /\ pc[p] = "load" /\ pc'[p] \in {"reread", "error"} /\ cmd' = cmd /\ before' = before
      /\ UNCHANGED <<onMac, keychain, auth, config, view, args, checkout>>
  BY DEF Load, Goto, stores, history, installs
<1>0. ASSUME pc'[p] = "reread"
      PROVE  /\ ~config.corrupt /\ ~loaded'[p].corrupt
             /\ loaded'[p].listed = IF cmd[p].op = "remove" THEN Allowed \ {cmd[p].host} ELSE Allowed \union {cmd[p].host}
  <2>1. ~config.corrupt
    BY <1>0 DEF Load, Goto
  <2> QED BY <2>1 DEF Load
<1>2. Untouched(p)' /\ Untouched(p)
  BY <1>1, SameStores, SameThen DEF ProgressOK, Untouched, Editing
<1>3. pc'[p] = "reread" => ~config'.corrupt /\ ~loaded'[p].corrupt /\ loaded'[p].listed = Edited(p)'
  BY <1>0, <1>1, <1>2, SameThen DEF Edited, Untouched
<1>4. PlanOK(p)'
  BY <1>1 DEF PlanOK, ProgressOK, Looked, Installing, Editing
<1> QED BY <1>1, <1>2, <1>3, <1>4 DEF ProgressOK, PlanOK, Editing, Clearing, Looked, Installing

LEMMA ProgressReread ==
    ASSUME NEW p \in Procs, Calm(p), Reread(p), UNCHANGED installs
    PROVE  ProgressOK(p)'
<1> USE HomeTypes, Types DEF Calm
<1>1. /\ pc[p] = "reread" /\ pc'[p] \in {"replace", "error"} /\ cmd' = cmd /\ before' = before
      /\ UNCHANGED <<onMac, keychain, auth, config, view, args, checkout>>
  BY DEF Reread, Fails, Goto, stores, history, installs
<1>0. ASSUME pc'[p] = "replace"
      PROVE  /\ ~config.corrupt /\ ~loaded'[p].corrupt /\ loaded'[p].listed = loaded[p].listed
             /\ loaded'[p].tables = IF cmd[p].op = "remove" THEN config.tables \ {cmd[p].host} ELSE config.tables
  <2>1. /\ ~config.corrupt
        /\ loaded' = [loaded EXCEPT ![p] =
               [corrupt |-> FALSE, listed |-> loaded[p].listed,
                tables |-> IF cmd[p].op = "remove" THEN config.tables \ {cmd[p].host} ELSE config.tables]]
    BY <1>0 DEF Reread, Fails, Goto
  <2> QED BY <2>1
<1>2. Untouched(p)' /\ Untouched(p) /\ loaded[p].listed = Edited(p)
  BY <1>1, SameStores, SameThen DEF ProgressOK, Untouched, Editing
<1>3. Edited(p)' = Edited(p)
  BY <1>1, SameThen
<1>4. pc'[p] = "replace" => AllowedBy(loaded'[p]) = Edited(p)
  BY <1>0, <1>2 DEF Edited, Untouched, Allowed, AllowedBy
<1>5. PlanOK(p)'
  BY <1>1 DEF PlanOK, ProgressOK, Looked, Installing, Editing
<1>6. AllowedBy(loaded[p])' = AllowedBy(loaded'[p])
  BY DEF AllowedBy
<1> QED BY <1>0, <1>1, <1>2, <1>3, <1>4, <1>5, <1>6 DEF ProgressOK, PlanOK, Editing, Clearing, Looked, Installing

LEMMA ProgressReplace ==
    ASSUME NEW p \in Procs, Calm(p), Replace(p), UNCHANGED installs
    PROVE  ProgressOK(p)'
<1> USE HomeTypes, Types DEF Calm
<1>1. /\ pc[p] = "replace" /\ pc'[p] \in {"save", "look", "ok", "error"} /\ cmd' = cmd /\ before' = before
      /\ UNCHANGED <<onMac, keychain, auth, view, args, checkout>>
      /\ pc'[p] \in {"save", "look"} => config' = loaded[p]
  BY DEF Replace, AfterAddHost, Fails, Goto, stores, history, installs
<1>2. Untouched(p) /\ AllowedBy(loaded[p]) = Edited(p)
  BY <1>1 DEF ProgressOK, Editing
<1>3. pc'[p] \in {"save", "look"} => Allowed' = Edited(p)'
  BY <1>1, <1>2, SameThen DEF Allowed
<1>4. StoredToken' = TokensThen(p)'
  BY <1>1, <1>2, SameThen DEF StoredToken, Stored, FileToken, Untouched
<1>5. PlanOK(p)' /\ (pc'[p] = "look" /\ cmd[p].op = "bootstrap" => view'[p].plan = "allowlist" /\ ~args'[p].dry_run)
  BY <1>1 DEF PlanOK, ProgressOK, Looked, Installing, Editing
<1>6. cmd[p].op # "logout"
  BY <1>1 DEF OrderOK, Editing, Logins
<1> QED BY <1>1, <1>3, <1>4, <1>5, <1>6 DEF ProgressOK, PlanOK, Editing, Clearing, Looked, Installing

LEMMA ProgressSave ==
    ASSUME NEW p \in Procs, Calm(p), Save(p)
    PROVE  ProgressOK(p)'
<1> USE HomeTypes, Types DEF Calm
<1>1. /\ pc[p] = "save" /\ cmd' = cmd /\ before' = before /\ UNCHANGED <<onMac, auth, config>> /\ cmd[p].op \in Logins
      /\ \/ pc'[p] = "erase" /\ onMac /\ keychain' = [keychain EXCEPT ![cmd[p].host] = p]
         \/ pc'[p] = "write" /\ keychain' = keychain /\ (onMac => p \in refused')
  BY DEF Save, Goto, stores, OrderOK
<1>2. Allowed' = Allowed
  BY <1>1 DEF Allowed, AllowedBy
<1>3. StoredToken = TokensThen(p) /\ Allowed = Edited(p) /\ cmd[p].op \notin {"logout", "bootstrap"}
  BY <1>1 DEF ProgressOK, Logins
<1>4. CASE pc'[p] = "erase" /\ onMac /\ keychain' = [keychain EXCEPT ![cmd[p].host] = p]
  <2>1. p # None /\ cmd[p].host \in Hosts /\ p \in Token
    BY StoresAssumption DEF Token
  <2>3. StoredToken' = [h \in Hosts |-> IF h = cmd[p].host THEN p ELSE Stored(keychain, auth, h)]
    BY <1>1, <1>4, <2>1 DEF StoredToken, Stored, FileToken
  <2>4. StoredToken' = [StoredToken EXCEPT ![cmd[p].host] = p]
    BY <2>3 DEF StoredToken
  <2>5. StoredToken' = With(p, p)'
    BY <1>1, <1>3, <2>4, SameThen DEF With
  <2>6. Cleared(p)'
    BY <1>1, <1>3, <1>4, <2>1, <2>5 DEF Cleared
  <2> QED BY <1>1, <1>2, <1>3, <1>4, <2>6, SameThen DEF ProgressOK, Editing, Clearing
<1>5. CASE pc'[p] = "write" /\ keychain' = keychain /\ (onMac => p \in refused')
  <2>1. Falling(p)'
    BY <1>1, <1>3, <1>5, SameStores, SameThen DEF Falling
  <2> QED BY <1>1, <1>2, <1>3, <1>5, <2>1, SameThen DEF ProgressOK, Editing, Clearing
<1> QED BY <1>1, <1>4, <1>5

LEMMA ProgressForget ==
    ASSUME NEW p \in Procs, Calm(p), Forget(p)
    PROVE  ProgressOK(p)'
<1> USE HomeTypes, Types DEF Calm
<1>1. /\ pc[p] = "forget" /\ pc'[p] = "erase" /\ cmd' = cmd /\ before' = before /\ UNCHANGED <<onMac, auth, config>>
      /\ cmd[p].op = "logout" /\ \A g \in Hosts \ {cmd[p].host} : keychain'[g] = keychain[g]
      /\ (onMac /\ keychain'[cmd[p].host] # None => p \in refused')
  BY DEF Forget, Goto, OrderOK
<1>2. Untouched(p) /\ Allowed' = Allowed
  BY <1>1 DEF ProgressOK, Allowed, AllowedBy
<1>3. ASSUME NEW g \in Hosts \ {cmd[p].host} PROVE StoredToken'[g] = TokensThen(p)[g]
  <2>1. StoredToken'[g] = StoredToken[g]
    BY <1>1, <1>3 DEF StoredToken, Stored, FileToken
  <2> QED BY <1>2, <2>1 DEF Untouched
<1>4. Cleared(p)'
  BY <1>1, <1>3, SameThen DEF Cleared
<1> QED BY <1>1, <1>2, <1>4, SameThen DEF ProgressOK, Untouched, Editing, Clearing

LEMMA ProgressWrite ==
    ASSUME NEW p \in Procs, Calm(p), Write(p)
    PROVE  ProgressOK(p)'
<1> USE HomeTypes, Types DEF Calm
<1>1. /\ pc[p] = "write" /\ cmd' = cmd /\ before' = before /\ UNCHANGED <<onMac, keychain, auth, config, refused>>
      /\ cmd[p].op \in Logins
      /\ \/ pc'[p] = "error"
         \/ /\ pc'[p] = "publish" /\ auth.state \in {"missing", "whole"} /\ read'[p].state = "whole"
            /\ read'[p].of = [auth.of EXCEPT ![cmd[p].host] = p]
  BY DEF Write, Fails, Goto, stores, history, OrderOK
<1>2. Falling(p) /\ Allowed = Edited(p) /\ cmd[p].op \notin {"logout", "bootstrap"}
  BY <1>1 DEF ProgressOK, Logins
<1>3. Falling(p)' /\ Allowed' = Edited(p)'
  BY <1>1, <1>2, SameStores, SameThen DEF Falling
<1> QED BY <1>1, <1>2, <1>3 DEF ProgressOK, Editing, Clearing

LEMMA ProgressErase ==
    ASSUME NEW p \in Procs, Calm(p), Erase(p)
    PROVE  ProgressOK(p)'
<1> USE HomeTypes, Types DEF Calm
<1>1. /\ pc[p] = "erase" /\ cmd' = cmd /\ before' = before /\ UNCHANGED <<onMac, keychain, auth, config, refused>>
      /\ cmd[p].op \in Logins \union {"logout"}
      /\ \/ pc'[p] \in {"error", "ok"}
         \/ pc'[p] = "unlink" /\ auth.state = "whole" /\ [auth.of EXCEPT ![cmd[p].host] = None] = NoTokens
         \/ /\ pc'[p] = "publish" /\ auth.state = "whole" /\ read'[p].state = "whole"
            /\ read'[p].of = [auth.of EXCEPT ![cmd[p].host] = None]
  BY DEF Erase, Fails, Goto, stores, history, OrderOK, Clearing
<1>2. /\ Cleared(p) /\ Allowed = (IF cmd[p].op = "logout" THEN AllowedThen(p) ELSE Edited(p))
      /\ cmd[p].op # "bootstrap"
  BY <1>1 DEF ProgressOK, Logins, Clearing
<1>3. /\ Cleared(p)' /\ Allowed' = (IF cmd[p].op = "logout" THEN AllowedThen(p)' ELSE Edited(p)')
      /\ NoTokens' = NoTokens
  BY <1>1, <1>2, SameStores, SameThen DEF Cleared, NoTokens
<1> QED BY <1>1, <1>2, <1>3 DEF ProgressOK, Editing, Clearing

LEMMA ProgressInspect ==
    ASSUME NEW p \in Procs, Calm(p), Inspect(p)
    PROVE  ProgressOK(p)'
<1> USE HomeTypes, Types DEF Calm
<1>1. /\ pc[p] = "inspect" /\ pc'[p] \in {"load", "look", "error"} /\ before' = before /\ UNCHANGED <<args, checkout>>
      /\ UNCHANGED <<onMac, keychain, auth, config>> /\ cmd'[p].op = cmd[p].op
  <2>1. pc'[p] \in {"load", "look", "error"}
    BY DEF Inspect, Goto
  <2>2. cmd'[p].op = cmd[p].op
    BY OpKept DEF Act, InstallStep
  <2> QED BY <2>1, <2>2 DEF Inspect, stores, history, World
<1>2. Untouched(p)' /\ Untouched(p)
  <2>1. AllowedThen(p)' = AllowedThen(p) /\ TokensThen(p)' = TokensThen(p)
    BY <1>1 DEF AllowedThen, TokensThen
  <2> QED BY <1>1, <2>1, SameStores DEF ProgressOK, Untouched
<1>3. CASE pc'[p] = "error"
  BY <1>1, <1>3 DEF ProgressOK, Editing, Clearing, Looked, Installing
<1>4. CASE pc'[p] # "error" /\ cmd[p].op = "bootstrap"
  <2>1. /\ view'[p].plan = Plan(Allowed).plan
        /\ pc'[p] = IF Plan(Allowed).plan = "allowlist" /\ ~args[p].dry_run THEN "load" ELSE "look"
        /\ Plan(Allowed).plan = "allowlist" => cmd' = [cmd EXCEPT ![p].host = Plan(Allowed).host]
    BY <1>4, InspectView
  <2>2. Plan(Allowed).plan = "allowlist" => cmd'[p].host \notin checkout.yml
    BY <2>1, PlanTypes
  <2> HIDE DEF Calm
  <2> QED BY <1>1, <1>2, <2>1, <2>2 DEF ProgressOK, Untouched, Editing, Clearing, Looked, Installing
<1>5. CASE pc'[p] # "error" /\ cmd[p].op # "bootstrap"
  BY <1>1, <1>2, <1>5 DEF ProgressOK, Editing, Clearing, Looked, Installing
<1> QED BY <1>3, <1>4, <1>5

\* The installers' steps after the look leave the stores and the plan as they are.
LEMMA ProgressInstall ==
    ASSUME NEW p \in Procs, Calm(p), InstallStep(p), ~BeginInstall(p), ~Inspect(p)
    PROVE  ProgressOK(p)'
<1> USE HomeTypes, Types DEF Calm
<1>1. /\ UNCHANGED <<onMac, keychain, auth, config, cmd, args, checkout>> /\ before' = before
      /\ pc'[p] \in (Ended \union InstallPlaces) \ {"inspect"}
  <2>1. before' = before
    <3>1. ~Begin(p)
      BY DEF InstallStep, Begin, LookAtTarget, Place, CheckPath, WriteAgent, ApplyAgent, Finish, Gather, Sift,
           UnlinkShim, OpenBox, PutGit, PutMarker, DropGit, DropMarker, DropDir
    <3> QED BY <3>1, InstallMoves
  <2>2. pc'[p] \in (Ended \union InstallPlaces) \ {"inspect"}
    <3> USE DEF Goto, InstallPlaces, Ended
    <3>1. CASE LookAtTarget(p) \/ Place(p)
      BY <3>1 DEF LookAtTarget, Place, Refuse
    <3>2. CASE CheckPath(p) \/ WriteAgent(p) \/ ApplyAgent(p) \/ Finish(p)
      BY <3>2 DEF CheckPath, WriteAgent, ApplyAgent, Finish
    <3>3. CASE Gather(p) \/ Sift(p) \/ UnlinkShim(p)
      BY <3>3 DEF Gather, Sift, UnlinkShim
    <3>4. CASE OpenBox(p) \/ PutGit(p) \/ PutMarker(p)
      BY <3>4 DEF OpenBox, PutGit, PutMarker
    <3>5. CASE DropGit(p) \/ DropMarker(p) \/ DropDir(p)
      BY <3>5 DEF DropGit, DropMarker, DropDir
    <3> QED BY <3>1, <3>2, <3>3, <3>4, <3>5 DEF InstallStep
  <2> QED BY <2>1, <2>2, InstallMoves
<1>2. Allowed' = Allowed /\ AllowedThen(p)' = AllowedThen(p) /\ Edited(p)' = Edited(p)
  BY <1>1, SameStores, SameThen
<1>3. cmd[p].op = "bootstrap" /\ Looked(p)' => pc[p] \in Installing /\ view'[p].plan = view[p].plan
  <2>1. CASE LookAtTarget(p) \/ Place(p) \/ CheckPath(p) \/ WriteAgent(p) \/ ApplyAgent(p) \/ Finish(p)
    <3>1. pc[p] \in Installing
      BY <2>1 DEF LookAtTarget, Place, CheckPath, WriteAgent, ApplyAgent, Finish, Installing
    <3>2. view' = view \/ \E more : view' = [view EXCEPT ![p].fixes = @ \union more]
      BY <2>1 DEF LookAtTarget, Place, Refuse, CheckPath, WriteAgent, ApplyAgent, Finish
    <3>3. view'[p].plan = view[p].plan
      BY <3>2 DEF Views
    <3> QED BY <3>1, <3>3
  <2>2. CASE Gather(p) \/ Sift(p) \/ UnlinkShim(p)
    <3>1. cmd[p].op = "uninstall"
      BY <2>2 DEF OrderOK, Gather, Sift, UnlinkShim
    <3> QED BY <3>1
  <2>3. CASE OpenBox(p) \/ PutGit(p) \/ PutMarker(p) \/ DropGit(p) \/ DropMarker(p) \/ DropDir(p)
    <3>1. pc'[p] \in {"put_git", "put_marker", "drop_git", "drop_marker", "drop_dir", "ok", "error"}
      BY <2>3 DEF OpenBox, PutGit, PutMarker, DropGit, DropMarker, DropDir, Goto
    <3> QED BY <3>1 DEF Looked, Installing, Editing
  <2> QED BY <2>1, <2>2, <2>3 DEF InstallStep
<1>4. CASE cmd[p].op = "bootstrap" /\ Looked(p)'
  BY <1>1, <1>2, <1>3, <1>4 DEF ProgressOK, Editing, Clearing, Looked, Installing, Ended, InstallPlaces
<1>5. CASE ~(cmd[p].op = "bootstrap" /\ Looked(p)')
  BY <1>1, <1>5 DEF ProgressOK, Editing, Clearing, Ended, InstallPlaces
<1> QED BY <1>4, <1>5

LEMMA ProgressStep ==
    ASSUME InstallTypeOK, ViewTypes, Orders, Solo, StoresOK, UndisturbedOK, NEW p \in Procs, Act(p), NEW q \in Procs
    PROVE  ProgressOK(q)'
<1> SUFFICES ASSUME Alone(q)' PROVE ProgressOK(q)'
  BY DEF ProgressOK
<1>1. CASE q # p
  <2>1. q \notin Running'
    BY <1>1, Undisturbing
  <2> QED BY <2>1 DEF ProgressOK, Running, Ended, Looked, Installing, Editing, Clearing
<1>2. CASE q = p
  <2>1. Calm(p)
    BY <1>2, HomeTypes, StillUndisturbed DEF Calm, Orders, UndisturbedOK, StoresOK
  <2>2. CASE Step(p) /\ UNCHANGED installs
    <3>1. CASE Start(p) \/ Obtain(p) \/ Load(p) \/ Reread(p) \/ Replace(p)
      BY <1>2, <2>1, <2>2, <3>1, ProgressBegin, ProgressObtain, ProgressLoad, ProgressReread, ProgressReplace
    <3>2. CASE Save(p) \/ Forget(p) \/ Write(p) \/ Erase(p)
      BY <1>2, <2>1, <3>2, ProgressSave, ProgressForget, ProgressWrite, ProgressErase
    <3>3. CASE Unlink(p) \/ Publish(p) \/ Crash(p)
      <4>1. pc'[p] \in Ended
        BY <3>3, HomeTypes, Types DEF Unlink, Publish, Crash, Fails, Goto, Ended
      <4> QED BY <1>2, <4>1 DEF ProgressOK, Ended, Looked, Installing, Editing, Clearing
    <3> QED BY <2>2, <3>1, <3>2, <3>3 DEF Step
  <2>3. CASE InstallStep(p)
    BY <1>2, <2>1, <2>3, ProgressBegin, ProgressInspect, ProgressInstall
  <2> QED BY <2>2, <2>3 DEF Act
<1> QED BY <1>1, <1>2

(***************************************************************************)
(* The invariant holds throughout                                          *)
(***************************************************************************)

LEMMA InitTypes == ASSUME GfjInit PROVE InstallTypeOK /\ ViewTypes
<1> USE InstallAssumption DEF GfjInit, Init, InitStores, InitCommands, InitInstall
<1>1. None \in Token /\ Old \in Token /\ NoTokens \in Book /\ [Hosts -> {Old, None}] \subseteq Book
  BY DEF Token, Book, NoTokens
<1>2. onMac \in BOOLEAN /\ keychain \in Book
  BY <1>1
<1>3. auth \in AuthFile
  BY <1>1 DEF AuthFile, NoAuthFile
<1>4. config \in ConfigFile
  <2>1. CASE config \in [corrupt: {FALSE}, listed: SUBSET Hosts, tables: SUBSET Hosts]
    BY <2>1 DEF ConfigFile
  <2>2. CASE config = [corrupt |-> TRUE, listed |-> {}, tables |-> {}]
    <3>1. TRUE \in BOOLEAN /\ {} \in SUBSET Hosts
      OBVIOUS
    <3> QED BY <2>2, <3>1 DEF ConfigFile
  <2> QED BY <2>1, <2>2
<1>5. cmd \in [Procs -> Commands] /\ litter \subseteq Procs
  OBVIOUS
<1>6. pc \in [Procs -> Spots] /\ read \in [Procs -> AuthFile] /\ loaded \in [Procs -> ConfigFile]
  BY <1>1 DEF Spots, AuthFile, NoAuthFile, ConfigFile, NoConfig
<1>7. StoredToken \in Book /\ auth.of \in Book /\ Allowed \subseteq Hosts
  <2>1. keychain \in [Hosts -> Token] /\ auth.of \in [Hosts -> Token]
    BY <1>2, <1>3 DEF Book, AuthFile
  <2>2. ASSUME NEW h \in Hosts PROVE Stored(keychain, auth, h) \in Token
    BY <1>1, <2>1 DEF Stored, FileToken
  <2>3. config.listed \subseteq Hosts /\ config.tables \subseteq Hosts
    BY <1>4 DEF ConfigFile
  <2> QED BY <2>1, <2>2, <2>3 DEF StoredToken, Book, Allowed, AllowedBy
<1>8. before \in [Procs -> [tokens: Book, held: Book, allowed: SUBSET Hosts]]
  BY <1>7
<1>9. TypeOK
  BY <1>2, <1>3, <1>4, <1>5, <1>6, <1>8, StoresAssumption DEF TypeOK, Spots
<1>10. path \in Seq(Dirs)
  <2>1. Cardinality(Dirs) \in Nat
    BY FS_Union, FS_CardinalityType DEF Dirs
  <2>2. path \in BoundedSeq(Dirs, Cardinality(Dirs))
    OBVIOUS
  <2>3. \E n \in 0..Cardinality(Dirs) : path \in [1..n -> Dirs]
    BY <2>2 DEF BoundedSeq, SeqOf
  <2> QED BY <2>1, <2>3
<1>11. Listed(path) \subseteq Dirs
  BY <1>10 DEF Listed
<1>12. NoView \in Views
  BY DEF NoView, Views, Plans
<1>13. view \in [Procs -> Views] /\ \A p \in Procs : view[p].fixes \subseteq Fixes
  BY <1>12 DEF NoView
<1>14. box \in Box
  <2>1. FALSE \in BOOLEAN
    OBVIOUS
  <2>2. NoBox \in Box
    BY <2>1 DEF Box, NoBox
  <2>3. box \in {b \in Box : b.dir} \union {NoBox}
    OBVIOUS
  <2> HIDE DEF GfjInit, Init, InitStores, InitCommands, InitInstall
  <2> QED BY <2>2, <2>3
<1>15. entry \in [Places -> Files \union Places] /\ users \in 0..MaxUser /\ raced \subseteq Procs /\ defaults \subseteq HomeDirs
  OBVIOUS
<1> QED BY <1>9, <1>10, <1>11, <1>13, <1>14, <1>15 DEF InstallTypeOK, ViewTypes, Fixes

LEMMA Initially == ASSUME GfjInit PROVE IInv
<1>1. InstallTypeOK /\ ViewTypes
  BY InitTypes
<1> USE DEF GfjInit, Init, InitStores, InitCommands, InitInstall
<1>2. \A p \in Procs : pc[p] = "ready" /\ p \notin litter /\ p \notin Running
  BY DEF Running
<1>3. Orders
  BY <1>2 DEF Orders, OrderOK, Editing, Clearing, Installing, Recording
<1>4. Solo
  BY <1>2 DEF Solo, Running
<1>5. StoresOK
  <2>1. MissingIsEmpty
    BY DEF MissingIsEmpty, NoAuthFile
  <2>2. Kept
    BY DEF Kept
  <2> QED BY <1>2, <2>1, <2>2 DEF StoresOK, WriterOK, EditorOK
<1>6. HomeOK
  <2>1. \A p \in Procs : view[p].target = None
    BY DEF NoView
  <2>2. box.dir \/ box = NoBox
    OBVIOUS
  <2>3. \A p \in Procs : PlaceOK(p) /\ BoxOK(p)
    BY <1>2, <2>1 DEF PlaceOK, BoxOK, Looked, Installing, Editing
  <2> QED BY <2>2, <2>3 DEF HomeOK
<1>7. UndisturbedOK
  BY <1>2 DEF UndisturbedOK, ShimOK, SiftOK, ProgressOK, Looked, Installing, Editing, Clearing
<1> QED BY <1>1, <1>3, <1>4, <1>5, <1>6, <1>7 DEF IInv

LEMMA ActStep == ASSUME IInv, NEW p \in Procs, Act(p) PROVE IInv'
<1> USE DEF IInv
<1>1. InstallTypeOK' /\ ViewTypes'
  BY HomeTypeStep
<1>2. Orders'
  BY OrderStep DEF Orders
<1>3. Solo'
  BY SoloStep
<1>4. StoresOK' /\ HomeOK'
  BY StoresStep, HomeStep
<1>5. UndisturbedOK'
  <2>1. ASSUME NEW q \in Procs PROVE ShimOK(q)' /\ SiftOK(q)' /\ ProgressOK(q)'
    BY ShimStep, SiftStep, ProgressStep
  <2> QED BY <2>1 DEF UndisturbedOK
<1> QED BY <1>1, <1>2, <1>3, <1>4, <1>5

\* What the user does changes nothing else, and disturbs whatever runs.
LEMMA UserStep == ASSUME IInv, User PROVE IInv'
<1> USE DEF IInv
<1>0. /\ UNCHANGED <<stores, cmd, pc, locals, history, path, paths_gh, checkout, args, view>>
      /\ raced' = raced \union Running
  BY DEF User, Same, World
<1> USE <1>0 DEF stores, locals, history
<1>1. InstallTypeOK' /\ ViewTypes' /\ HomeOK'
  BY UserTypes, UserHome
<1>2. Orders' /\ Solo'
  BY DEF Orders, OrderOK, Solo, Running
<1>3. StoredToken' = StoredToken /\ Allowed' = Allowed /\ Unnamed' = Unnamed
  BY SameStores DEF Unnamed, Acting
<1>4. StoresOK'
  <2>1. MissingIsEmpty' /\ Kept'
    BY <1>3 DEF StoresOK, MissingIsEmpty, NoTokens, Kept
  <2>2. \A q \in Procs : WriterOK(q)' /\ EditorOK(q)'
    BY <1>3 DEF StoresOK, WriterOK, EditorOK
  <2> QED BY <2>1, <2>2 DEF StoresOK
<1>5. UndisturbedOK'
  <2> SUFFICES ASSUME NEW q \in Procs PROVE ShimOK(q)' /\ SiftOK(q)' /\ ProgressOK(q)'
    BY DEF UndisturbedOK
  <2>1. Undisturbed(q)' => q \notin Running
    BY DEF Undisturbed
  <2>2. ShimOK(q)' /\ SiftOK(q)'
    BY <2>1 DEF ShimOK, SiftOK, Running, Ended, Looked, Installing, Editing
  <2>3. ProgressOK(q)'
    <3>1. ProgressOK(q)
      BY DEF UndisturbedOK
    <3>2. /\ (Untouched(q)' <=> Untouched(q)) /\ Edited(q)' = Edited(q) /\ AllowedThen(q)' = AllowedThen(q)
          /\ TokensThen(q)' = TokensThen(q) /\ With(q, q)' = With(q, q)
      BY <1>3, SameThen DEF Untouched
    <3>3. (Cleared(q)' <=> Cleared(q)) /\ (Falling(q)' <=> Falling(q)) /\ (Looked(q)' <=> Looked(q))
      BY <1>3, <3>2 DEF Cleared, Falling, Looked
    <3>4. AllowedBy(loaded[q])' = AllowedBy(loaded[q]) /\ NoTokens' = NoTokens /\ (Alone(q)' <=> Alone(q))
      BY DEF AllowedBy, NoTokens, Alone
    <3> QED BY <1>3, <3>1, <3>2, <3>3, <3>4 DEF ProgressOK
  <2> QED BY <2>2, <2>3
<1> QED BY <1>1, <1>2, <1>4, <1>5

\* The invariant holds throughout.
THEOREM Invariance == GfjSpec => []IInv
<1>1. GfjInit => IInv
  BY Initially
<1>2. IInv /\ [GfjNext]_<<vars, installs>> => IInv'
  <2> SUFFICES ASSUME IInv, [GfjNext]_<<vars, installs>> PROVE IInv'
    OBVIOUS
  <2>1. CASE GfjNext
    <3>1. CASE User
      BY <3>1, UserStep
    <3>2. CASE ~User
      <4>1. PICK p \in Procs : Act(p)
        BY <2>1, <3>2 DEF GfjNext, Act
      <4> QED BY <4>1, ActStep
    <3> QED BY <3>1, <3>2
  <2>2. CASE UNCHANGED <<vars, installs>>
    <3> USE <2>2 DEF IInv, vars, installs, stores, locals, history
    <3>1. InstallTypeOK' /\ ViewTypes'
      <4>1. TypeOK'
        BY DEF InstallTypeOK, TypeOK
      <4> QED BY <4>1 DEF InstallTypeOK, ViewTypes, Listed
    <3>2. Orders' /\ Solo'
      BY DEF Orders, OrderOK, Solo, Running
    <3>3. StoredToken' = StoredToken /\ Allowed' = Allowed /\ Unnamed' = Unnamed
      BY SameStores DEF Unnamed, Acting
    <3>4. MissingIsEmpty' /\ Kept'
      BY <3>3 DEF StoresOK, MissingIsEmpty, NoTokens, Kept
    <3>5. ASSUME NEW q \in Procs PROVE WriterOK(q)' /\ EditorOK(q)'
      BY <3>3 DEF StoresOK, WriterOK, EditorOK
    <3>6. HomeOK'
      BY DEF HomeOK, PlaceOK, BoxOK, Looked, DefaultDirs, Doomed, Listed, NoBox
    <3>7. ASSUME NEW q \in Procs PROVE ShimOK(q)' /\ SiftOK(q)' /\ ProgressOK(q)'
      <4>0. ShimOK(q) /\ SiftOK(q) /\ ProgressOK(q) /\ (Looked(q)' <=> Looked(q))
            /\ (Alone(q)' <=> Alone(q)) /\ (Undisturbed(q)' <=> Undisturbed(q)) /\ DefaultDirs' = DefaultDirs
        BY DEF UndisturbedOK, Looked, Alone, Undisturbed, DefaultDirs, Listed
      <4>1. ShimOK(q)' /\ SiftOK(q)'
        BY <4>0, SameHome DEF ShimOK, SiftOK, Listed
      <4>2. ProgressOK(q)'
        <5>2. /\ (Untouched(q)' <=> Untouched(q)) /\ Edited(q)' = Edited(q) /\ AllowedThen(q)' = AllowedThen(q)
              /\ TokensThen(q)' = TokensThen(q) /\ With(q, q)' = With(q, q)
          BY <3>3, SameThen DEF Untouched
        <5>3. (Cleared(q)' <=> Cleared(q)) /\ (Falling(q)' <=> Falling(q))
          BY <3>3, <5>2 DEF Cleared, Falling
        <5>4. AllowedBy(loaded[q])' = AllowedBy(loaded[q]) /\ NoTokens' = NoTokens
          BY DEF AllowedBy, NoTokens
        <5> QED BY <3>3, <4>0, <5>2, <5>3, <5>4 DEF ProgressOK
      <4> QED BY <4>1, <4>2
    <3> QED BY <3>1, <3>2, <3>4, <3>5, <3>6, <3>7 DEF StoresOK, UndisturbedOK
  <2> QED BY <2>1, <2>2
<1> QED BY <1>1, <1>2, PTL DEF GfjSpec

\* Every variable keeps its type.
THEOREM TypeCorrect == GfjSpec => []InstallTypeOK
<1>1. IInv => InstallTypeOK
  BY DEF IInv
<1> QED BY <1>1, Invariance, PTL

\* Whatever commands run beside each other, fail or are killed, a host none of
\* them names keeps its token and its place in the allowlist (auth.rs
\* write_file_token, delete_file_token; config.rs add_host, remove_host).
THEOREM OthersKept == GfjSpec => []BystandersKept
<1>1. IInv => BystandersKept
  <2>1. Hosts \ {cmd[p].host : p \in Procs} \subseteq Unnamed
    BY DEF Unnamed, Acting
  <2> QED BY <2>1 DEF IInv, StoresOK, Kept, BystandersKept
<1> QED BY <1>1, Invariance, PTL


(***************************************************************************)
(* What a step may never do                                                *)
(***************************************************************************)

\* A step that is not the user's is one command's, or changes nothing.
LEMMA WhoActs ==
    ASSUME [GfjNext]_<<vars, installs>>
    PROVE  User \/ (\E p \in Procs : Act(p)) \/ UNCHANGED <<vars, installs>>
BY DEF GfjNext, Act

\* A command that moves is the one that acts.
LEMMA Mover ==
    ASSUME InstallTypeOK, ViewTypes, [GfjNext]_<<vars, installs>>, NEW p \in Procs, pc'[p] # pc[p]
    PROVE  Act(p)
<1>1. ~User /\ ~UNCHANGED <<vars, installs>>
  BY DEF User, vars
<1>2. PICK q \in Procs : Act(q)
  BY <1>1, WhoActs
<1>3. q = p
  BY <1>2, Frame
<1> QED BY <1>2, <1>3

\* Only the recorder's own steps change its directory.
LEMMA BoxKept ==
    ASSUME NEW p \in Procs, Act(p), ~OpenBox(p), ~PutGit(p), ~PutMarker(p), ~DropGit(p), ~DropMarker(p), ~DropDir(p)
    PROVE  box' = box
<1>1. CASE UNCHANGED installs
  BY <1>1 DEF installs
<1>2. CASE InstallStep(p)
  BY <1>2 DEF InstallStep, BeginInstall, Inspect, LookAtTarget, Place, CheckPath, WriteAgent, ApplyAgent, Finish,
       Gather, Sift, UnlinkShim, installs, Rest
<1> QED BY <1>1, <1>2 DEF Act

LEMMA FilesStayStep ==
    ASSUME IInv, NEW p \in Procs, Act(p)
    PROVE  /\ \A d \in Places : entry[d] \in Theirs /\ entry'[d] # entry[d]
                => /\ pc[p] \in {"place", "unlink_shim"} /\ pc'[p] # pc[p]
                   /\ p \in raced \/ (pc[p] = "place" /\ args[p].force /\ ~args[p].dry_run)
           /\ box.git = "user" /\ box'.git # "user" => p \in raced /\ pc[p] = "put_git" /\ pc'[p] # pc[p]
           /\ box.other => box'.other /\ box'.dir
           /\ box.dir /\ ~box'.dir => pc[p] = "drop_dir" /\ view[p].done
<1> USE HomeTypes, Types
<1>0. InstallTypeOK /\ ViewTypes /\ PlaceOK(p) /\ BoxOK(p) /\ (box.dir \/ box = NoBox)
  BY DEF IInv, HomeOK
<1>1. ASSUME NEW d \in Places, entry[d] \in Theirs, entry'[d] # entry[d]
      PROVE  /\ pc[p] \in {"place", "unlink_shim"} /\ pc'[p] # pc[p]
             /\ p \in raced \/ (pc[p] = "place" /\ args[p].force /\ ~args[p].dry_run)
  <2>1. CASE Place(p) /\ entry' = [entry EXCEPT ![view[p].target] = "wrapper"]
    <3>1. d = view[p].target /\ pc[p] = "place"
      BY <1>0, <1>1, <2>1 DEF Place, Entries
    <3>2. pc'[p] # pc[p]
      BY <1>0, <2>1 DEF Place, Refuse, Goto
    <3> QED BY <1>0, <1>1, <3>1, <3>2 DEF PlaceOK
  <2>2. CASE UnlinkShim(p) /\ entry' = [entry EXCEPT ![Doomed(p)] = "missing"]
    <3>1. d = Doomed(p) /\ pc[p] = "unlink_shim"
      BY <1>0, <1>1, <2>2 DEF UnlinkShim, Entries
    <3>2. pc'[p] # pc[p]
      BY <1>0, <2>2 DEF UnlinkShim, Goto
    <3> QED BY <1>0, <1>1, <3>1, <3>2 DEF PlaceOK
  <2> QED BY <1>1, <2>1, <2>2, EntryMoves
<1>2. box \in Box
  BY <1>0
<1>3. /\ box.git = "user" /\ box'.git # "user" => p \in raced /\ pc[p] = "put_git" /\ pc'[p] # pc[p]
      /\ box.other => box'.other /\ box'.dir
      /\ box.dir /\ ~box'.dir => pc[p] = "drop_dir" /\ view[p].done
  <2>0. box.other => box.dir
    BY <1>0 DEF NoBox
  <2>1. CASE box' = box
    BY <2>0, <2>1
  <2>2. CASE OpenBox(p)
    BY <1>2, <2>0, <2>2 DEF OpenBox, Box
  <2>3. CASE PutGit(p)
    <3>1. CASE box' = [box EXCEPT !.git = "recorder"] /\ box.dir /\ pc[p] = "put_git" /\ pc'[p] = "put_marker"
      BY <1>0, <1>2, <3>1 DEF Box, BoxOK
    <3> QED BY <1>0, <2>1, <2>3, <3>1 DEF PutGit, Goto
  <2>4. CASE PutMarker(p)
    BY <1>2, <2>0, <2>4 DEF PutMarker, Box
  <2>5. CASE DropGit(p)
    BY <1>2, <2>0, <2>5 DEF DropGit, Box
  <2>6. CASE DropMarker(p)
    BY <1>2, <2>0, <2>6 DEF DropMarker, Box
  <2>7. CASE DropDir(p)
    BY <1>0, <1>2, <2>0, <2>7 DEF DropDir, Box, BoxOK
  <2> QED BY <2>1, <2>2, <2>3, <2>4, <2>5, <2>6, <2>7, BoxKept
<1> QED BY <1>1, <1>3

\* What is the user's stays, whichever commands run beside each other, fail or
\* die: his gh is written over only with --force and never removed, his git and
\* directory outlive the recorder (shim.rs install_shim, uninstall_shim,
\* git_recorder.rs create, remove).
THEOREM FilesStay == GfjSpec => UserFilesStay
<1>1. ASSUME IInv, [GfjNext]_<<vars, installs>>, users' = users
      PROVE  /\ \A d \in Places : entry[d] \in {"gh", "old", "dispatcher"} /\ entry'[d] # entry[d]
                  => \E p \in Procs : pc[p] \in {"place", "unlink_shim"} /\ pc'[p] # pc[p]
                        /\ (p \in raced \/ (pc[p] = "place" /\ args[p].force /\ ~args[p].dry_run))
             /\ box.git = "user" /\ box'.git # "user"
                  => \E p \in raced : pc[p] = "put_git" /\ pc'[p] # pc[p]
             /\ box.other => box'.other /\ box'.dir
             /\ box.dir /\ ~box'.dir => \E p \in Procs : pc[p] = "drop_dir" /\ view[p].done
  <2>1. ~User
    <3>1. users \in Nat
      <4>1. users \in 0..MaxUser
        BY <1>1, HomeTypes DEF IInv
      <4> QED BY <4>1, InstallAssumption
    <3> QED BY <1>1, <3>1 DEF User
  <2>2. CASE \E p \in Procs : Act(p)
    <3>1. PICK p \in Procs : Act(p)
      BY <2>2
    <3> QED BY <1>1, <3>1, FilesStayStep DEF Theirs
  <2>3. CASE UNCHANGED <<vars, installs>>
    <3>1. box.other => box.dir
      BY <1>1 DEF IInv, HomeOK, NoBox
    <3> QED BY <2>3, <3>1 DEF installs
  <2> QED BY <1>1, <2>1, <2>2, <2>3, WhoActs
<1> QED BY <1>1, Invariance, PTL DEF GfjSpec, UserFilesStay

\* A command that is not of the stores does not end well in a step of theirs.
LEMMA StoresEnd ==
    ASSUME TypeOK, NEW p \in Procs, OrderOK(p), Step(p), cmd[p].op \notin Ops
    PROVE  pc'[p] # "ok"
<1> USE Types DEF Goto, OrderOK, Clearing, Editing, Ops, Logins, Fails
<1>1. CASE Start(p) \/ Obtain(p) \/ Load(p) \/ Reread(p)
  BY <1>1 DEF Start, Begin, Obtain, Load, Reread
<1>2. CASE Replace(p)
  <2>1. cmd[p].op \in OtherOps
    BY InstallAssumption
  <2> QED BY <1>2, <2>1 DEF Replace, AfterAddHost
<1>3. CASE Save(p) \/ Forget(p) \/ Write(p) \/ Erase(p)
  BY <1>3 DEF Save, Forget, Write, Erase
<1>4. CASE Unlink(p) \/ Publish(p) \/ Crash(p)
  BY <1>4 DEF Unlink, Publish, Crash
<1> QED BY <1>1, <1>2, <1>3, <1>4 DEF Step

LEMMA SiftEnd ==
    ASSUME IInv, NEW p \in Procs, Act(p), cmd[p].op = "uninstall", args[p].dir = None, pc[p] # "ok", pc'[p] = "ok"
    PROVE  pc[p] = "sift" /\ view[p].left = <<>> /\ entry' = entry
<1> USE HomeTypes, Types
<1>0. InstallTypeOK /\ ViewTypes /\ OrderOK(p)
  BY DEF IInv, Orders
<1>1. cmd[p].op \notin Ops
  BY DEF Ops
<1>2. InstallStep(p)
  BY <1>0, <1>1, StoresEnd DEF Act
<1> USE <1>0 DEF Goto, OrderOK, Installers, Recorders, Recording, Installing
<1>3. CASE BeginInstall(p) \/ Inspect(p) \/ LookAtTarget(p) \/ Place(p)
  BY <1>3 DEF BeginInstall, Begin, Inspect, LookAtTarget, Place
<1>4. CASE CheckPath(p) \/ WriteAgent(p) \/ ApplyAgent(p) \/ Finish(p)
  BY <1>4 DEF CheckPath, WriteAgent, ApplyAgent, Finish
<1>5. CASE Gather(p)
  BY <1>5 DEF Gather
<1>6. CASE Sift(p)
  BY <1>6 DEF Sift
<1>7. CASE UnlinkShim(p)
  BY <1>7 DEF UnlinkShim
<1>8. CASE OpenBox(p) \/ PutGit(p) \/ PutMarker(p) \/ DropGit(p) \/ DropMarker(p) \/ DropDir(p)
  BY <1>8 DEF OpenBox, PutGit, PutMarker, DropGit, DropMarker, DropDir
<1> QED BY <1>2, <1>3, <1>4, <1>5, <1>6, <1>7, <1>8 DEF InstallStep

\* What UninstallUndoes and WrapperWorks say of a step of one command.
UndoneBy(p) ==
    cmd[p].op = "uninstall" /\ args[p].dir = None =>
        /\ Ends(p) /\ pc'[p] = "ok" /\ Undisturbed(p) => \A d \in defaults : entry'[d] # "wrapper"
        /\ pc[p] = "unlink_shim" /\ pc'[p] # pc[p] /\ p \notin raced
             => \A d \in Places : entry[d] \in Places => entry'[d] = entry[d]
WorksAfter(p) ==
    Undisturbed(p) /\ pc[p] # pc'[p] =>
        /\ pc[p] = "place" /\ entry' # entry
             => WrapperFinds(entry') = view[p].gh /\ Supported(entry', view[p].gh)
        /\ pc'[p] = "ok" /\ cmd[p].op = "bootstrap" /\ ~args[p].dry_run
             => /\ FirstGh # None /\ Managed(entry, FirstGh) /\ Supported(entry, WrapperFinds(entry))
                /\ view[p].plan = "allowlist" => cmd[p].host \in Allowed /\ StoredToken[cmd[p].host] # None
                /\ Allowed # AllowedThen(p)
                     => Allowed \ AllowedThen(p) = {cmd[p].host} /\ cmd[p].host \notin checkout.yml

\* A plain uninstall-shim that nobody disturbs finds every wrapper a bootstrap
\* put on this PATH, and none removes a link (shim.rs uninstall_default_shims).
THEOREM UninstallFinds == GfjSpec => UninstallUndoes
<1>1. ASSUME IInv, [GfjNext]_<<vars, installs>>, NEW p \in Procs PROVE UndoneBy(p)
  <2> SUFFICES ASSUME cmd[p].op = "uninstall", args[p].dir = None PROVE UndoneBy(p)
    BY DEF UndoneBy
  <2>0. InstallTypeOK /\ ViewTypes /\ PlaceOK(p) /\ SiftOK(p) /\ defaults \subseteq DefaultDirs
    BY <1>1 DEF IInv, HomeOK, UndisturbedOK
  <2>1. ASSUME Ends(p), pc'[p] = "ok", Undisturbed(p), NEW d \in defaults PROVE entry'[d] # "wrapper"
    <3>1. Act(p) /\ pc[p] # "ok"
      BY <1>1, <2>0, <2>1, Mover DEF Ends, Ended
    <3>2. pc[p] = "sift" /\ view[p].left = <<>> /\ entry' = entry
      BY <1>1, <2>1, <3>1, SiftEnd
    <3>3. d \notin Listed(view[p].left)
      BY <3>2 DEF Listed
    <3> QED BY <1>1, <2>0, <2>1, <3>2, <3>3 DEF SiftOK
  <2>2. ASSUME pc[p] = "unlink_shim", pc'[p] # pc[p], p \notin raced, NEW d \in Places, entry[d] \in Places
        PROVE  entry'[d] = entry[d]
    <3>1. Act(p)
      BY <1>1, <2>0, <2>2, Mover
    <3>2. Doomed(p) # d
      BY <1>1, <2>0, <2>2 DEF PlaceOK
    <3>3. ~Place(p)
      BY <2>2 DEF Place
    <3> QED BY <2>0, <2>2, <3>1, <3>2, <3>3, EntryMoves, HomeTypes DEF Entries
  <2> QED BY <2>1, <2>2 DEF UndoneBy
<1>2. IInv /\ [GfjNext]_<<vars, installs>> => \A p \in Procs : UndoneBy(p)
  BY <1>1
<1> QED BY <1>2, Invariance, PTL DEF GfjSpec, UndoneBy, UninstallUndoes

LEMMA FinishEnd ==
    ASSUME IInv, NEW p \in Procs, Act(p), cmd[p].op = "bootstrap", pc[p] # "ok", pc'[p] = "ok"
    PROVE  pc[p] = "finish" /\ view[p].fixes = {} /\ (NeedsToken(p) => TokenFound(p))
<1> USE HomeTypes, Types
<1>0. InstallTypeOK /\ ViewTypes /\ OrderOK(p)
  BY DEF IInv, Orders
<1>1. cmd[p].op \notin Ops
  BY DEF Ops
<1>2. InstallStep(p)
  BY <1>0, <1>1, StoresEnd DEF Act
<1> USE <1>0 DEF Goto, OrderOK, Recorders, Recording
<1>3. CASE BeginInstall(p) \/ Inspect(p) \/ LookAtTarget(p) \/ Place(p)
  BY <1>3 DEF BeginInstall, Begin, Inspect, LookAtTarget, Place, Refuse
<1>4. CASE CheckPath(p) \/ WriteAgent(p) \/ ApplyAgent(p)
  BY <1>4 DEF CheckPath, WriteAgent, ApplyAgent
<1>5. CASE Finish(p)
  BY <1>5 DEF Finish
<1>6. CASE Gather(p) \/ Sift(p) \/ UnlinkShim(p)
  BY <1>6 DEF Gather, Sift, UnlinkShim
<1>7. CASE OpenBox(p) \/ PutGit(p) \/ PutMarker(p) \/ DropGit(p) \/ DropMarker(p) \/ DropDir(p)
  BY <1>7 DEF OpenBox, PutGit, PutMarker, DropGit, DropMarker, DropDir
<1> QED BY <1>2, <1>3, <1>4, <1>5, <1>6, <1>7 DEF InstallStep

\* What install-shim and bootstrap put in place runs the gh they checked, and a
\* bootstrap that finds nothing to fix leaves a setup that works (setup.rs
\* find_real_gh_after_install, bootstrap.rs run).
THEOREM ChecksWhatRuns == GfjSpec => WrapperWorks
<1>1. ASSUME IInv, [GfjNext]_<<vars, installs>>, NEW p \in Procs PROVE WorksAfter(p)
  <2> SUFFICES ASSUME Undisturbed(p), pc[p] # pc'[p] PROVE WorksAfter(p)
    BY DEF WorksAfter
  <2> USE HomeTypes, Types
  <2>0. /\ InstallTypeOK /\ ViewTypes /\ PlaceOK(p) /\ ShimOK(p) /\ ProgressOK(p) /\ Alone(p) /\ Act(p)
    BY <1>1, Mover DEF IInv, HomeOK, UndisturbedOK, Undisturbed
  <2>1. ASSUME pc[p] = "place", entry' # entry
        PROVE  WrapperFinds(entry') = view[p].gh /\ Supported(entry', view[p].gh)
    <3>1. Place(p) /\ entry' = [entry EXCEPT ![view[p].target] = "wrapper"]
      BY <2>0, <2>1, EntryMoves DEF UnlinkShim
    <3>2. Looked(p) /\ view[p].target \in Dirs /\ ~args[p].dry_run /\ args[p].force \in BOOLEAN
      <4>1. args[p] \in Options
        BY <2>0
      <4>2. args[p].force \in BOOLEAN
        BY <4>1 DEF Options
      <4> QED BY <2>0, <2>1, <4>2 DEF PlaceOK, Looked, Installing
    <3>3. /\ view[p].gh = SetupFinds(entry, IF args[p].force THEN view[p].target ELSE None)
          /\ Supported(entry, view[p].gh)
          /\ args[p].force \/ entry[view[p].target] = "missing" \/ Managed(entry, view[p].target)
      BY <1>1, <2>0, <2>1, <3>2 DEF ShimOK, Expected
    <3>4. entry \in Entries /\ path \in Seq(Dirs) /\ paths_gh \in Places \union {None}
      BY <2>0
    <3>5. LET after == [entry EXCEPT ![view[p].target] = "wrapper"]
          IN  WrapperFinds(after) = view[p].gh /\ Supported(after, view[p].gh)
      BY <3>2, <3>3, <3>4, WrapperFindsChecked
    <3>6. WrapperFinds(entry') = view[p].gh /\ Supported(entry', view[p].gh)
      BY <3>1, <3>5
    <3> QED BY <3>6
  <2>2. ASSUME pc'[p] = "ok", cmd[p].op = "bootstrap", ~args[p].dry_run
        PROVE  /\ FirstGh # None /\ Managed(entry, FirstGh) /\ Supported(entry, WrapperFinds(entry))
               /\ view[p].plan = "allowlist" => cmd[p].host \in Allowed /\ StoredToken[cmd[p].host] # None
               /\ Allowed # AllowedThen(p)
                    => Allowed \ AllowedThen(p) = {cmd[p].host} /\ cmd[p].host \notin checkout.yml
    <3>1. pc[p] = "finish" /\ view[p].fixes = {} /\ (NeedsToken(p) => TokenFound(p))
      BY <1>1, <2>0, <2>2, FinishEnd
    <3>2. FirstGh # None /\ Managed(entry, FirstGh) /\ Supported(entry, WrapperFinds(entry))
      BY <1>1, <2>0, <2>2, <3>1 DEF ShimOK
    <3>3. /\ view[p].plan = "allowlist" => cmd[p].host \notin checkout.yml
          /\ Allowed = IF view[p].plan = "allowlist" THEN AllowedThen(p) \union {cmd[p].host} ELSE AllowedThen(p)
      BY <2>0, <2>2, <3>1 DEF ProgressOK, Looked, Installing, Edited
    <3>4. view[p].plan = "allowlist" => StoredToken[cmd[p].host] # None
      BY <3>1 DEF NeedsToken, TokenFound
    <3> QED BY <3>2, <3>3, <3>4
  <2> QED BY <2>1, <2>2 DEF WorksAfter
<1>2. IInv /\ [GfjNext]_<<vars, installs>> => \A p \in Procs : WorksAfter(p)
  BY <1>1
<1> QED BY <1>2, Invariance, PTL DEF GfjSpec, WorksAfter, WrapperWorks

(***************************************************************************)
(* What an ended command leaves on the stores                              *)
(***************************************************************************)

\* What a command of the stores may leave wherever it stops, and when it says "ok".
Midway(p, tokens, allowed) ==
    LET h == cmd[p].host
        then == AllowedThen(p)
    IN  /\ cmd[p].op \in Logins =>
             /\ allowed \in {then, then \union {h}} /\ tokens \in {TokensThen(p), With(p, p)}
             /\ tokens # TokensThen(p) => h \in allowed
        /\ cmd[p].op = "logout" => allowed = then /\ \A g \in Hosts \ {h} : tokens[g] = TokensThen(p)[g]
        /\ cmd[p].op = "add" => allowed \in {then, then \union {h}} /\ tokens = TokensThen(p)
        /\ cmd[p].op = "remove" => allowed \in {then, then \ {h}} /\ tokens = TokensThen(p)

Complete(p, tokens, allowed) ==
    LET h == cmd[p].host
    IN  /\ cmd[p].op \in Logins =>
             /\ tokens = With(p, p) \/ (p \in refused /\ TokensThen(p)[h] = keychain[h])
             /\ allowed = AllowedThen(p) \union {h}
        /\ cmd[p].op = "logout" => tokens = With(p, None) \/ p \in refused
        /\ cmd[p].op = "add" => allowed = AllowedThen(p) \union {h}
        /\ cmd[p].op = "remove" => allowed = AllowedThen(p) \ {h}

LEMMA EffectParts ==
    ASSUME NEW p \in Procs, cmd[p].op \in Ops, Midway(p, StoredToken', Allowed'),
           pc'[p] = "ok" => Complete(p, StoredToken', Allowed'), pc'[p] # "killed" => p \notin litter'
    PROVE  Effect(p)
<1>1. CASE cmd[p].op \in Logins
  BY <1>1 DEF Effect, Midway, Complete, With, TokensThen
<1>2. CASE cmd[p].op = "logout"
  BY <1>2 DEF Effect, Midway, Complete, With, Logins
<1>3. CASE cmd[p].op = "add"
  BY <1>3 DEF Effect, Midway, Complete, Logins
<1>4. CASE cmd[p].op = "remove"
  BY <1>4 DEF Effect, Midway, Complete, Logins
<1> QED BY <1>1, <1>2, <1>3, <1>4 DEF Ops, Logins

\* Wherever it is, a command has left the stores so.
LEMMA Between ==
    ASSUME NEW p \in Procs, Calm(p), cmd[p].op \in Ops, pc[p] \notin Ended \union {"ready"}
    PROVE  Midway(p, StoredToken, Allowed)
<1> USE HomeTypes, Types DEF Calm
<1>1. pc[p] \in {"obtain", "forget", "save", "write"} \union Editing \union Clearing
  <2>1. cmd[p].op \notin InstallOps
    BY DEF Ops, InstallOps, Installers, Recorders
  <2>2. pc[p] \in Spots
    OBVIOUS
  <2> QED BY <2>1, <2>2 DEF Spots, InstallPlaces, OrderOK, Recording, Installing, InstallOps, Editing, Clearing, Recorders
<1>2. CASE pc[p] \in {"obtain", "forget"} \union Editing
  BY <1>2 DEF ProgressOK, Untouched, Midway
<1>3. CASE pc[p] \in {"save", "write"}
  <2>1. cmd[p].op \in Logins /\ Allowed = Edited(p) /\ StoredToken = TokensThen(p)
    BY <1>3 DEF ProgressOK, OrderOK, Falling, Logins
  <2> QED BY <2>1 DEF Midway, Edited, Logins
<1>4. CASE pc[p] \in Clearing
  <2>1. /\ cmd[p].op \in Logins \union {"logout"}
        /\ Allowed = IF cmd[p].op = "logout" THEN AllowedThen(p) ELSE Edited(p)
        /\ Cleared(p) \/ (Falling(p) /\ cmd[p].op \in Logins)
    BY <1>4 DEF ProgressOK, OrderOK, Clearing
  <2> QED BY <2>1 DEF Midway, Cleared, Falling, Edited, Logins
<1> QED BY <1>1, <1>2, <1>3, <1>4

\* Once the file holds no token of the host either.
LEMMA ClearedEnd ==
    ASSUME NEW p \in Procs, Calm(p), Cleared(p), onMac' = onMac, keychain' = keychain,
           FileToken(auth', cmd[p].host) = None,
           \A g \in Hosts \ {cmd[p].host} : FileToken(auth', g) = FileToken(auth, g)
    PROVE  /\ cmd[p].op # "logout" => StoredToken' = With(p, p)
           /\ cmd[p].op = "logout" =>
                /\ \A g \in Hosts \ {cmd[p].host} : StoredToken'[g] = TokensThen(p)[g]
                /\ p \in refused \/ StoredToken' = With(p, None)
<1> USE HomeTypes, Types DEF Calm
<1> DEFINE h == cmd[p].host
<1>1. StoredToken' = [g \in Hosts |-> IF onMac /\ keychain[g] # None THEN keychain[g] ELSE FileToken(auth', g)]
  BY DEF StoredToken, Stored
<1>2. \A g \in Hosts \ {h} : StoredToken'[g] = StoredToken[g]
  BY <1>1 DEF StoredToken, Stored
<1>3. h \in Hosts /\ StoredToken'[h] = IF onMac /\ keychain[h] # None THEN keychain[h] ELSE None
  BY <1>1
<1>4. TokensThen(p) \in [Hosts -> Token] /\ DOMAIN StoredToken' = Hosts /\ StoredToken' = [g \in Hosts |-> StoredToken'[g]]
  BY <1>1, ThenTypes
<1>5. CASE cmd[p].op # "logout"
  <2>1. keychain[h] = p /\ p # None /\ onMac /\ StoredToken = With(p, p)
    BY <1>5, StoresAssumption DEF Cleared
  <2>2. StoredToken'[h] = p /\ \A g \in Hosts \ {h} : StoredToken'[g] = TokensThen(p)[g]
    BY <1>2, <1>3, <1>4, <2>1 DEF With
  <2> QED BY <1>3, <1>4, <1>5, <2>2 DEF With
<1>6. CASE cmd[p].op = "logout"
  <2>1. \A g \in Hosts \ {h} : StoredToken'[g] = TokensThen(p)[g]
    BY <1>2, <1>6 DEF Cleared
  <2>2. p \in refused \/ StoredToken'[h] = None
    BY <1>3, <1>6 DEF Cleared
  <2> QED BY <1>3, <1>4, <1>6, <2>1, <2>2 DEF With
<1> QED BY <1>5, <1>6

\* The Keychain refused, and the file now has the new token; what the Keychain
\* still holds comes first.
LEMMA FallingEnd ==
    ASSUME NEW p \in Procs, Calm(p), Falling(p), onMac' = onMac, keychain' = keychain,
           FileToken(auth', cmd[p].host) = p,
           \A g \in Hosts \ {cmd[p].host} : FileToken(auth', g) = FileToken(auth, g)
    PROVE  \/ StoredToken' = With(p, p)
           \/ p \in refused /\ TokensThen(p)[cmd[p].host] = keychain[cmd[p].host] /\ StoredToken' = TokensThen(p)
<1> USE HomeTypes, Types DEF Calm
<1> DEFINE h == cmd[p].host
<1>1. StoredToken' = [g \in Hosts |-> IF onMac /\ keychain[g] # None THEN keychain[g] ELSE FileToken(auth', g)]
  BY DEF StoredToken, Stored
<1>2. \A g \in Hosts \ {h} : StoredToken'[g] = TokensThen(p)[g]
  BY <1>1 DEF StoredToken, Stored, Falling
<1>3. h \in Hosts /\ StoredToken'[h] = IF onMac /\ keychain[h] # None THEN keychain[h] ELSE p
  BY <1>1
<1>4. TokensThen(p) \in [Hosts -> Token] /\ DOMAIN StoredToken' = Hosts /\ StoredToken' = [g \in Hosts |-> StoredToken'[g]]
  BY <1>1, ThenTypes
<1>5. CASE onMac /\ keychain[h] # None
  <2>1. p \in refused /\ StoredToken[h] = keychain[h] /\ StoredToken = TokensThen(p)
    BY <1>3, <1>5 DEF Falling, StoredToken, Stored
  <2>2. \A g \in Hosts : StoredToken'[g] = TokensThen(p)[g]
    BY <1>2, <1>3, <1>5, <2>1
  <2> QED BY <1>4, <2>1, <2>2
<1>6. CASE ~(onMac /\ keychain[h] # None)
  BY <1>2, <1>3, <1>4, <1>6 DEF With
<1> QED BY <1>5, <1>6

LEMMA ReplaceEnd ==
    ASSUME NEW p \in Procs, Calm(p), cmd[p].op \in Ops, Replace(p), config' = loaded[p], UNCHANGED <<onMac, keychain, auth>>
    PROVE  Midway(p, StoredToken', Allowed') /\ (pc'[p] = "ok" => Complete(p, StoredToken', Allowed'))
<1> USE HomeTypes, Types DEF Calm
<1>1. Untouched(p) /\ AllowedBy(loaded[p]) = Edited(p) /\ cmd[p].op \in Logins \union {"add", "remove"}
  BY DEF Replace, ProgressOK, Editing, OrderOK, Ops
<1>2. Allowed' = Edited(p) /\ StoredToken' = TokensThen(p)
  <2>1. Allowed' = AllowedBy(loaded[p])
    BY DEF Allowed
  <2>2. StoredToken' = StoredToken
    BY DEF StoredToken, Stored, FileToken
  <2> QED BY <1>1, <2>1, <2>2 DEF Untouched
<1>3. pc'[p] = "ok" => cmd[p].op \notin Logins
  BY DEF Replace, Fails, Goto, AfterAddHost
<1> QED BY <1>1, <1>2, <1>3 DEF Midway, Complete, Edited, Logins

\* Removing auth.json, and renaming the new one over it.
LEMMA ClearingEnd ==
    ASSUME NEW p \in Procs, Calm(p), cmd[p].op \in Ops, UNCHANGED <<onMac, keychain, config>>,
           \/ pc[p] = "erase" /\ auth' = auth /\ FileToken(auth, cmd[p].host) = None
           \/ pc[p] = "unlink" /\ auth' = NoAuthFile
           \/ pc[p] = "publish" /\ auth' = read[p]
    PROVE  Midway(p, StoredToken', Allowed') /\ Complete(p, StoredToken', Allowed')
<1> USE HomeTypes, Types DEF Calm
<1> DEFINE h == cmd[p].host
<1>1. /\ cmd[p].op \in Logins \union {"logout"} /\ Allowed' = Allowed
      /\ Allowed = IF cmd[p].op = "logout" THEN AllowedThen(p) ELSE AllowedThen(p) \union {h}
  <2>1. Allowed' = Allowed
    BY DEF Allowed, AllowedBy
  <2> QED BY <2>1 DEF ProgressOK, OrderOK, Clearing, Edited, Logins
<1>2. CASE pc[p] = "erase" /\ auth' = auth /\ FileToken(auth, h) = None
  <2>1. Cleared(p) /\ FileToken(auth', h) = None /\ \A g \in Hosts \ {h} : FileToken(auth', g) = FileToken(auth, g)
    BY <1>2 DEF ProgressOK
  <2> QED BY <1>1, <2>1, ClearedEnd DEF Midway, Complete, Logins
<1>3. CASE pc[p] = "unlink" /\ auth' = NoAuthFile
  <2>1. Cleared(p) /\ auth.state = "whole" /\ [auth.of EXCEPT ![h] = None] = NoTokens
    BY <1>3 DEF ProgressOK
  <2>2. \A g \in Hosts \ {h} : auth.of[g] = None
    BY <2>1 DEF NoTokens
  <2>3. FileToken(auth', h) = None /\ \A g \in Hosts \ {h} : FileToken(auth', g) = FileToken(auth, g)
    BY <1>3, <2>1, <2>2 DEF FileToken, NoAuthFile
  <2> QED BY <1>1, <2>1, <2>3, ClearedEnd DEF Midway, Complete, Logins
<1>4. CASE pc[p] = "publish" /\ auth' = read[p]
  <2>0. read[p].state = "whole"
    BY <1>4 DEF ProgressOK
  <2>1. CASE Cleared(p) /\ auth.state = "whole" /\ read[p].of = [auth.of EXCEPT ![h] = None]
    <3>1. FileToken(auth', h) = None /\ \A g \in Hosts \ {h} : FileToken(auth', g) = FileToken(auth, g)
      BY <1>4, <2>0, <2>1 DEF FileToken
    <3> QED BY <1>1, <2>1, <3>1, ClearedEnd DEF Midway, Complete, Logins
  <2>2. CASE /\ Falling(p) /\ cmd[p].op \in Logins /\ auth.state \in {"missing", "whole"}
             /\ read[p].of = [auth.of EXCEPT ![h] = p]
    <3>1. FileToken(auth', h) = p /\ \A g \in Hosts \ {h} : FileToken(auth', g) = FileToken(auth, g)
      <4>1. auth.state = "missing" => \A g \in Hosts : auth.of[g] = None
        BY DEF MissingIsEmpty, NoTokens
      <4> QED BY <1>4, <2>0, <2>2, <4>1 DEF FileToken
    <3>2. \/ StoredToken' = With(p, p)
          \/ p \in refused /\ TokensThen(p)[h] = keychain[h] /\ StoredToken' = TokensThen(p)
      BY <2>2, <3>1, FallingEnd
    <3> QED BY <1>1, <2>2, <3>2 DEF Midway, Complete, Logins
  <2> QED BY <1>4, <2>1, <2>2 DEF ProgressOK
<1> QED BY <1>2, <1>3, <1>4

LEMMA EffectStep ==
    ASSUME IInv, NEW p \in Procs, Act(p), Ends(p), Alone(p), cmd[p].op \in Ops
    PROVE  Effect(p)
<1> USE HomeTypes, Types
<1>0. Calm(p)
  BY DEF Calm, IInv, Orders, UndisturbedOK, StoresOK
<1>1. OrderOK(p) /\ TypeOK /\ pc[p] \notin Ended /\ pc'[p] \in Ended
  BY <1>0 DEF Calm, Ends
<1>2. Step(p)
  <2> SUFFICES ASSUME InstallStep(p) PROVE FALSE
    BY DEF Act
  <2>1. pc[p] \in {"ready", "look"} \union InstallPlaces
    BY <1>1, InstallMoves
  <2>2. cmd[p].op \notin InstallOps
    BY DEF Ops, InstallOps, Installers, Recorders
  <2>3. pc[p] = "ready"
    BY <1>1, <2>1, <2>2 DEF InstallPlaces, OrderOK, Recording, Installing, InstallOps
  <2> QED BY <2>2, <2>3 DEF InstallStep, BeginInstall, Inspect, LookAtTarget, Place, CheckPath, WriteAgent, ApplyAgent,
        Finish, Gather, Sift, UnlinkShim, OpenBox, PutGit, PutMarker, DropGit, DropMarker, DropDir
<1>3. pc[p] # "ready"
  BY <1>1, <1>2 DEF Step, Start, Begin, Goto, Ended, Obtain, Load, Reread, Replace, Save, Forget, Write, Erase,
     Unlink, Publish, Crash, Running
<1>4. pc'[p] # "killed" => p \notin litter'
  <2>1. p \in litter => pc[p] = "publish"
    BY <1>1 DEF OrderOK, Ended
  <2>2. CASE Obtain(p) \/ Load(p) \/ Reread(p) \/ Replace(p) \/ Unlink(p)
    BY <2>1, <2>2 DEF Obtain, Load, Reread, Replace, Unlink, Fails, stores
  <2>3. CASE Save(p) \/ Forget(p) \/ Write(p)
    BY <1>1, <2>1, <2>3 DEF Save, Forget, Write, Goto, Ended, Fails, stores
  <2>4. CASE Erase(p)
    BY <1>1, <2>1, <2>4 DEF Erase, Goto, Ended, Fails, stores
  <2>5. CASE Publish(p)
    BY <2>5 DEF Publish
  <2>6. CASE Crash(p)
    BY <1>1, <2>6 DEF Crash, Goto
  <2> QED BY <1>2, <1>3, <2>2, <2>3, <2>4, <2>5, <2>6 DEF Step, Start, Begin
<1>5. ASSUME UNCHANGED <<onMac, keychain, auth, config>> PROVE Midway(p, StoredToken', Allowed')
  BY <1>0, <1>1, <1>3, <1>5, Between, SameStores
<1>6. Midway(p, StoredToken', Allowed') /\ (pc'[p] = "ok" => Complete(p, StoredToken', Allowed'))
  <2>1. CASE UNCHANGED <<onMac, keychain, auth, config>> /\ pc'[p] # "ok"
    BY <1>5, <2>1
  <2>2. CASE Obtain(p) \/ Load(p) \/ Reread(p)
    BY <1>1, <2>1, <2>2 DEF Obtain, Load, Reread, Goto, Fails, stores
  <2>3. CASE Save(p) \/ Forget(p)
    BY <1>1, <2>3 DEF Save, Forget, Goto, Ended
  <2>4. CASE Write(p) \/ Crash(p)
    BY <1>1, <2>1, <2>4 DEF Write, Crash, Goto, Ended, Fails, stores
  <2>5. CASE Replace(p)
    BY <1>0, <1>1, <2>1, <2>5, ReplaceEnd DEF Replace, Goto, Fails, stores
  <2>6. CASE Erase(p)
    <3>1. \/ UNCHANGED <<onMac, keychain, auth, config>> /\ pc'[p] # "ok"
          \/ UNCHANGED <<onMac, keychain, auth, config>> /\ pc[p] = "erase" /\ FileToken(auth, cmd[p].host) = None
      BY <1>1, <2>6 DEF Erase, Goto, Fails, stores
    <3> QED BY <1>0, <2>1, <3>1, ClearingEnd
  <2>7. CASE Unlink(p)
    BY <1>0, <1>1, <2>1, <2>7, ClearingEnd DEF Unlink, Goto, Fails, stores
  <2>8. CASE Publish(p)
    BY <1>0, <1>1, <2>1, <2>8, ClearingEnd DEF Publish, Goto
  <2> QED BY <1>2, <1>3, <2>2, <2>3, <2>4, <2>5, <2>6, <2>7, <2>8 DEF Step, Start, Begin
<1> QED BY <1>4, <1>6, EffectParts

\* A command of `gfj auth` or `gfj config` that no other ran beside does what it
\* says and nothing else, wherever it fails or is killed (cli.rs auth_login,
\* auth.rs, config.rs).
THEOREM SaysWhatItDoes == GfjSpec => DoesWhatItSays
<1>1. IInv /\ [GfjNext]_<<vars, installs>> => \A p \in Procs : Ends(p) /\ Alone(p) /\ cmd[p].op \in Ops => Effect(p)
  <2> SUFFICES ASSUME IInv, [GfjNext]_<<vars, installs>>, NEW p \in Procs, Ends(p), Alone(p), cmd[p].op \in Ops
               PROVE  Effect(p)
    OBVIOUS
  <2>1. Act(p)
    BY Mover DEF IInv, Ends
  <2> QED BY <2>1, EffectStep
<1> QED BY <1>1, Invariance, PTL DEF GfjSpec, DoesWhatItSays
=============================================================================
