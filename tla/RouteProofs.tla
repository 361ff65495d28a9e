---------------------------- MODULE RouteProofs ----------------------------
(* Proofs about Route: where plain, stepped-aside and launched gh go, for  *)
(* any hosts, files, checkouts and calls; and about Pushes: where git      *)
(* takes what gh pushes, under any remotes, rewrites and aliases.          *)
EXTENDS Route, Pushes, TLAPS, WellFoundedInduction

(***************************************************************************)
(* Hosts and forges.                                                       *)
(***************************************************************************)

(* A non-empty set of naturals has a least element.                        *)
LEMMA LeastExists ==
    ASSUME NEW I \in SUBSET Nat, I # {}
    PROVE  First(I) \in I /\ \A j \in I : First(I) <= j
  <1>1. PICK i \in I : \A j \in I : ~(<<j, i>> \in OpToRel(<, Nat))
    BY NatLessThanWellFounded, WFMin, Zenon
  <1>2. \A j \in I : ~(j < i)
    BY <1>1 DEF OpToRel
  <1>3. \A j \in I : i <= j
    BY <1>2
  <1> QED BY <1>3 DEF First

(* What serves a host has its name; a served host is a host.               *)
LEMMA ServingName ==
    ASSUME allow \in SUBSET Hosts, NEW e, NEW h, Serves(e, h)
    PROVE  /\ e \in Hosts /\ h \in Hosts /\ e \in allow
           /\ NameOf[h] = NameOf[e] /\ NameOf[e] # GitHub
  BY RouteAssumption DEF Serves, Entries

LEMMA ServedIsHost ==
    ASSUME allow \in SUBSET Hosts, NEW h, Served(h)
    PROVE  h \in Hosts /\ h # None /\ h # GitHub
  <1>1. PICK e \in Entries : Serves(e, h)
    BY DEF Served
  <1>2. h \in Hosts /\ NameOf[h] # GitHub
    BY <1>1, ServingName
  <1> QED BY <1>2, RouteAssumption

(* The entry a route names serves the host it was made for.                *)
LEMMA RouteServes ==
    ASSUME NEW h, NEW t, Served(h)
    PROVE  /\ Forgejo(h, t).kind = "forgejo" /\ Forgejo(h, t).theirs = t
           /\ Serves(Forgejo(h, t).host, h)
  BY DEF Forgejo, Served

(* gh's default host is a host, and it is GitHub when nothing says so.     *)
LEMMA DefaultHost ==
    ASSUME NEW g \in Hosts \cup {None}, NEW keys \in SUBSET Hosts
    PROVE  /\ Default(g, keys) \in Hosts
           /\ g # None => Default(g, keys) = g
           /\ g = None /\ ~FromConfig(g, keys) => Default(g, keys) = GitHub
  <1>1. CASE g # None
    BY <1>1 DEF Default
  <1>2. CASE g = None /\ FromConfig(g, keys)
    <2>1. (CHOOSE k \in keys : keys = {k}) \in keys
      BY <1>2 DEF FromConfig
    <2> QED BY <1>2, <2>1, RouteAssumption DEF Default
  <1>3. CASE g = None /\ ~FromConfig(g, keys)
    BY <1>3, RouteAssumption DEF Default
  <1> QED BY <1>1, <1>2, <1>3

LEMMA OverrideHost ==
    ASSUME NEW g \in Hosts \cup {None}, NEW keys \in SUBSET Hosts,
           NEW spec \in Hosts \cup {"bare", "bad", None}
    PROVE  /\ Override(spec, g, keys) \in Hosts \cup {None}
           /\ spec \in Hosts => Override(spec, g, keys) = spec
           /\ spec \in {"bad", None} => Override(spec, g, keys) = None
  BY DefaultHost, RouteAssumption DEF Override

(* The remotes gh uses are the checkout's, and all on GH_HOST if it is set.*)
LEMMA UsableRemotes ==
    ASSUME remotes \in Seq(RemoteType), NEW g, NEW keys
    PROVE  /\ Usable(g, keys) \in SUBSET Nat
           /\ Usable(g, keys) \subseteq DOMAIN remotes
           /\ \A i \in Usable(g, keys) : remotes[i].host \in Hosts
           /\ g # None => \A i \in Usable(g, keys) : remotes[i].host = g
  <1>1. /\ DOMAIN remotes \subseteq Nat
        /\ \A i \in DOMAIN remotes : remotes[i] \in RemoteType
    OBVIOUS
  <1>2. \A i \in DOMAIN remotes : remotes[i].host \in Hosts
    BY <1>1 DEF RemoteType
  <1>3. Usable(g, keys) \subseteq DOMAIN remotes
    BY DEF Usable
  <1>4. g # None => \A i \in Usable(g, keys) : remotes[i].host = g
    BY DEF Usable, Default
  <1> QED BY <1>1, <1>2, <1>3, <1>4

(* The remote gh takes is one of those it uses.                            *)
LEMMA RemoteTaken ==
    ASSUME remotes \in Seq(RemoteType), NEW c, NEW g, NEW keys,
           FromRemotes(Smart(c), g, keys) # None
    PROVE  \E i \in Usable(g, keys) : FromRemotes(Smart(c), g, keys) = remotes[i].host
  <1> DEFINE usable == Usable(g, keys)
             saved == {i \in usable : Smart(c) /\ remotes[i].saved # "no"}
  <1>1. usable \in SUBSET Nat /\ saved \in SUBSET Nat /\ saved \subseteq usable
    BY UsableRemotes
  <1>2. CASE saved # {}
    <2>1. First(saved) \in usable
      BY <1>1, <1>2, LeastExists
    <2>2. FromRemotes(Smart(c), g, keys) \in {None, remotes[First(saved)].host}
      BY <1>2 DEF FromRemotes
    <2> QED BY <2>1, <2>2
  <1>3. CASE saved = {} /\ usable # {}
    <2>1. First(usable) \in usable
      BY <1>1, <1>3, LeastExists
    <2>2. FromRemotes(Smart(c), g, keys) = remotes[First(usable)].host
      BY <1>3 DEF FromRemotes
    <2> QED BY <2>1, <2>2
  <1>4. CASE saved = {} /\ usable = {}
    BY <1>4 DEF FromRemotes
  <1> QED BY <1>2, <1>3, <1>4

(***************************************************************************)
(* Calls.                                                                  *)
(***************************************************************************)

LEMMA CallHost ==
    ASSUME NEW c \in Calls
    PROVE  /\ c \in CallType /\ WellFormed(c)
           /\ c.host \in Hosts \cup {"bare", "bad", None}
           /\ TargetsOnly(c) /\ c.place \in {"url", "hostname"} => c.host \in Hosts
           /\ c.host = None <=> c.place = "none"
  <1>1. c \in CallType /\ WellFormed(c)
    BY RouteAssumption
  <1>2. c.host \in Hosts \cup {"bare", "bad", None}
    BY <1>1 DEF CallType
  <1>3. TargetsOnly(c) /\ c.place \in {"url", "hostname"} => c.host \in Hosts
    BY <1>1 DEF WellFormed, TargetsOnly
  <1>4. c.host = None <=> c.place = "none"
    BY <1>1 DEF WellFormed
  <1> QED BY <1>1, <1>2, <1>3, <1>4

LEMMA DetectHost ==
    ASSUME NEW c \in Calls, NEW g \in Hosts \cup {None}, NEW keys \in SUBSET Hosts,
           ghRepo \in Hosts \cup {"bare", "bad", None}, remotes \in Seq(RemoteType)
    PROVE  Detect(c, g, keys) \in Hosts \cup {None}
  <1>1. CASE Selects(c) \/ c.place = "-R"
    BY <1>1, CallHost, OverrideHost DEF Detect
  <1>2. CASE ~(Selects(c) \/ c.place = "-R") /\ ghRepo # None
    BY <1>2, OverrideHost DEF Detect
  <1>3. CASE ~(Selects(c) \/ c.place = "-R") /\ ghRepo = None
    <2>1. Detect(c, g, keys) = FromRemotes(Smart(c), g, keys)
      BY <1>3 DEF Detect
    <2> QED BY <2>1, RemoteTaken, UsableRemotes
  <1> QED BY <1>1, <1>2, <1>3

(* gh reaches hosts.                                                       *)
LEMMA ReachHosts ==
    ASSUME NEW c \in Calls, NEW g \in Hosts \cup {None}, NEW keys \in SUBSET Hosts,
           ghRepo \in Hosts \cup {"bare", "bad", None}, remotes \in Seq(RemoteType)
    PROVE  GhReaches(c, g, keys) \subseteq Hosts
  <1>1. Default(g, keys) \in Hosts
    BY DefaultHost
  <1>2. Exact(c, g, keys) \subseteq Hosts
    BY <1>1, CallHost, DetectHost DEF Exact
  <1>3. InReach(c, g, keys) \subseteq Hosts
    <2>1. Override(ghRepo, g, keys) \in Hosts \cup {None}
      BY OverrideHost
    <2>2. \A i \in Usable(g, keys) : remotes[i].host \in Hosts
      BY UsableRemotes
    <2> QED BY <1>1, <2>1, <2>2 DEF InReach, WordNames
  <1> QED BY <1>2, <1>3 DEF GhReaches

(***************************************************************************)
(* Routing.                                                                *)
(***************************************************************************)

(* Where a decision for a forge comes from.                                *)
LEMMA RouteCases ==
    ASSUME NEW c
    PROVE  LET d == RouteByTarget(c)
               found == Detect(c, ghHost, LaunchKeys)
               theirs == Detect(c, ghHost, user.keys)
           IN  \/ d = Delegate
               \/ Target(c) # None /\ Served(Target(c)) /\ d = Forgejo(Target(c), FALSE)
               \/ Target(c) = None /\ Served(found) /\ d = Forgejo(found, FALSE)
               \/ Target(c) = None /\ ~Served(found) /\ Served(theirs) /\ d = Forgejo(theirs, TRUE)
               \/ Target(c) = None /\ found = None /\ Served(ghHost) /\ d = Forgejo(ghHost, FALSE)
  BY DEF RouteByTarget, HostRoute

(* What a decision may be, and the forge it names is an entry.             *)
LEMMA DecisionType ==
    ASSUME allow \in SUBSET Hosts, NEW c
    PROVE  /\ Decision(c).kind \in {"delegate", "refuse", "forgejo"}
           /\ Decision(c).theirs \in BOOLEAN
           /\ Decision(c).kind = "forgejo" <=> Decision(c).host \in Hosts
           /\ Decision(c).kind = "forgejo" => Decision(c).host \in Entries
                                              /\ Decision(c) = RouteByTarget(c)
  <1>1. ASSUME NEW h, NEW t, Served(h)
        PROVE  /\ Forgejo(h, t).kind = "forgejo" /\ Forgejo(h, t).theirs = t
               /\ Forgejo(h, t).host \in Hosts /\ Forgejo(h, t).host \in Entries
    <2>1. Serves(Forgejo(h, t).host, h)
      BY <1>1, RouteServes
    <2>2. Forgejo(h, t).host \in Hosts /\ Forgejo(h, t).host \in Entries
      BY <2>1, ServingName DEF Serves
    <2> QED BY <1>1, <2>2, RouteServes
  <1>2. \/ RouteByTarget(c) = Delegate
        \/ \E h : Served(h) /\ (RouteByTarget(c) = Forgejo(h, FALSE)
                                \/ RouteByTarget(c) = Forgejo(h, TRUE))
    BY RouteCases
  <1>3. Decision(c) \in {Refuse, Delegate, RouteByTarget(c)}
    BY DEF Decision
  <1>4. CASE Decision(c) \in {Refuse, Delegate}
    <2>1. Decision(c).theirs = FALSE
      BY <1>4 DEF Refuse, Delegate
    <2>2. Decision(c).theirs \in BOOLEAN
      BY <2>1, Zenon
    <2>3. Decision(c).kind \in {"delegate", "refuse"} /\ Decision(c).host \notin Hosts
      BY <1>4, RouteAssumption DEF Refuse, Delegate
    <2> QED BY <2>2, <2>3
  <1>5. CASE Decision(c) = RouteByTarget(c) /\ Decision(c) # Delegate
    <2>1. PICK h : Served(h) /\ (RouteByTarget(c) = Forgejo(h, FALSE)
                                 \/ RouteByTarget(c) = Forgejo(h, TRUE))
      BY <1>2, <1>5
    <2>2. PICK t : (t = FALSE \/ t = TRUE) /\ Decision(c) = Forgejo(h, t)
      BY <1>5, <2>1
    <2>3. Decision(c).theirs = t
      BY <1>1, <2>1, <2>2
    <2>4. Decision(c).theirs \in BOOLEAN
      BY <2>2, <2>3, Zenon
    <2>5. /\ Decision(c).kind = "forgejo"
          /\ Decision(c).host \in Hosts /\ Decision(c).host \in Entries
      BY <1>1, <2>1, <2>2
    <2> QED BY <1>5, <2>4, <2>5
  <1> QED BY <1>3, <1>4, <1>5

(***************************************************************************)
(* Plain gh.                                                               *)
(***************************************************************************)

(* With nothing in reach naming a forge, gh reaches none, however it picks.*)
LEMMA ReachesNone ==
    ASSUME TypeOK, ~ForgejoInReach(call), ~AllHosts,
           NEW h \in GhReaches(call, ghHost, user.keys)
    PROVE  ~Served(h)
  <1> USE DEF TypeOK
  <1>1. user.keys \in SUBSET Hosts
    BY DEF FileType
  <1>2. \A w \in WordNames(call) : ~Served(w)
    <2> SUFFICES ASSUME NEW w \in WordNames(call), Served(w) PROVE FALSE
      OBVIOUS
    <2>1. PICK e \in Entries : Serves(e, w)
      BY DEF Served
    <2>2. NameOf[w] = NameOf[e]
      BY <2>1, ServingName
    <2> QED BY <2>2 DEF ForgejoInReach
  <1>3. ~Served(Default(ghHost, user.keys))
    <2>1. CASE ghHost # None
      BY <1>1, <2>1, DefaultHost DEF ForgejoInReach
    <2>2. CASE ghHost = None /\ FromConfig(ghHost, user.keys)
      BY <2>2 DEF ForgejoInReach
    <2>3. CASE ghHost = None /\ ~FromConfig(ghHost, user.keys)
      BY <1>1, <2>3, DefaultHost, ServedIsHost
    <2> QED BY <2>1, <2>2, <2>3
  <1>4. ~Served(Override(ghRepo, ghHost, user.keys))
    <2>1. CASE ghRepo # None
      BY <2>1 DEF ForgejoInReach
    <2>2. CASE ghRepo = None
      <3>1. Override(ghRepo, ghHost, user.keys) = None
        BY <1>1, <2>2, OverrideHost
      <3> QED BY <3>1, ServedIsHost
    <2> QED BY <2>1, <2>2
  <1>5. \A i \in Usable(ghHost, user.keys) : ~Served(remotes[i].host)
    BY UsableRemotes DEF ForgejoInReach
  <1>6. CASE ~Precise(call)
    <2>1. h \in InReach(call, ghHost, user.keys)
      BY <1>6 DEF GhReaches
    <2> QED BY <1>2, <1>3, <1>4, <1>5, <2>1 DEF InReach
  <1>7. CASE Precise(call) /\ TargetsOnly(call)
    <2>1. h \in Exact(call, ghHost, user.keys)
      BY <1>7 DEF GhReaches
    <2>2. CASE call.place \in {"url", "hostname"}
      BY <1>2, <1>7, <2>1, <2>2, CallHost DEF Exact, WordNames
    <2>3. CASE call.place \notin {"url", "hostname"} /\ call.kind # "status"
      BY <1>3, <1>7, <2>1, <2>3 DEF Exact
    <2>4. CASE call.kind = "status" /\ call.place \notin {"url", "hostname", "none"}
      BY <2>4, CallHost DEF WellFormed
    <2> QED BY <2>2, <2>3, <2>4 DEF AllHosts
  <1>8. CASE Precise(call) /\ ~TargetsOnly(call)
    <2>1. h = Detect(call, ghHost, user.keys) /\ h # None
      BY <1>8 DEF GhReaches, Exact
    <2>2. CASE Selects(call) \/ call.place = "-R"
      <3>1. h = Override(call.host, ghHost, user.keys)
        BY <2>1, <2>2 DEF Detect
      <3>2. CASE call.host \in Hosts
        <4>1. h = call.host
          BY <1>1, <3>1, <3>2, OverrideHost
        <4>2. h \in WordNames(call)
          BY <3>2, <4>1 DEF WordNames
        <4> QED BY <1>2, <4>2
      <3>3. CASE call.host = "bare"
        BY <1>3, <3>1, <3>3 DEF Override
      <3>4. CASE call.host \in {"bad", None}
        BY <1>1, <2>1, <3>1, <3>4, OverrideHost
      <3> QED BY <3>2, <3>3, <3>4, CallHost
    <2>3. CASE ~(Selects(call) \/ call.place = "-R") /\ ghRepo # None
      BY <1>4, <2>1, <2>3 DEF Detect
    <2>4. CASE ~(Selects(call) \/ call.place = "-R") /\ ghRepo = None
      <3>1. h = FromRemotes(Smart(call), ghHost, user.keys)
        BY <2>1, <2>4 DEF Detect
      <3>2. remotes \in Seq(RemoteType)
        OBVIOUS
      <3>3. FromRemotes(Smart(call), ghHost, user.keys) # None
        BY <2>1, <3>1
      <3> HIDE DEF TypeOK
      <3>4. \E i \in Usable(ghHost, user.keys) :
               FromRemotes(Smart(call), ghHost, user.keys) = remotes[i].host
        BY <3>2, <3>3, RemoteTaken
      <3> QED BY <1>5, <3>1, <3>4
    <2> QED BY <2>2, <2>3, <2>4
  <1> QED BY <1>6, <1>7, <1>8

(***************************************************************************)
(* Stepped-aside gh.                                                       *)
(***************************************************************************)

LEMMA Types ==
    ASSUME TypeOK
    PROVE  /\ allow \in SUBSET Hosts /\ user.keys \in SUBSET Hosts
           /\ ghHost \in Hosts \cup {None} /\ ghRepo \in Hosts \cup {"bare", "bad", None}
           /\ remotes \in Seq(RemoteType) /\ call \in Calls
           /\ LaunchKeys \in SUBSET Hosts
  <1>1. /\ allow \in SUBSET Hosts /\ user.keys \in SUBSET Hosts
        /\ ghHost \in Hosts \cup {None} /\ ghRepo \in Hosts \cup {"bare", "bad", None}
        /\ remotes \in Seq(RemoteType) /\ call \in Calls
    BY DEF TypeOK, FileType
  <1>2. LaunchKeys \in SUBSET Hosts
    BY <1>1, RouteAssumption DEF LaunchKeys, EntryKeys
  <1> QED BY <1>1, <1>2

(* What the call and its environment name is what routing went by.         *)
LEMMA RoutingAgrees ==
    ASSUME TypeOK, route' = Decision(call), UNCHANGED <<world, call>>
    PROVE  Agrees'
  <1> DEFINE found == Detect(call, ghHost, LaunchKeys)
             theirs == Detect(call, ghHost, user.keys)
             named == Selects(call) \/ call.place = "-R"
  <1>0. Agrees' <=> (route'.kind = "forgejo" =>
            /\ TargetsOnly(call) /\ call.place \in {"url", "hostname"} => SameName(call.host)'
            /\ ~TargetsOnly(call) /\ named => SameName(call.host)'
            /\ ~TargetsOnly(call) /\ ~named => SameName(ghRepo)')
    BY DEF Agrees, world, TargetsOnly, Selects
  <1> SUFFICES ASSUME route'.kind = "forgejo"
               PROVE  /\ TargetsOnly(call) /\ call.place \in {"url", "hostname"} =>
                           SameName(call.host)'
                      /\ ~TargetsOnly(call) /\ named => SameName(call.host)'
                      /\ ~TargetsOnly(call) /\ ~named => SameName(ghRepo)'
    BY <1>0
  <1>1. allow \in SUBSET Hosts /\ route' = RouteByTarget(call) /\ route' # Delegate
    BY Types, DecisionType DEF Delegate
  <1>2. \A h : Served(h) /\ (route' = Forgejo(h, FALSE) \/ route' = Forgejo(h, TRUE)) =>
            NameOf[h] = NameOf[route'.host]
    <2>1. ASSUME NEW h, Served(h), route' = Forgejo(h, FALSE)
          PROVE  NameOf[h] = NameOf[route'.host]
      <3>1. Serves(Forgejo(h, FALSE).host, h)
        BY <2>1, RouteServes
      <3>2. Serves(route'.host, h)
        BY <2>1, <3>1
      <3> QED BY <1>1, <3>2, ServingName
    <2>2. ASSUME NEW h, Served(h), route' = Forgejo(h, TRUE)
          PROVE  NameOf[h] = NameOf[route'.host]
      <3>1. Serves(Forgejo(h, TRUE).host, h)
        BY <2>2, RouteServes
      <3>2. Serves(route'.host, h)
        BY <2>2, <3>1
      <3> QED BY <1>1, <3>2, ServingName
    <2> QED BY <2>1, <2>2
  <1>3. CASE TargetsOnly(call) /\ call.place \in {"url", "hostname"}
    <2>1. Target(call) = call.host
      BY <1>3, CallHost, Types DEF Target, TargetsOnly, WellFormed
    <2>2. call.host # None
      BY <1>3, CallHost, Types
    <2>3. Served(call.host) /\ route' = Forgejo(call.host, FALSE)
      BY <1>1, <2>1, <2>2, RouteCases
    <2> QED BY <1>2, <1>3, <2>3 DEF SameName, world
  <1>4. CASE ~TargetsOnly(call)
    <2>1. Target(call) = None
      BY <1>4 DEF Target, TargetsOnly
    <2>2. ASSUME NEW h \in Hosts, found = h, theirs = h
          PROVE  NameOf[h] = NameOf[route'.host]
      <3>1. h # None
        BY RouteAssumption
      <3>2. Served(h) /\ (route' = Forgejo(h, FALSE) \/ route' = Forgejo(h, TRUE))
        BY <1>1, <2>1, <2>2, <3>1, RouteCases
      <3> QED BY <1>2, <3>2
    <2>3. ASSUME named, call.host \in Hosts PROVE found = call.host /\ theirs = call.host
      BY <2>3, Types, OverrideHost DEF Detect
    <2>4. ASSUME ~named, ghRepo \in Hosts PROVE found = ghRepo /\ theirs = ghRepo
      BY <2>4, Types, OverrideHost, RouteAssumption DEF Detect
    <2> QED BY <1>4, <2>2, <2>3, <2>4 DEF SameName, world
  <1> QED BY <1>3, <1>4

(* With GH_HOST the forge, gh stays there.                                 *)
LEMMA StaysOnForge ==
    ASSUME TypeOK, Agrees, route.kind = "forgejo", ~AllHosts,
           Precise(call) \/ (~TargetsOnly(call) /\ ~NamesAnotherHost(route.host)),
           NEW h \in GhReaches(call, NameOf[route.host], user.keys)
    PROVE  NameOf[h] = NameOf[route.host]
  <1> DEFINE n == NameOf[route.host]
  <1>1. n \in Hosts /\ n # None /\ NameOf[n] = n
    <2>1. route.host \in Hosts
      BY DEF TypeOK
    <2> QED BY <2>1, RouteAssumption
  <1>2. NameOf[Default(n, user.keys)] = n
    BY <1>1, DefaultHost, Types
  <1>3. \A i \in Usable(n, user.keys) : NameOf[remotes[i].host] = n
    BY <1>1, UsableRemotes, Types
  <1>4. \A spec \in {"bare", "bad", None} : Override(spec, n, user.keys) # None =>
            NameOf[Override(spec, n, user.keys)] = n
    <2>1. Override("bare", n, user.keys) = Default(n, user.keys)
      BY DEF Override
    <2>2. \A spec \in {"bad", None} : Override(spec, n, user.keys) = None
      BY <1>1, OverrideHost, Types
    <2> QED BY <1>2, <2>1, <2>2
  <1>5. CASE Precise(call) /\ TargetsOnly(call)
    <2>1. h \in Exact(call, n, user.keys)
      BY <1>5 DEF GhReaches
    <2>2. CASE call.place \in {"url", "hostname"}
      <3>1. h = call.host /\ h \in Hosts
        BY <1>5, <2>1, <2>2, CallHost, Types DEF Exact
      <3> QED BY <1>5, <2>2, <3>1 DEF Agrees, SameName
    <2>3. CASE call.place \notin {"url", "hostname"}
      <3>1. call.kind # "status"
        BY <2>3, CallHost, Types DEF AllHosts, WellFormed
      <3> QED BY <1>2, <1>5, <2>1, <2>3, <3>1 DEF Exact
    <2> QED BY <2>2, <2>3
  <1>6. CASE Precise(call) /\ ~TargetsOnly(call)
    <2>1. h = Detect(call, n, user.keys) /\ h # None
      BY <1>6 DEF GhReaches, Exact
    <2>2. CASE Selects(call) \/ call.place = "-R"
      <3>1. h = Override(call.host, n, user.keys)
        BY <2>1, <2>2 DEF Detect
      <3>2. CASE call.host \in Hosts
        <4>1. h = call.host
          BY <1>1, <3>1, <3>2, OverrideHost, Types
        <4> QED BY <1>6, <2>2, <3>2, <4>1 DEF Agrees, SameName
      <3>3. CASE call.host \in {"bare", "bad", None}
        BY <1>4, <2>1, <3>1, <3>3
      <3> QED BY <3>2, <3>3, CallHost, Types
    <2>3. CASE ~(Selects(call) \/ call.place = "-R") /\ ghRepo # None
      <3>1. h = Override(ghRepo, n, user.keys)
        BY <2>1, <2>3 DEF Detect
      <3>2. CASE ghRepo \in Hosts
        <4>1. h = ghRepo
          BY <1>1, <3>1, <3>2, OverrideHost, Types
        <4> QED BY <1>6, <2>3, <3>2, <4>1 DEF Agrees, SameName
      <3>3. CASE ghRepo \in {"bare", "bad", None}
        BY <1>4, <2>1, <3>1, <3>3
      <3> QED BY <3>2, <3>3, Types
    <2>4. CASE ~(Selects(call) \/ call.place = "-R") /\ ghRepo = None
      <3>1. h = FromRemotes(Smart(call), n, user.keys)
        BY <2>1, <2>4 DEF Detect
      <3>2. FromRemotes(Smart(call), n, user.keys) # None
        BY <2>1, <3>1
      <3>3. \E i \in Usable(n, user.keys) :
               FromRemotes(Smart(call), n, user.keys) = remotes[i].host
        BY <3>2, RemoteTaken, Types
      <3> QED BY <1>3, <3>1, <3>3
    <2> QED BY <2>2, <2>3, <2>4
  <1>7. CASE ~Precise(call) /\ ~TargetsOnly(call) /\ ~NamesAnotherHost(route.host)
    <2>1. h \in InReach(call, n, user.keys)
      BY <1>7 DEF GhReaches
    <2>2. \A w \in WordNames(call) : NameOf[w] = n
      BY <1>7 DEF NamesAnotherHost
    <2>3. Override(ghRepo, n, user.keys) # None => NameOf[Override(ghRepo, n, user.keys)] = n
      <3>1. CASE ghRepo \in Hosts
        <4>1. Override(ghRepo, n, user.keys) = ghRepo
          BY <1>1, <3>1, OverrideHost, Types
        <4> QED BY <1>7, <3>1, <4>1 DEF NamesAnotherHost
      <3>2. CASE ghRepo \in {"bare", "bad", None}
        BY <1>4, <3>2
      <3> QED BY <3>1, <3>2, Types
    <2> QED BY <1>2, <1>3, <2>1, <2>2, <2>3 DEF InReach
  <1> QED BY <1>5, <1>6, <1>7

(***************************************************************************)
(* Launched gh.                                                            *)
(***************************************************************************)

(* With the files as routing read them a launched gh asks only for hosts   *)
(* that the routed entry serves.                                           *)
LEMMA LaunchReach ==
    ASSUME TypeOK, route = Decision(call), route.kind = "forgejo", ~route.theirs,
           call.listed, ~AllHosts,
           NEW h \in GhReaches(call, LaunchedGhHost, LaunchKeys)
    PROVE  Serves(route.host, h)
  <1> DEFINE n == NameOf[route.host]
             found == Detect(call, ghHost, LaunchKeys)
             theirs == Detect(call, ghHost, user.keys)
  <1>1. /\ allow \in SUBSET Hosts /\ route = RouteByTarget(call)
        /\ route # Delegate /\ route.host \in Entries /\ route.host \in Hosts
    BY Types, DecisionType DEF Delegate
  <1>2. n \in Hosts /\ n # None
    BY <1>1, RouteAssumption
  <1>3. \A x : Served(x) /\ route = Forgejo(x, FALSE) => Serves(route.host, x)
    BY RouteServes
  <1>4. \A x : Served(x) => route # Forgejo(x, TRUE)
    BY RouteServes
  <1>5. h \in Exact(call, LaunchedGhHost, LaunchKeys)
    BY DEF GhReaches, Precise
  <1>6. Serves(route.host, n)
    <2>1. \E x : Served(x) /\ route = Forgejo(x, FALSE)
      BY <1>1, <1>4, RouteCases
    <2>2. \E x : Serves(route.host, x)
      BY <1>3, <2>1
    <2> QED BY <2>2 DEF Serves
  <1>7. CASE TargetsOnly(call) /\ call.place \in {"url", "hostname"}
    <2>1. h = call.host /\ call.host # None
      BY <1>5, <1>7, CallHost, Types DEF Exact
    <2>2. Target(call) = call.host
      BY <1>7, CallHost, Types DEF Target, TargetsOnly, WellFormed
    <2>3. Served(call.host) /\ route = Forgejo(call.host, FALSE)
      BY <1>1, <2>1, <2>2, RouteCases
    <2> QED BY <1>3, <2>1, <2>3
  <1>8. CASE TargetsOnly(call) /\ call.place \notin {"url", "hostname"}
    <2>1. call.kind # "status"
      BY <1>8, CallHost, Types DEF AllHosts, WellFormed
    <2>2. h = Default(LaunchedGhHost, LaunchKeys) /\ LaunchedGhHost = n
      BY <1>5, <1>8, <2>1 DEF Exact, LaunchedGhHost, TargetsOnly
    <2>3. h = n
      BY <1>2, <2>2, DefaultHost, Types
    <2> QED BY <1>6, <2>3
  <1>9. CASE ~TargetsOnly(call)
    <2>1. LaunchedGhHost = ghHost /\ Target(call) = None
      BY <1>9 DEF LaunchedGhHost, TargetsOnly, Target
    <2>2. h = found /\ h # None
      BY <1>5, <1>9, <2>1 DEF Exact
    <2>3. Served(found) /\ route = Forgejo(found, FALSE)
      BY <1>1, <1>4, <2>1, <2>2, RouteCases
    <2> QED BY <1>3, <2>2, <2>3
  <1> QED BY <1>7, <1>8, <1>9

(* So its gateway answers it.                                              *)
LEMMA LaunchAnswered ==
    ASSUME TypeOK, route = Decision(call), route.kind = "forgejo", ~route.theirs,
           call.listed, ~AllHosts, served = {route.host}, given = LaunchKeys,
           NEW h \in GhReaches(call, LaunchedGhHost, given)
    PROVE  Answering(h) # {}
  <1>1. Serves(route.host, h)
    BY LaunchReach
  <1>2. NameOf[h] = NameOf[route.host] /\ route.host \in allow
    BY <1>1, ServingName, Types
  <1>3. NameOf[h] \in given
    BY <1>2 DEF LaunchKeys, EntryKeys
  <1>4. h \in {route.host, NameOf[route.host]}
    BY <1>1 DEF Serves
  <1> QED BY <1>3, <1>4 DEF Answering

(* No two entries served answer to one name.                               *)
LEMMA ServingDistinct ==
    ASSUME allow \in SUBSET Hosts, route.host \in allow, NEW ready
    PROVE  ~Clash(Serving(ready))
  <1> SUFFICES ASSUME NEW e \in Serving(ready), NEW f \in Serving(ready),
                      e # f, NameOf[e] = NameOf[f]
               PROVE  FALSE
    BY DEF Clash
  <1>1. \A x \in Serving(ready) : x \in allow
    BY DEF Serving, OthersServed
  <1>2. \A x \in Serving(ready), g \in allow :
            x # route.host /\ NameOf[g] = NameOf[x] => g = x
    BY DEF Serving, OthersServed
  <1> QED BY <1>1, <1>2

(***************************************************************************)
(* The invariant.                                                          *)
(***************************************************************************)

(* What is worked out from files that did not change did not change.       *)
LEMMA SameWorld ==
    ASSUME UNCHANGED <<world, call>>
    PROVE  /\ Decision(call)' = Decision(call) /\ LaunchKeys' = LaunchKeys
           /\ \A h : Served(h)' <=> Served(h)
  <1>1. \A h : Served(h)' <=> Served(h)
    BY DEF world, Served, Serves, Entries
  <1>2. LaunchKeys' = LaunchKeys
    BY DEF world, LaunchKeys, EntryKeys
  <1> USE DEF world, Served, Serves, Entries, Override, Usable, First, Known, Default, FromConfig,
              LaunchKeys, EntryKeys, TargetsOnly, Selects, Smart, Refuse, Delegate, Forgejo
  <1>3. RouteByTarget(call)' = RouteByTarget(call)
    BY DEF RouteByTarget, HostRoute, Target, Detect, FromRemotes
  <1>4. ForgejoInReach(call)' <=> ForgejoInReach(call)
    BY DEF ForgejoInReach, WordNames
  <1> HIDE DEF Served
  <1>5. Decision(call)' = Decision(call)
    BY <1>3, <1>4 DEF Decision, OnItsOwn
  <1> QED BY <1>1, <1>2, <1>5

LEMMA InitInv ==
    ASSUME Init
    PROVE  IInv
  <1>1. TypeOK
    <2>1. route.theirs = FALSE /\ edited = FALSE
      BY DEF Init, NoRoute
    <2>2. route.theirs \in BOOLEAN /\ edited \in BOOLEAN
      BY <2>1, Zenon
    <2> QED BY <2>2, RouteAssumption DEF Init, TypeOK, NoRoute, NoRequest
  <1>2. Decided /\ Agrees /\ CameHere
    BY DEF Init, Decided, Agrees, CameHere, NoRoute
  <1>3. StaysAway /\ AsideStays /\ LaunchStays /\ NeverClashes
    BY DEF Init, StaysAway, AsideStays, LaunchStays, NeverClashes
  <1> QED BY <1>1, <1>2, <1>3 DEF IInv

LEMMA DecideStep ==
    ASSUME IInv, Decide
    PROVE  IInv'
  <1>1. /\ TypeOK /\ at = "call" /\ request = NoRequest /\ ~edited
        /\ route' = Decision(call)
        /\ UNCHANGED <<world, call, given, served, request, edited>>
    BY DEF IInv, CameHere, Decide
  <1>2. /\ at' \in {"end", "plain", "help", "launch", "unlaunched"}
        /\ at' = "plain" => route'.kind = "delegate"
        /\ at' \in {"help", "launch", "unlaunched"} => route'.kind = "forgejo"
        /\ at' = "launch" => call.listed
    BY DEF Decide, Goes
  <1>3. /\ route'.kind \in {"delegate", "refuse", "forgejo"} /\ route'.theirs \in BOOLEAN
        /\ route'.kind = "forgejo" <=> route'.host \in Hosts
    BY <1>1, Types, DecisionType, Zenon
  <1>4. TypeOK'
    BY <1>1, <1>2, <1>3 DEF TypeOK, world
  <1>5. Decided'
    BY <1>1, SameWorld DEF Decided, world
  <1>6. Agrees'
    BY <1>1, RoutingAgrees
  <1>7. CameHere'
    BY <1>1, <1>2 DEF CameHere
  <1>8. StaysAway'
    <2>1. ~Served(request.host)
      BY <1>1, Types, ServedIsHost, RouteAssumption DEF NoRequest
    <2>2. ~Served(request.host)'
      BY <1>1, <2>1 DEF world, Served, Serves, Entries
    <2> QED BY <2>2 DEF StaysAway
  <1>9. AsideStays' /\ LaunchStays' /\ NeverClashes'
    BY <1>2 DEF AsideStays, LaunchStays, NeverClashes
  <1> QED BY <1>4, <1>5, <1>6, <1>7, <1>8, <1>9 DEF IInv

(* Fails, LaunchAside, NotLaunched, LateAside and BuiltIn only move the    *)
(* call on, and it steps aside only when listed or nothing names another.  *)
LEMMA MoveStep ==
    ASSUME IInv, UNCHANGED <<world, call, route, given, served, request, edited>>,
           at \in {"launch", "unlaunched", "built in"},
           at' \in {"end", "aside", "unlaunched", "built in"},
           at' = "aside" => call.listed \/ ~NamesAnotherHost(route.host)
    PROVE  IInv'
  <1>1. TypeOK'
    BY DEF IInv, TypeOK, world
  <1>2. Decided'
    BY SameWorld DEF IInv, Decided, world
  <1>3. Agrees'
    BY DEF IInv, Agrees, SameName, TargetsOnly, Selects, world
  <1>4. CameHere'
    BY DEF IInv, CameHere, NamesAnotherHost, TargetsOnly, WordNames, world
  <1>5. StaysAway' /\ LaunchStays' /\ NeverClashes'
    BY DEF StaysAway, LaunchStays, NeverClashes
  <1>6. request = NoRequest /\ request' = request
    BY DEF IInv, CameHere
  <1>7. NoRequest.host = None
    BY DEF NoRequest
  <1>8. request'.host = None
    BY <1>6, <1>7, Zenon
  <1>9. AsideStays'
    BY <1>8, Zenon DEF AsideStays
  <1> QED BY <1>1, <1>2, <1>3, <1>4, <1>5, <1>9 DEF IInv

LEMMA LaunchStep ==
    ASSUME IInv, Launch
    PROVE  IInv'
  <1>1. PICK ready \in Ready : Serving(ready) # {} /\ served' = Serving(ready)
    BY DEF Launch
  <1>2. /\ TypeOK /\ at = "launch" /\ request = NoRequest /\ call.listed
        /\ ~route.theirs /\ given' = LaunchKeys
        /\ UNCHANGED <<world, call, route, request, edited>>
        /\ at' = IF Clash(served') THEN "clash" ELSE "launched"
    BY DEF IInv, CameHere, Launch, Goes
  <1>3. route.host \in Hosts /\ allow \in SUBSET Hosts /\ LaunchKeys \in SUBSET Hosts
    BY <1>2, Types DEF TypeOK
  <1>4. served' \subseteq Hosts
    BY <1>1, <1>3 DEF Serving, OthersServed
  <1>5. TypeOK'
    BY <1>2, <1>3, <1>4 DEF TypeOK, world
  <1>6. Decided'
    BY <1>2, SameWorld DEF IInv, Decided, world
  <1>7. Agrees'
    BY <1>2 DEF IInv, Agrees, SameName, TargetsOnly, Selects, world
  <1>8. ~AllHosts => served' = {route.host}
    BY <1>1 DEF Serving
  <1>9. CameHere'
    BY <1>2, <1>8, SameWorld DEF CameHere, AllHosts
  <1>10. NeverClashes'
    <2> SUFFICES ASSUME at' = "clash", ~edited PROVE FALSE
      BY <1>2 DEF NeverClashes
    <2>1. route = Decision(call)
      BY <1>2 DEF IInv, Decided
    <2>2. route.host \in allow
      BY <1>3, <2>1, DecisionType DEF Entries
    <2>3. Clash(served')
      BY <1>2
    <2>4. Clash(Serving(ready))
      BY <1>1, <2>3
    <2> QED BY <1>3, <2>2, <2>4, ServingDistinct
  <1>11. StaysAway' /\ AsideStays' /\ LaunchStays'
    BY <1>2 DEF StaysAway, AsideStays, LaunchStays
  <1> QED BY <1>5, <1>6, <1>7, <1>9, <1>10, <1>11 DEF IInv

LEMMA EditStep ==
    ASSUME IInv, Edit
    PROVE  IInv'
  <1>1. /\ edited' = TRUE /\ at \in {"launch", "unlaunched", "aside"}
        /\ UNCHANGED <<ghHost, ghRepo, remotes, call, at, route, given, served, request>>
        /\ allow' \in SUBSET Hosts
        /\ user' \in FileType
    BY RouteAssumption DEF Edit, IInv, TypeOK
  <1>2. edited' \in BOOLEAN
    BY <1>1, Zenon
  <1>3. TypeOK'
    BY <1>1, <1>2 DEF IInv, TypeOK
  <1>4. Decided' /\ NeverClashes'
    BY <1>1 DEF Decided, NeverClashes
  <1>5. Agrees'
    BY <1>1 DEF IInv, Agrees, SameName, TargetsOnly, Selects
  <1>6. CameHere'
    BY <1>1 DEF IInv, CameHere, NamesAnotherHost, TargetsOnly, WordNames
  <1>7. StaysAway' /\ LaunchStays'
    BY <1>1 DEF StaysAway, LaunchStays
  <1>8. AsideStays'
    BY <1>1 DEF IInv, AsideStays, AllHosts, TargetsOnly, Precise
  <1> QED BY <1>3, <1>4, <1>5, <1>6, <1>7, <1>8 DEF IInv

(* What a gh asks and who answers changes nothing else.                    *)
LEMMA AskStep ==
    ASSUME IInv, UNCHANGED <<world, call, at, route, given, served, edited>>,
           at \in {"plain", "aside", "launched"},
           request' \in [host : Hosts \cup {None}, by : Hosts \cup {None}]
    PROVE  /\ TypeOK' /\ Decided' /\ Agrees' /\ CameHere' /\ NeverClashes'
           /\ at # "plain" => StaysAway'
           /\ at # "aside" => AsideStays'
           /\ at # "launched" => LaunchStays'
  <1>1. TypeOK'
    BY DEF IInv, TypeOK, world
  <1>2. Decided'
    BY SameWorld DEF IInv, Decided, world
  <1>3. Agrees'
    BY DEF IInv, Agrees, SameName, TargetsOnly, Selects, world
  <1>4. CameHere'
    BY SameWorld DEF IInv, CameHere, NamesAnotherHost, TargetsOnly, WordNames, AllHosts, world
  <1>5. NeverClashes'
    BY DEF IInv, NeverClashes
  <1> QED BY <1>1, <1>2, <1>3, <1>4, <1>5 DEF StaysAway, AsideStays, LaunchStays

LEMMA PlainStep ==
    ASSUME IInv, PlainGh
    PROVE  IInv'
  <1>1. PICK h \in GhReaches(call, ghHost, user.keys) : request' = [host |-> h, by |-> h]
    BY DEF PlainGh
  <1>2. at = "plain" /\ UNCHANGED <<world, call, at, route, given, served, edited>>
    BY DEF PlainGh
  <1>3. h \in Hosts
    BY ReachHosts, Types DEF IInv
  <1>4. /\ TypeOK' /\ Decided' /\ Agrees' /\ CameHere' /\ NeverClashes'
        /\ AsideStays' /\ LaunchStays'
    BY <1>1, <1>2, <1>3, AskStep
  <1>5. StaysAway'
    <2> SUFFICES ASSUME ~OnItsOwn(call), ~AllHosts PROVE ~Served(h)
      BY <1>1, <1>2, SameWorld DEF StaysAway, OnItsOwn, AllHosts
    <2>1. Decision(call).kind = "delegate"
      BY <1>2 DEF IInv, CameHere, Decided
    <2>2. ~ForgejoInReach(call)
      <3> SUFFICES ASSUME ForgejoInReach(call) PROVE FALSE
        OBVIOUS
      <3>1. Decision(call).kind # "forgejo" /\ Decision(call) \in {Refuse, RouteByTarget(call)}
            /\ Decision(call) # Delegate
        BY <2>1 DEF Decision, Refuse, Delegate
      <3>2. Decision(call) = RouteByTarget(call)
        BY <2>1, <3>1 DEF Refuse
      <3>3. \E x, t : Served(x) /\ Decision(call) = Forgejo(x, t)
        BY <3>1, <3>2, RouteCases
      <3> QED BY <3>1, <3>3, RouteServes
    <2> QED BY <2>2, ReachesNone DEF IInv
  <1> QED BY <1>4, <1>5 DEF IInv

LEMMA AsideStep ==
    ASSUME IInv, AsideGh
    PROVE  IInv'
  <1>1. PICK h \in GhReaches(call, NameOf[route.host], user.keys) :
          request' = [host |-> h, by |-> h]
    BY DEF AsideGh
  <1>2. at = "aside" /\ UNCHANGED <<world, call, at, route, given, served, edited>>
    BY DEF AsideGh
  <1>3. route.host \in Hosts /\ route.kind = "forgejo" /\ NameOf[route.host] \in Hosts
    BY <1>2, RouteAssumption DEF IInv, TypeOK
  <1>4. h \in Hosts
    BY <1>3, ReachHosts, Types DEF IInv
  <1>5. /\ TypeOK' /\ Decided' /\ Agrees' /\ CameHere' /\ NeverClashes'
        /\ StaysAway' /\ LaunchStays'
    BY <1>1, <1>2, <1>4, AskStep
  <1>6. AsideStays'
    <2> SUFFICES ASSUME ~AllHosts, TargetsOnly(call) => Precise(call)
                 PROVE  NameOf[h] = NameOf[route.host]
      BY <1>1, <1>2 DEF AsideStays, AllHosts, TargetsOnly, Precise
    <2>1. Precise(call) \/ (~TargetsOnly(call) /\ ~NamesAnotherHost(route.host))
      BY <1>2 DEF IInv, CameHere, Precise
    <2> QED BY <1>3, <2>1, StaysOnForge DEF IInv
  <1> QED BY <1>5, <1>6 DEF IInv

LEMMA LaunchedStep ==
    ASSUME IInv, LaunchedGh
    PROVE  IInv'
  <1>1. PICK h \in GhReaches(call, LaunchedGhHost, given) :
          \/ \E e \in Answering(h) : request' = [host |-> h, by |-> e]
          \/ Answering(h) = {} /\ request' = [host |-> h, by |-> None]
    BY DEF LaunchedGh
  <1>2. at = "launched" /\ UNCHANGED <<world, call, at, route, given, served, edited>>
    BY DEF LaunchedGh
  <1>3. /\ TypeOK /\ route.host \in Hosts /\ route.kind = "forgejo" /\ NameOf[route.host] \in Hosts
        /\ given \in SUBSET Hosts /\ served \in SUBSET Hosts
    BY <1>2, RouteAssumption DEF IInv, TypeOK
  <1>4. LaunchedGhHost \in Hosts \cup {None}
    BY <1>3, Types DEF LaunchedGhHost
  <1>5. h \in Hosts
    BY <1>3, <1>4, ReachHosts, Types
  <1>6. request' \in [host : Hosts \cup {None}, by : Hosts \cup {None}]
    BY <1>1, <1>3, <1>5 DEF Answering
  <1>7. /\ TypeOK' /\ Decided' /\ Agrees' /\ CameHere' /\ NeverClashes'
        /\ StaysAway' /\ AsideStays'
    BY <1>2, <1>6, AskStep
  <1>8. LaunchStays'
    <2> SUFFICES ASSUME ~AllHosts
                 PROVE  request'.by \in {route.host} \cup IF edited THEN {None} ELSE {}
      BY <1>2 DEF LaunchStays, AllHosts
    <2>1. served = {route.host} /\ call.listed /\ ~route.theirs
          /\ (~edited => given = LaunchKeys /\ route = Decision(call))
      BY <1>2 DEF IInv, CameHere, Decided
    <2>2. CASE \E e \in Answering(h) : request' = [host |-> h, by |-> e]
      BY <2>1, <2>2 DEF Answering
    <2>3. CASE Answering(h) = {} /\ request' = [host |-> h, by |-> None]
      <3>1. edited
        BY <1>3, <2>1, <2>3, LaunchAnswered
      <3> QED BY <2>3, <3>1
    <2> QED BY <1>1, <2>2, <2>3
  <1> QED BY <1>7, <1>8 DEF IInv

LEMMA Stutter ==
    ASSUME IInv, UNCHANGED vars
    PROVE  IInv'
  <1>1. TypeOK' /\ NeverClashes'
    BY DEF IInv, TypeOK, NeverClashes, vars, world
  <1>2. Decided'
    BY SameWorld DEF IInv, Decided, vars
  <1>3. Agrees'
    BY DEF IInv, Agrees, SameName, TargetsOnly, Selects, vars, world
  <1>4. CameHere'
    BY SameWorld DEF IInv, CameHere, NamesAnotherHost, TargetsOnly, WordNames, AllHosts,
                     vars, world
  <1>5. StaysAway'
    BY SameWorld DEF IInv, StaysAway, OnItsOwn, AllHosts, vars
  <1>6. AsideStays' /\ LaunchStays'
    BY DEF IInv, AsideStays, LaunchStays, AllHosts, TargetsOnly, Precise, vars, world
  <1> QED BY <1>1, <1>2, <1>3, <1>4, <1>5, <1>6 DEF IInv

(* The invariant is inductive.                                             *)
THEOREM Inductive == Spec => []IInv
  <1>1. Init => IInv
    BY InitInv
  <1>2. IInv /\ [Next]_vars => IInv'
    <2> SUFFICES ASSUME IInv, [Next]_vars PROVE IInv'
      OBVIOUS
    <2>1. CASE Decide
      BY <2>1, DecideStep
    <2>2. CASE Fails
      BY <2>2, MoveStep DEF Fails, Goes
    <2>3. CASE LaunchAside
      <3>1. call.listed
        BY <2>3 DEF IInv, CameHere, LaunchAside
      <3> QED BY <2>3, <3>1, MoveStep DEF LaunchAside, StepAside, Goes
    <2>4. CASE NotLaunched
      BY <2>4, MoveStep DEF NotLaunched, Goes
    <2>5. CASE Launch
      BY <2>5, LaunchStep
    <2>6. CASE LateAside
      <3>1. ~NamesAnotherHost(route.host)
        BY <2>6 DEF LateAside, MayStepAside
      <3> QED BY <2>6, <3>1, MoveStep DEF LateAside, StepAside, Goes
    <2>7. CASE BuiltIn
      BY <2>7, MoveStep DEF BuiltIn, Goes
    <2>8. CASE Edit
      BY <2>8, EditStep
    <2>9. CASE PlainGh
      BY <2>9, PlainStep
    <2>10. CASE AsideGh
      BY <2>10, AsideStep
    <2>11. CASE LaunchedGh
      BY <2>11, LaunchedStep
    <2>12. CASE UNCHANGED vars
      BY <2>12, Stutter
    <2> QED BY <2>1, <2>2, <2>3, <2>4, <2>5, <2>6, <2>7, <2>8, <2>9, <2>10, <2>11, <2>12 DEF Next
  <1> QED BY <1>1, <1>2, PTL DEF Spec

(* Every variable keeps its type.                                          *)
THEOREM TypeCorrect == Spec => []TypeOK
  <1>1. IInv => TypeOK
    BY DEF IInv
  <1> QED BY <1>1, Inductive, PTL

(* Off the delegate list plain gh never asks a served forge anything.      *)
THEOREM PlainGhStaysAway == Spec => []StaysAway
  <1>1. IInv => StaysAway
    BY DEF IInv
  <1> QED BY <1>1, Inductive, PTL

(* A stepped-aside gh stays on the forge routing chose.                    *)
THEOREM AsideGhStays == Spec => []AsideStays
  <1>1. IInv => AsideStays
    BY DEF IInv
  <1> QED BY <1>1, Inductive, PTL

(* A launched gh is answered by the forge routing chose, or refused once   *)
(* the files changed.                                                      *)
THEOREM LaunchedGhStays == Spec => []LaunchStays
  <1>1. IInv => LaunchStays
    BY DEF IInv
  <1> QED BY <1>1, Inductive, PTL

(* No two forges served answer to one hostname, unless the files changed.  *)
THEOREM GatewayStarts == Spec => []NeverClashes
  <1>1. IInv => NeverClashes
    BY DEF IInv
  <1> QED BY <1>1, Inductive, PTL

(* Whichever way gh runs, it asks the host routing chose.                  *)
THEOREM GhGoesWhereRouted == Spec => []RightHost
<1>1. StaysAway /\ AsideStays /\ LaunchStays /\ NeverClashes => RightHost
  BY DEF RightHost
<1>2. QED
  BY <1>1, PlainGhStaysAway, AsideGhStays, LaunchedGhStays, GatewayStarts, PTL

(***************************************************************************)
(* Pushes.                                                                 *)
(***************************************************************************)

(* A name in a URL is preceded by a first one.                             *)
LEMMA FirstName ==
    ASSUME NEW S, NEW url \in Seq(S), NEW i \in DOMAIN url, HostAt(url, i)
    PROVE  /\ \A k \in DOMAIN url : HostAt(url, k) <=> k = i
           /\ HostIn(url) = url[i]
  <1>1. \A k \in DOMAIN url : HostAt(url, k) => k = i
    <2> SUFFICES ASSUME NEW k \in DOMAIN url, HostAt(url, k), k # i PROVE FALSE
      OBVIOUS
    <2>1. i \in Nat /\ k \in Nat /\ i >= 1 /\ k >= 1
      OBVIOUS
    <2>2. CASE i < k
      <3>1. i \in 1..(k - 1)
        BY <2>1, <2>2
      <3> QED BY <3>1 DEF HostAt
    <2>3. CASE k < i
      <3>1. k \in 1..(i - 1)
        BY <2>1, <2>3
      <3> QED BY <3>1 DEF HostAt
    <2> QED BY <2>1, <2>2, <2>3
  <1>2. (CHOOSE k \in DOMAIN url : HostAt(url, k)) = i
    BY <1>1
  <1> QED BY <1>1, <1>2 DEF HostIn

(* What comes after a URL's host changes neither host, user nor scheme.    *)
LEMMA HostStays ==
    ASSUME NEW S, NEW T, NEW base \in Seq(S), NEW rest \in Seq(T), HostIn(base) # NoHost
    PROVE  /\ HostIn(base \o rest) = HostIn(base)
           /\ UserOf(base \o rest) = UserOf(base)
           /\ Ssh(base \o rest) <=> Ssh(base)
  <1> DEFINE url == base \o rest
  <1>1. PICK i \in DOMAIN base : HostAt(base, i)
    BY DEF HostIn
  <1>2. /\ i \in Nat /\ i >= 1 /\ i <= Len(base) /\ Len(base) \in Nat
        /\ DOMAIN base = 1..Len(base)
    OBVIOUS
  <1>3. /\ url \in Seq(S \union T) /\ Len(url) = Len(base) + Len(rest)
        /\ \A k \in 1..Len(base) : url[k] = base[k]
        /\ DOMAIN url = 1..Len(url) /\ Len(rest) \in Nat
    OBVIOUS
  <1>4. i \in DOMAIN url /\ HostAt(url, i)
    BY <1>1, <1>2, <1>3 DEF HostAt
  <1>5. HostIn(url) = url[i] /\ HostIn(base) = base[i]
    BY <1>1, <1>3, <1>4, FirstName
  <1>6. (\E k \in DOMAIN url : url[k] = "git@" /\ \A j \in 1..k : url[j] \notin Names)
        <=> (\E k \in DOMAIN base : base[k] = "git@" /\ \A j \in 1..k : base[j] \notin Names)
    <2>1. ASSUME NEW k \in DOMAIN base, base[k] = "git@", \A j \in 1..k : base[j] \notin Names
          PROVE  k \in DOMAIN url /\ url[k] = "git@" /\ \A j \in 1..k : url[j] \notin Names
      BY <1>2, <1>3, <2>1
    <2>2. ASSUME NEW k \in DOMAIN url, url[k] = "git@", \A j \in 1..k : url[j] \notin Names
          PROVE  k \in DOMAIN base /\ base[k] = "git@" /\ \A j \in 1..k : base[j] \notin Names
      <3>1. url[i] \in Names
        BY <1>4 DEF HostAt
      <3>2. i \notin 1..k /\ k \in Nat /\ k >= 1
        BY <1>3, <2>2, <3>1
      <3>3. k < i
        BY <1>2, <3>2
      <3> QED BY <1>2, <1>3, <2>2, <3>3
    <2> QED BY <2>1, <2>2
  <1>7. UserOf(url) = UserOf(base)
    BY <1>6 DEF UserOf
  <1>8. url[1] = base[1]
    BY <1>2, <1>3
  <1> QED BY <1>2, <1>3, <1>5, <1>7, <1>8 DEF Ssh

(* The shim asks SSH what git's connection will ask it.                    *)
LEMMA ReachedIsHostOf ==
    ASSUME NEW url
    PROVE  Reached(url) = HostOf(url)
  BY DEF Reached, HostOf, Resolved

(* Of the rules that match a URL some has the longest prefix.              *)
LEMMA LongestRule ==
    ASSUME PushInit, NEW kind, NEW S, NEW url \in Seq(S), Matches(kind, url) # {}
    PROVE  \E r \in conf.rules :
             /\ IsPrefix(r.prefix, url)
             /\ Rewritten(kind, url) = r.base \o SubSeq(url, Len(r.prefix) + 1, Len(url))
  <1> DEFINE found == Matches(kind, url)
             left(r) == Len(url) - Len(r.prefix)
             Lefts == {left(r) : r \in found}
  <1>1. \A r \in found : /\ r \in conf.rules /\ IsPrefix(r.prefix, url)
                         /\ Len(r.prefix) \in Nat /\ Len(r.prefix) <= Len(url)
    <2> SUFFICES ASSUME NEW r \in found
                 PROVE  /\ r \in conf.rules /\ IsPrefix(r.prefix, url)
                        /\ Len(r.prefix) \in Nat /\ Len(r.prefix) <= Len(url)
      OBVIOUS
    <2>1. r \in conf.rules /\ IsPrefix(r.prefix, url)
      BY DEF Matches
    <2>2. r.prefix \in Seq(Range(r.prefix))
      BY <2>1, PushesAssumption DEF PushInit
    <2> QED BY <2>1, <2>2 DEF IsPrefix
  <1>2. Lefts \in SUBSET Nat /\ Lefts # {}
    BY <1>1
  <1>3. First(Lefts) \in Lefts /\ \A n \in Lefts : First(Lefts) <= n
    BY <1>2, LeastExists
  <1>4. PICK r \in found : left(r) = First(Lefts)
    BY <1>3
  <1>5. \A s \in found : Len(s.prefix) <= Len(r.prefix)
    <2> SUFFICES ASSUME NEW s \in found PROVE Len(s.prefix) <= Len(r.prefix)
      OBVIOUS
    <2>1. left(r) <= left(s)
      BY <1>3, <1>4
    <2>2. Len(url) \in Nat /\ Len(s.prefix) \in Nat /\ Len(r.prefix) \in Nat
      BY <1>1
    <2> QED BY <2>1, <2>2
  <1> DEFINE chosen == CHOOSE longest \in found : \A s \in found : Len(s.prefix) <= Len(longest.prefix)
  <1>6. chosen \in found
    BY <1>5
  <1>7. Rewritten(kind, url) = chosen.base \o SubSeq(url, Len(chosen.prefix) + 1, Len(url))
    BY DEF Rewritten
  <1> HIDE DEF chosen
  <1> QED BY <1>1, <1>6, <1>7

(* A rule that rewrites a URL of the forge's is one the shim looks at.     *)
LEMMA MatchedOverlaps ==
    ASSUME NEW prefix, prefix \in Seq(Range(prefix)), NEW a, NEW b, NEW c, NEW o,
           <<a, b, c>> \in FormsOf(Forge), IsPrefix(prefix, <<a, b, c, o>>)
    PROVE  Overlaps(prefix, Forge)
  <1> DEFINE url == <<a, b, c, o>>
             form == <<a, b, c>>
  <1>1. /\ Len(prefix) \in Nat /\ Len(prefix) <= 4
        /\ SubSeq(prefix, 1, Len(prefix)) = SubSeq(url, 1, Len(prefix))
    BY DEF IsPrefix
  <1>2. \A k \in 1..Len(prefix) : prefix[k] = url[k]
    BY <1>1
  <1>3. IsPrefix(prefix, form) \/ IsPrefix(form, prefix)
    <2>1. CASE Len(prefix) <= 3
      <3>1. SubSeq(prefix, 1, Len(prefix)) = SubSeq(form, 1, Len(prefix))
        BY <1>1, <1>2, <2>1
      <3> QED BY <2>1, <3>1 DEF IsPrefix
    <2>2. CASE Len(prefix) = 4
      <3>1. SubSeq(form, 1, 3) = SubSeq(prefix, 1, 3)
        BY <1>1, <1>2, <2>2
      <3> QED BY <2>2, <3>1 DEF IsPrefix
    <2> QED BY <1>1, <2>1, <2>2
  <1> QED BY <1>3 DEF Overlaps

(* A URL of the forge's stays on it under the rewrites left standing.      *)
LEMMA RewrittenStays ==
    ASSUME PushInit, ~PushLeaves(Forge), NEW kind, NEW a, NEW b, NEW c, NEW o,
           <<a, b, c>> \in FormsOf(Forge), Reached(<<a, b, c, o>>) = Forge
    PROVE  Reached(Rewritten(kind, <<a, b, c, o>>)) = Forge
  <1> DEFINE url == <<a, b, c, o>>
             S == {a, b, c, o}
  <1>1. CASE Matches(kind, url) = {}
    BY <1>1 DEF Rewritten
  <1>2. CASE Matches(kind, url) # {}
    <2>1. url \in Seq(S)
      OBVIOUS
    <2>2. PICK r \in conf.rules :
             /\ IsPrefix(r.prefix, url)
             /\ Rewritten(kind, url) = r.base \o SubSeq(url, Len(r.prefix) + 1, Len(url))
      BY <1>2, <2>1, LongestRule
    <2>3. r.prefix \in Seq(Range(r.prefix)) /\ r.base \in Seq(Range(r.base))
      BY PushesAssumption DEF PushInit
    <2>4. Overlaps(r.prefix, Forge)
      BY <2>2, <2>3, MatchedOverlaps
    <2>5. HostOf(r.base) = Forge
      BY <2>4 DEF PushLeaves
    <2>6. HostIn(r.base) # NoHost
      BY <2>5, PushesAssumption DEF HostOf
    <2> DEFINE left == SubSeq(url, Len(r.prefix) + 1, Len(url))
    <2>7. left \in Seq(S) /\ Rewritten(kind, url) = r.base \o left
      <3>1. Len(r.prefix) + 1 \in Nat /\ Len(r.prefix) + 1 >= 1 /\ Len(url) \in Nat
        BY <2>1, <2>3
      <3>2. \A k \in (Len(r.prefix) + 1)..Len(url) : url[k] \in S
        BY <2>1, <3>1
      <3> HIDE DEF url
      <3>3. SubSeq(url, Len(r.prefix) + 1, Len(url)) \in Seq(S)
        BY <2>1, <3>1, <3>2
      <3> QED BY <2>2, <3>3 DEF left
    <2> HIDE DEF left, S
    <2>8. /\ HostIn(r.base \o left) = HostIn(r.base) /\ UserOf(r.base \o left) = UserOf(r.base)
          /\ Ssh(r.base \o left) <=> Ssh(r.base)
      BY <2>3, <2>6, <2>7, HostStays
    <2>9. HostOf(r.base \o left) = HostOf(r.base)
      BY <2>8 DEF HostOf, Resolved
    <2> QED BY <2>5, <2>7, <2>9, ReachedIsHostOf
  <1> QED BY <1>1, <1>2

(* Before any rewrite both URLs gh may add are the forge's.                *)
LEMMA AddedReach ==
    ASSUME NEW o
    PROVE  /\ Reached(<<"https://", Forge, "/", o>>) = Forge
           /\ ~SshPushLeaves(Forge) => Reached(<<"git@", Forge, ":", o>>) = Forge
  <1>1. Forge \in Names /\ "https://" \notin Names /\ "git@" \notin Names
    BY PushesAssumption DEF Marks
  <1>2. Forge # NoHost
    BY PushesAssumption
  <1>3. Reached(<<"https://", Forge, "/", o>>) = Forge
    <2> DEFINE url == <<"https://", Forge, "/", o>>
    <2>1. url \in Seq({"https://", Forge, "/", o}) /\ 2 \in DOMAIN url /\ url[1] = "https://" /\ url[2] = Forge
      OBVIOUS
    <2>2. HostAt(url, 2)
      BY <1>1, <2>1 DEF HostAt
    <2> HIDE DEF url
    <2>3. HostIn(url) = Forge
      BY <2>1, <2>2, FirstName
    <2>4. Reached(url) = Forge
      BY <2>1, <2>3 DEF Reached, Ssh
    <2> QED BY <2>4 DEF url
  <1>4. ASSUME ~SshPushLeaves(Forge) PROVE Reached(<<"git@", Forge, ":", o>>) = Forge
    <2> DEFINE url == <<"git@", Forge, ":", o>>
    <2>1. /\ url \in Seq({"git@", Forge, ":", o}) /\ url[1] = "git@" /\ url[2] = Forge
          /\ 1 \in DOMAIN url /\ 2 \in DOMAIN url
      OBVIOUS
    <2>2. HostAt(url, 2)
      BY <1>1, <2>1 DEF HostAt
    <2> HIDE DEF url
    <2>3. HostIn(url) = Forge
      BY <2>1, <2>2, FirstName
    <2>4. UserOf(url) = "git@"
      BY <1>1, <2>1 DEF UserOf
    <2>5. Reached(url) = Forge
      BY <1>2, <1>4, <2>1, <2>3, <2>4 DEF Reached, Ssh, SshPushLeaves
    <2> QED BY <2>5 DEF url
  <1> QED BY <1>3, <1>4

(* What gh may push to when the shim lets it push to the forge.            *)
LEMMA PushUrlsStay ==
    ASSUME PushInit, ~PushLeaves(Forge), ~(SshProtocol /\ SshPushLeaves(Forge)),
           NEW r \in {t \in TakenRemotes : ReadAlike(t)} \union AddedRemotes, NEW i \in DOMAIN PushUrlsOf(r)
    PROVE  Reached(PushUrlsOf(r)[i]) = Forge
  <1>1. CASE r \in TakenRemotes /\ ReadAlike(r)
    <2>1. r \in conf.remotes /\ HostOf(FetchUrlOf(r)) = Forge
      BY <1>1 DEF TakenRemotes, HostOfRemote, ReadAlike
    <2>2. HostOf(PushUrlsOf(r)[i]) = Forge
      BY <2>1 DEF PushLeaves
    <2> QED BY <2>2, ReachedIsHostOf
  <1>2. ASSUME NEW a, NEW b, NEW c, NEW o, <<a, b, c>> \in FormsOf(Forge),
               Reached(<<a, b, c, o>>) = Forge, r = [fetch |-> <<a, b, c, o>>, push |-> <<>>]
        PROVE  Reached(PushUrlsOf(r)[i]) = Forge
    <2>1. \A kind : Reached(Rewritten(kind, r.fetch)) = Forge
      BY <1>2, RewrittenStays
    <2>2. PushUrlsOf(r) = <<Rewritten("push", r.fetch)>> \/ PushUrlsOf(r) = <<Rewritten("instead", r.fetch)>>
      BY <1>2 DEF PushUrlsOf
    <2> QED BY <2>1, <2>2
  <1>3. CASE r \in AddedRemotes
    <2>1. CASE \E o \in Owners : r = [fetch |-> <<"https://", Forge, "/", o>>, push |-> <<>>]
      <3>1. <<"https://", Forge, "/">> \in FormsOf(Forge)
        BY DEF FormsOf
      <3> QED BY <1>2, <2>1, <3>1, AddedReach
    <2>2. CASE SshProtocol /\ \E o \in Owners : r = [fetch |-> <<"git@", Forge, ":", o>>, push |-> <<>>]
      <3>1. <<"git@", Forge, ":">> \in FormsOf(Forge)
        BY DEF FormsOf
      <3> QED BY <1>2, <2>2, <3>1, AddedReach
    <2> QED BY <1>3, <2>1, <2>2 DEF AddedRemotes
  <1> QED BY <1>1, <1>3

(* Under any remotes, rewrites and aliases, what the shim lets gh push for *)
(* a forge stays there, to what gh adds and to what both read as the       *)
(* forge's, and a repo create it lets through pushes nothing (routing.rs   *)
(* push_goes_elsewhere, repo.rs push_leaves).                              *)
THEOREM PushesStayOnForge == PushSpec => []PushesStay
  <1>1. PushInit => PushesStay
    <2> SUFFICES ASSUME PushInit, ~PushGoesElsewhere
                 PROVE  /\ conf.command = "pr" => StaysOn({r \in TakenRemotes : ReadAlike(r)} \union AddedRemotes)
                        /\ conf.command = "repo" => ~RepoPushes(conf.words)
      BY DEF PushesStay
    <2>1. CASE conf.command = "pr"
      <3>1. ~PushLeaves(Forge) /\ ~(SshProtocol /\ SshPushLeaves(Forge))
        BY <2>1 DEF PushGoesElsewhere
      <3> QED BY <2>1, <3>1, PushUrlsStay DEF StaysOn
    <2>2. CASE conf.command = "repo"
      <3>1. ~RepoCreatePushes(conf.words)
        BY <2>2 DEF PushGoesElsewhere
      <3>2. ~RepoPushes(conf.words)
        BY <3>1 DEF RepoCreatePushes, RepoPushes, Said
      <3> QED BY <2>2, <3>2
    <2> QED BY <2>1, <2>2
  <1>2. PushInit /\ [UNCHANGED conf]_conf => PushInit'
    BY DEF PushInit
  <1> QED BY <1>1, <1>2, PTL DEF PushSpec
=============================================================================
