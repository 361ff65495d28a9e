------------------------------- MODULE Route -------------------------------
(***************************************************************************)
(* Where one gh call goes: routing.rs decides between plain gh, the forge  *)
(* and a refusal; launcher/start.rs then launches gh behind the gateway,   *)
(* steps aside for a forge the user's own gh is logged in to, or leaves    *)
(* the call to the built-in path.  Both read the configuration and gh's    *)
(* hosts.yml, each at its own moment, and gh reads hosts.yml again.        *)
(*                                                                         *)
(* A call is abstracted to what those decisions tell apart.  gh itself is  *)
(* external: where the call's words leave its choice open, it may go to    *)
(* any host in its reach.  Credential helper calls (helper_call) end in    *)
(* run_gh before any of this and are left out, as is plain gh's exit code. *)
(***************************************************************************)
EXTENDS Naturals, Sequences

CONSTANTS
    Hosts,       \* hosts as spelled, lowercase, with or without a port
    NameOf,      \* gh_hostname: a host without its port
    GitHub,      \* github.com
    None,
    Allowlists,  \* what config.toml may list
    UserFiles,   \* what the user's own hosts.yml may hold
    GhHosts, GhRepos,  \* what GH_HOST and GH_REPO may be
    Checkouts,   \* the checkout's remotes, in gh's order
    Calls

Kinds == {"root",    \* gh's root or version command
          "own",     \* on the delegate list, a command gh runs on its own
          "alias",   \* no command of gh's, with aliases the shim can't read
          "api", "token", "status",  \* gh api, gh auth token, gh auth status
          "pr", "view",  \* pr, issue and run commands in the grammar, repo view
          "early",   \* commands gh builds before SmartBaseRepoFunc
          "other"}

(* Where the call names a host, if it does: as api's or a selector's URL,  *)
(* with --hostname, with -R, or in a word routing takes for data.          *)
Places == {"none", "url", "hostname", "-R", "word"}

CallType ==
    [kind : Kinds, place : Places, host : Hosts \cup {"bare", "bad", None},
     leads : BOOLEAN,    \* the command word comes first
     listed : BOOLEAN,   \* launches
     help : BOOLEAN,     \* runs_help
     leaves : BOOLEAN]   \* push_goes_elsewhere, for every forge
FileType == [keys : SUBSET Hosts, logins : SUBSET Hosts, readable : BOOLEAN]
RemoteType == [host : Hosts, saved : {"no", "yes", "bad"}]

(* Kinds and places go together as the parser leaves them; a listed form   *)
(* is in the grammar and has no URL argument.                              *)
WellFormed(c) ==
    /\ c.place = "none" <=> c.host = None
    /\ c.place \in {"url", "hostname", "word"} /\ c.kind # "view" => c.host \in Hosts
    /\ c.listed => c.kind \in {"api", "token", "status", "pr"} /\ c.place # "url"
    /\ c.kind = "root" => c.place = "none"
    /\ c.kind \in {"token", "status"} => c.place \in {"none", "hostname"}

ASSUME RouteAssumption ==
    /\ None \notin Hosts \cup {"bare", "bad"} /\ "bare" \notin Hosts /\ "bad" \notin Hosts
    /\ GitHub \in Hosts /\ NameOf[GitHub] = GitHub
    /\ NameOf \in [Hosts -> Hosts]
    /\ \A h \in Hosts : NameOf[NameOf[h]] = NameOf[h]
    /\ Allowlists \subseteq SUBSET Hosts
    /\ UserFiles \subseteq FileType
    /\ \A f \in UserFiles : f.logins \subseteq f.keys /\ (~f.readable => f.keys = {})
    /\ GhHosts \subseteq Hosts \cup {None}
    /\ GhRepos \subseteq Hosts \cup {"bare", "bad", None}
    /\ Checkouts \subseteq Seq(RemoteType)
    /\ Calls \subseteq CallType
    /\ \A c \in Calls : WellFormed(c)

VARIABLES
    allow,    \* the allowlist in config.toml
    user,     \* the user's hosts.yml
    ghHost, ghRepo, remotes,  \* GH_HOST, GH_REPO, the checkout
    call,
    at,       \* where the call is
    route,    \* what routing decided
    given,    \* the hosts.yml keys a launched gh was given
    served,   \* S, the entries its gateway serves
    request,  \* gh's latest request: the host, and who answers it
    edited    \* the files changed since routing read them

world == <<allow, user, ghHost, ghRepo, remotes>>
vars == <<world, call, at, route, given, served, request, edited>>

NoRoute == [kind |-> "none", host |-> None, theirs |-> FALSE]
NoRequest == [host |-> None, by |-> None]

Init ==
    /\ allow \in Allowlists /\ user \in UserFiles
    /\ ghHost \in GhHosts /\ ghRepo \in GhRepos /\ remotes \in Checkouts
    /\ call \in Calls
    /\ at = "call" /\ route = NoRoute
    /\ given = {} /\ served = {} /\ request = NoRequest /\ edited = FALSE

-----------------------------------------------------------------------------
(* Hosts and forges.                                                       *)

(* Entries that count as forges.                                           *)
Entries == {e \in allow : NameOf[e] # GitHub}

(* forgejo_host: entry e serves h.  A hostname two entries share serves    *)
(* neither.                                                                *)
Serves(e, h) ==
    /\ e \in Entries /\ h \in {e, NameOf[e]}
    /\ \A f \in Entries : NameOf[f] = NameOf[e] => f = e
Served(h) == \E e \in Entries : Serves(e, h)

(* A launched gh knows the user's hosts and every entry's keys.            *)
EntryKeys == allow \cup {NameOf[e] : e \in allow}
LaunchKeys == user.keys \cup EntryKeys

(* GhHosts: gh's default host, which comes from GH_HOST, from the only     *)
(* host configured, or is github.com.                                      *)
FromConfig(g, keys) == g = None /\ \E k \in keys : keys = {k}
Default(g, keys) ==
    IF g # None THEN g
    ELSE IF FromConfig(g, keys) THEN CHOOSE k \in keys : keys = {k} ELSE GitHub
Known(g, keys) == keys \cup {Default(g, keys), GitHub}

-----------------------------------------------------------------------------
(* detect_repo: the host of the repository gh would take.                  *)

TargetsOnly(c) == c.kind \in {"api", "token", "status"}
Smart(c) == c.kind \notin {"token", "status", "early"}

(* override_repo: a repository without a host is on the default host.      *)
Override(spec, g, keys) ==
    IF spec = "bare" THEN Default(g, keys) ELSE IF spec = "bad" THEN None ELSE spec

(* base_repo_from_remotes, by index.                                       *)
Usable(g, keys) ==
    LET known == {i \in DOMAIN remotes : remotes[i].host \in Known(g, keys)}
        on == {i \in known : remotes[i].host = Default(g, keys)}
    IN  IF g # None \/ (FromConfig(g, keys) /\ on # {}) THEN on ELSE known
First(I) == CHOOSE i \in I : \A j \in I : i <= j
FromRemotes(smart, g, keys) ==
    LET usable == Usable(g, keys)
        saved == {i \in usable : smart /\ remotes[i].saved # "no"}
    IN  IF saved # {} THEN
            IF remotes[First(saved)].saved = "bad" THEN None ELSE remotes[First(saved)].host
        ELSE IF usable # {} THEN remotes[First(usable)].host ELSE None

(* A PR or issue URL, or repo view's argument, selects the repository      *)
(* itself; then -R; then GH_REPO; then the remotes.                        *)
Selects(c) == c.place = "url" /\ c.kind \in {"pr", "view"} /\ c.host # "bad"
Detect(c, g, keys) ==
    IF Selects(c) \/ c.place = "-R" THEN Override(c.host, g, keys)
    ELSE IF ghRepo # None THEN Override(ghRepo, g, keys)
    ELSE FromRemotes(Smart(c), g, keys)

-----------------------------------------------------------------------------
(* Routing.                                                                *)

Delegate == [kind |-> "delegate", host |-> None, theirs |-> FALSE]
Refuse == [kind |-> "refuse", host |-> None, theirs |-> FALSE]
Forgejo(h, theirs) == [kind |-> "forgejo", host |-> CHOOSE e \in Entries : Serves(e, h),
                       theirs |-> theirs]
HostRoute(h) == IF Served(h) THEN Forgejo(h, FALSE) ELSE Delegate

(* The host api and auth say they go to, whatever the repository.          *)
Target(c) ==
    IF c.kind = "api" /\ c.place = "url" THEN c.host
    ELSE IF ~TargetsOnly(c) THEN None
    ELSE IF c.place = "hostname" THEN c.host ELSE ghHost

RouteByTarget(c) ==
    LET found == Detect(c, ghHost, LaunchKeys)
        theirs == Detect(c, ghHost, user.keys)
    IN  IF Target(c) # None THEN HostRoute(Target(c))
        ELSE IF Served(found) THEN Forgejo(found, FALSE)
        ELSE IF Served(theirs) THEN Forgejo(theirs, TRUE)
        ELSE IF found = None THEN HostRoute(ghHost)
        ELSE Delegate

WordNames(c) == {h \in Hosts : c.host = h}

(* Variant: gh's default host from hosts.yml is overlooked.                *)
ForgejoInReach_NoDefault(c) ==
    \/ \E h \in WordNames(c), e \in Entries : NameOf[h] = NameOf[e]
    \/ Served(ghHost)
    \/ ghRepo # None /\ Served(Override(ghRepo, ghHost, LaunchKeys))
    \/ \E i \in DOMAIN remotes : Served(remotes[i].host)

(* forgejo_in_reach.                                                       *)
ForgejoInReach(c) ==
    \/ \E h \in WordNames(c), e \in Entries : NameOf[h] = NameOf[e]
    \/ FromConfig(ghHost, user.keys) /\ Served(Default(ghHost, user.keys))
    \/ ~user.readable
    \/ Served(ghHost)
    \/ \E keys \in {LaunchKeys, user.keys} :
          ghRepo # None /\ Served(Override(ghRepo, ghHost, keys))
    \/ \E i \in DOMAIN remotes : Served(remotes[i].host)

OnItsOwn(c) == c.kind = "root" \/ (c.kind = "own" /\ c.leads)

(* decide_invocation_route.                                                *)
Decision(c) ==
    IF c.kind = "alias" THEN Refuse
    ELSE IF OnItsOwn(c) THEN Delegate
    ELSE LET d == RouteByTarget(c)
         IN  IF d = Delegate /\ ForgejoInReach(c) THEN Refuse ELSE d

-----------------------------------------------------------------------------
(* run_gh, up to what it runs.                                             *)

Goes(to) == at' = to

Decide ==
    /\ at = "call"
    /\ route' = Decision(call)
    /\ \/ route'.kind = "refuse" /\ Goes("end")
       \/ route'.kind = "delegate" /\ Goes("plain")
       \/ route'.kind = "forgejo" /\ call.leads /\ call.help /\ Goes("help")
       \/ route'.kind = "forgejo" /\ ~(call.leads /\ call.help) /\ call.leaves /\ Goes("end")
       \/ route'.kind = "forgejo" /\ ~(call.leads /\ call.help) /\ ~call.leaves
          /\ Goes(IF call.listed THEN "launch" ELSE "unlaunched")
    /\ UNCHANGED <<world, call, given, served, request, edited>>

(* names_routed_port: the call spells the forge with its port, and gh may  *)
(* keep or drop that.                                                      *)
NamesRoutedPort(e) ==
    e # NameOf[e] /\ (call.host = e \/ (~TargetsOnly(call) /\ ghRepo = e))

LoggedIn(e) == NameOf[e] \in user.logins

(* No gh to run, a file that can't be read, no run directory, no token.    *)
Fails ==
    /\ at \in {"launch", "unlaunched", "built in"} /\ Goes("end")
    /\ UNCHANGED <<world, call, route, given, served, request, edited>>

StepAside ==
    /\ Goes("aside")
    /\ UNCHANGED <<world, call, route, given, served, request, edited>>

(* launch, for a forge the user's gh is logged in to.                      *)
LaunchAside ==
    /\ at = "launch" /\ user.readable
    /\ LoggedIn(route.host) /\ ~NamesRoutedPort(route.host)
    /\ StepAside

(* A host-less auth status asks every host gh knows, and the launcher      *)
(* serves it every forge it can.                                           *)
AllHosts == call.kind = "status" /\ call.place = "none"

(* The entries served besides the routed one: no shared hostname, no login *)
(* of the user's, and settings and a token the shim can use.               *)
OthersServed(ready) ==
    {f \in allow \cap ready : ~LoggedIn(f) /\ \A g \in allow : NameOf[g] = NameOf[f] => g = f}

(* The entries launch serves, of those whose settings and token the shim   *)
(* can use.                                                                *)
Serving(ready) ==
    (ready \cap {route.host}) \cup IF AllHosts THEN OthersServed(ready) ELSE {}
Ready == SUBSET (Entries \cup {route.host})

(* launch leaves the call to the rest of run_gh.                           *)
NotLaunched ==
    /\ at = "launch" /\ user.readable
    /\ IF LoggedIn(route.host) THEN NamesRoutedPort(route.host)
       ELSE ~(AllHosts /\ route.theirs) /\ \E ready \in Ready : Serving(ready) = {}
    /\ Goes("unlaunched")
    /\ UNCHANGED <<world, call, route, given, served, request, edited>>

(* AppState::new refuses two hosts that answer to one name.                *)
Clash(S) == \E e, f \in S : e # f /\ NameOf[e] = NameOf[f]

Launch ==
    /\ at = "launch" /\ user.readable
    /\ ~LoggedIn(route.host) /\ ~route.theirs
    /\ \E ready \in Ready : Serving(ready) # {} /\ served' = Serving(ready)
    /\ given' = LaunchKeys
    /\ Goes(IF Clash(served') THEN "clash" ELSE "launched")
    /\ UNCHANGED <<world, call, route, request, edited>>

(* names_another_host: GH_HOST, GH_REPO or a word, which for api and auth  *)
(* is data.                                                                *)
NamesAnotherHost(e) ==
    \/ \E h \in Hosts \cap {ghHost, ghRepo} : NameOf[h] # NameOf[e]
    \/ ~TargetsOnly(call) /\ \E h \in WordNames(call) : NameOf[h] # NameOf[e]

MayStepAside(e) ==
    ~NamesRoutedPort(e) /\ ~NamesAnotherHost(e) /\ user.readable /\ LoggedIn(e)

(* step_aside_logged_in.                                                   *)
LateAside == at = "unlaunched" /\ MayStepAside(route.host) /\ StepAside

(* run_forgejo, which asks the routed forge alone, if it knows the command.*)
BuiltIn ==
    /\ at = "unlaunched" /\ ~MayStepAside(route.host)
    /\ Goes("built in")
    /\ UNCHANGED <<world, call, route, given, served, request, edited>>

(* The user, another gh or gfj changes one of the files while the program  *)
(* or a stepped-aside gh has yet to read it again; once is enough.         *)
Edit ==
    /\ ~edited /\ edited' = TRUE
    /\ at \in {"launch", "unlaunched", "aside"}
    /\ \/ allow' \in Allowlists /\ UNCHANGED user
       \/ user' \in UserFiles /\ UNCHANGED allow
    /\ UNCHANGED <<ghHost, ghRepo, remotes, call, at, route, given, served, request>>

-----------------------------------------------------------------------------
(* gh, as the program calls it.                                            *)

(* The command is the one the parser read, and gh takes its host as        *)
(* detect_repo does.                                                       *)
Precise(c) == c.listed \/ (c.leads /\ c.kind \in {"api", "token", "status", "pr", "view"})

(* Where a precise gh goes, with GH_HOST and the keys of its hosts.yml.    *)
Exact(c, g, keys) ==
    IF TargetsOnly(c) THEN
        IF c.place \in {"url", "hostname"} THEN {c.host}
        ELSE IF c.kind = "status" THEN keys \cup ({g} \ {None})
        ELSE {Default(g, keys)}
    ELSE {Detect(c, g, keys)} \ {None}

(* Where any other may.                                                    *)
InReach(c, g, keys) ==
    WordNames(c) \cup {Default(g, keys)}
    \cup ({Override(ghRepo, g, keys)} \ {None})
    \cup {remotes[i].host : i \in Usable(g, keys)}
GhReaches(c, g, keys) == IF Precise(c) THEN Exact(c, g, keys) ELSE InReach(c, g, keys)

(* Help and the root command send nothing.                                 *)
PlainGh ==
    /\ at = "plain" /\ call.kind # "root"
    /\ \E h \in GhReaches(call, ghHost, user.keys) : request' = [host |-> h, by |-> h]
    /\ UNCHANGED <<world, call, at, route, given, served, edited>>

(* step_aside: GH_HOST is the forge, without its port.                     *)
AsideGh ==
    /\ at = "aside"
    /\ \E h \in GhReaches(call, NameOf[route.host], user.keys) :
         request' = [host |-> h, by |-> h]
    /\ UNCHANGED <<world, call, at, route, given, served, edited>>

(* Host-less api and auth token go to the forge routing chose.             *)
LaunchedGhHost ==
    IF call.kind \in {"api", "token"} /\ call.place # "hostname" THEN NameOf[route.host]
    ELSE ghHost

(* select_host and authenticate: the served entry that answers to h, if gh *)
(* has its token, or nobody.                                               *)
Answering(h) == {e \in served : h \in {e, NameOf[e]} /\ given \cap {h, NameOf[h]} # {}}
LaunchedGh ==
    /\ at = "launched"
    /\ \E h \in GhReaches(call, LaunchedGhHost, given) :
         \/ \E e \in Answering(h) : request' = [host |-> h, by |-> e]
         \/ Answering(h) = {} /\ request' = [host |-> h, by |-> None]
    /\ UNCHANGED <<world, call, at, route, given, served, edited>>

Next ==
    \/ Decide \/ Fails \/ LaunchAside \/ NotLaunched \/ Launch \/ LateAside \/ BuiltIn
    \/ Edit \/ PlainGh \/ AsideGh \/ LaunchedGh

Spec == Init /\ [][Next]_vars

-----------------------------------------------------------------------------
(* Every variable has its type.  (routing.rs, start.rs.)                   *)
TypeOK ==
    /\ allow \in SUBSET Hosts /\ user \in FileType
    /\ ghHost \in Hosts \cup {None} /\ ghRepo \in Hosts \cup {"bare", "bad", None}
    /\ remotes \in Seq(RemoteType) /\ call \in Calls
    /\ at \in {"call", "plain", "help", "launch", "unlaunched", "launched", "aside",
               "built in", "clash", "end"}
    /\ route.kind \in {"none", "delegate", "refuse", "forgejo"} /\ route.theirs \in BOOLEAN
    /\ route.kind = "forgejo" <=> route.host \in Hosts
    /\ at \notin {"call", "plain", "end"} => route.host \in Hosts
    /\ given \subseteq Hosts /\ served \subseteq Hosts
    /\ request \in [host : Hosts \cup {None}, by : Hosts \cup {None}]
    /\ edited \in BOOLEAN

(* Off the delegate list plain gh never sends a served forge anything,     *)
(* whichever of the hosts in its reach it picks, with the files as routing *)
(* read them.  Only a host-less auth status shows all the user's hosts.    *)
(* (routing.rs: "only the delegate list runs plain gh there".)             *)
StaysAway ==
    at = "plain" /\ ~OnItsOwn(call) /\ ~AllHosts => ~Served(request.host)

(* A stepped-aside gh, which has the user's login, stays on the forge      *)
(* routing chose, whatever changes meanwhile.  Where a flag comes before   *)
(* api or auth the command may not be what the parser read, and the next   *)
(* property fails.                                                         *)
AsideStays ==
    at = "aside" /\ ~AllHosts /\ (TargetsOnly(call) => Precise(call)) =>
        request.host = None \/ NameOf[request.host] = NameOf[route.host]

(* step_aside_logged_in: "only when nothing in the call names another      *)
(* host".                                                                  *)
AsideNamesNoOther ==
    at = "aside" /\ ~AllHosts => request.host = None \/ NameOf[request.host] = NameOf[route.host]

(* A launched gh asks the forge routing chose, and is answered by it alone;*)
(* when the files changed it may be refused, but never answered by another.*)
LaunchStays ==
    at = "launched" /\ ~AllHosts /\ request # NoRequest =>
        request.by \in {route.host} \cup IF edited THEN {None} ELSE {}

(* The gateway always starts, whatever the allowlist holds: no two forges  *)
(* served answer to one hostname, unless that changed after routing.       *)
(* (launcher/gateway.rs: the launch keeps those out of S.)                 *)
NeverClashes == at = "clash" => edited

(* Whichever way gh comes to run, and whatever changes between the two     *)
(* readings of the files, its requests go where routing sent the call.     *)
RightHost == StaysAway /\ AsideStays /\ LaunchStays /\ NeverClashes

-----------------------------------------------------------------------------
(* What makes these inductive.  Until the files change the route is        *)
(* routing's decision on them.                                             *)
Decided == at # "call" /\ ~edited => route = Decision(call)

(* However they change, what the call and its environment say of the host  *)
(* agrees with the route.                                                  *)
SameName(h) == h \in Hosts => NameOf[h] = NameOf[route.host]
Agrees ==
    route.kind = "forgejo" =>
        /\ TargetsOnly(call) /\ call.place \in {"url", "hostname"} =>
             SameName(call.host)
        /\ ~TargetsOnly(call) /\ (Selects(call) \/ call.place = "-R") => SameName(call.host)
        /\ ~TargetsOnly(call) /\ ~(Selects(call) \/ call.place = "-R") => SameName(ghRepo)

(* How the call came where it is.                                          *)
CameHere ==
    /\ at = "call" => route = NoRoute
    /\ at \in {"call", "launch", "unlaunched", "built in"} => request = NoRequest
    /\ at \in {"call", "plain", "help"} => ~edited
    /\ at = "plain" => route.kind = "delegate"
    /\ at \in {"launch", "launched", "clash"} => call.listed
    /\ at = "aside" => call.listed \/ ~NamesAnotherHost(route.host)
    /\ at = "launched" /\ ~AllHosts => served = {route.host}
    /\ at = "launched" => ~route.theirs /\ (~edited => given = LaunchKeys)

IInv ==
    /\ TypeOK /\ Decided /\ Agrees /\ CameHere
    /\ StaysAway /\ AsideStays /\ LaunchStays /\ NeverClashes
=============================================================================
