------------------------------- MODULE MCGfj -------------------------------
(* Two commands.  Three families of worlds: two commands on the stores; one  *)
(* of bootstrap and install-shim, then or meanwhile uninstall-shim or a      *)
(* logout, in homes with links, wrappers and an old gh; the git recorder and *)
(* its removal.  A bound a family does not need starts used up.              *)
EXTENDS Install

CONSTANTS p1, p2, h1, h2, h3, local, bin, usr

Both(a, b) == [p \in Procs |-> IF p = p1 THEN a ELSE b]
Plain == [dir |-> None, user_local |-> FALSE, force |-> FALSE, dry_run |-> FALSE]
Home(l, b, u) == [d \in Places |-> CASE d = Local -> l [] d = bin -> b
                                         [] d = usr -> u [] d = Cellar -> "gh"]
Router == [now |-> None, first |-> None, yml |-> {}, odd |-> {}, shared |-> {}, routed |-> {}]

Quiet == /\ entry = Home("missing", "missing", "gh") /\ path = <<usr>> /\ paths_gh = None
         /\ agent = FALSE /\ launchd = TRUE /\ checkout = Router
         /\ args = Both(Plain, Plain)
Still == /\ onMac = FALSE /\ keychain = NoTokens /\ auth = NoAuthFile /\ config = NoConfig

\* Two commands on the stores: the second for the first's host or the next, and
\* a third host that no command names, with a token in either store.
StoresInit ==
    /\ onMac \in BOOLEAN
    /\ keychain \in [Hosts -> {Old, None}]
    /\ ~onMac => keychain = NoTokens
    /\ keychain[h2] = None
    /\ \E of \in [Hosts -> {Old, None}] :
         /\ (of[h3] = None) <=> (keychain[h3] = Old)
         /\ auth \in {[state |-> s, of |-> of] : s \in {"unreadable", "malformed", "whole"}}
                     \union (IF of = NoTokens THEN {NoAuthFile} ELSE {})
    /\ config \in {[corrupt |-> FALSE, listed |-> {h3}, tables |-> {}],
                   [corrupt |-> FALSE, listed |-> {h2, h3}, tables |-> {h1}],
                   [NoConfig EXCEPT !.corrupt = TRUE]}
    /\ cmd \in [Procs -> [op: Ops, host: {h1, h2}]] /\ cmd[p1].host = h1
    /\ Quiet /\ box = NoBox
    /\ users = MaxUser /\ faults = 0 /\ crashes = 0

Does(op, h) == [op |-> op, host |-> h]

\* install-shim in every small home, and a plain uninstall.
HomesInit ==
    /\ Still
    /\ \E l \in {"missing", "wrapper", Cellar, bin}, b \in {"missing", "gh", "old", "wrapper", "dispatcher", Local, Cellar},
          u \in {"missing", "gh", "old"} : entry = Home(l, b, u)
    /\ path \in {<<Local, bin, usr>>, <<bin, usr>>, <<usr, bin>>}
    /\ paths_gh \in {None, bin}
    /\ \E dir \in {None, bin, usr}, force \in BOOLEAN :
          args = Both([Plain EXCEPT !.dir = dir, !.force = force], Plain)
    /\ cmd = Both(Does("install", h1), Does("uninstall", h1))
    /\ agent = FALSE /\ launchd = TRUE /\ checkout = Router /\ box = NoBox
    /\ users = MaxUser /\ faults = MaxFaults /\ crashes = MaxCrashes

\* bootstrap, after a logout, in the checkouts its plan tells apart.
BootstrapInit ==
    /\ onMac \in BOOLEAN /\ launchd \in BOOLEAN /\ agent = FALSE
    /\ keychain = NoTokens
    /\ auth \in {NoAuthFile, [state |-> "whole", of |-> [NoTokens EXCEPT ![h1] = Old]]}
    /\ config \in {NoConfig, [NoConfig EXCEPT !.listed = {h1}], [NoConfig EXCEPT !.corrupt = TRUE]}
    /\ \E l \in {"missing", "wrapper"}, b \in {"missing", "gh", Cellar} : entry = Home(l, b, "gh")
    /\ path \in {<<bin, usr>>, <<usr, Local>>}
    /\ paths_gh = None /\ box = NoBox
    /\ \E now, first \in {h1, h2, None, GitHub}, odd, shared, yml \in {{}, {h1}} :
          /\ Cardinality(odd) + Cardinality(shared) + Cardinality(yml) < 2
          /\ checkout = [now |-> now, first |-> first, yml |-> yml, odd |-> odd, shared |-> shared,
                      routed |-> {h1}]
    /\ \E dry \in BOOLEAN : args = Both([Plain EXCEPT !.dry_run = dry], Plain)
    /\ cmd = Both(Does("bootstrap", h2), Does("logout", h1))
    /\ users = MaxUser /\ faults = 0 /\ crashes = MaxCrashes
    /\ pc = Both("ready", "ok")

\* Two commands of any kind, calls that fail, a kill, and the user in between.
TogetherInit ==
    /\ onMac = TRUE /\ launchd = FALSE /\ agent = FALSE /\ keychain = NoTokens
    /\ auth = [state |-> "whole", of |-> [NoTokens EXCEPT ![h1] = Old]] /\ config = NoConfig
    /\ \E b \in {"missing", "gh", Local}, u \in {"gh", "old"} : entry = Home("missing", b, u)
    /\ path = <<bin, Local, usr>> /\ paths_gh = None /\ box = NoBox
    /\ checkout = [Router EXCEPT !.now = h1, !.routed = {h1}]
    /\ \E first \in {Does("install", h1), Does("bootstrap", h2), Does("uninstall", h1)},
          second \in {Does("bootstrap", h2), Does("uninstall", h1), Does("remove", h1)} :
          cmd = Both(first, second)
    /\ \E f, g \in BOOLEAN, dir \in {None, bin} :
          args = Both([Plain EXCEPT !.force = f, !.user_local = g], [Plain EXCEPT !.dir = dir])
    /\ users = 0 /\ faults = 0 /\ crashes = 0

\* The git recorder, itself or its removal, in directories of either's making.
RecorderInit ==
    /\ Still /\ Quiet
    /\ box \in {b \in Box : b.dir \/ b = NoBox}
    /\ \E ops \in {<<"record", "unrecord">>, <<"unrecord", "record">>, <<"record", "record">>} :
          cmd = Both(Does(ops[1], h1), Does(ops[2], h1))
    /\ users = 0 /\ faults = 0 /\ crashes = 0

MCInit ==
    /\ \/ BootstrapInit
       \/ /\ StoresInit \/ HomesInit \/ TogetherInit \/ RecorderInit
          /\ pc = Both("ready", "ready")
    /\ litter = {}
    /\ read = [p \in Procs |-> NoAuthFile]
    /\ loaded = [p \in Procs |-> NoConfig]
    /\ overlapped = {} /\ refused = {}
    /\ before = [p \in Procs |-> [tokens |-> StoredToken, held |-> auth.of, allowed |-> Allowed]]
    /\ view = [p \in Procs |-> NoView]
    /\ raced = {} /\ defaults = {}

MCSpec == MCInit /\ [][GfjNext]_<<vars, installs>>
=============================================================================
