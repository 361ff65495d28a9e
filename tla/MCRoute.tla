------------------------------ MODULE MCRoute ------------------------------
(* Two forge names, one of them also with a port, and github.com; or one   *)
(* push, under up to two rewrites; or two mutations that merge, in an      *)
(* allowed style and another, with one push.  Of rules with one prefix git *)
(* takes the first, so two have different ones.                            *)
EXTENDS Route, Pushes, PullMerge, TLC

CONSTANTS fa, fap, fb, gh, r1, r2

MCRequests == {r1, r2}
Symmetric == Permutations(MCRequests)

VARIABLE topic

MCHosts == {fa, fap, fb, gh}
MCNameOf == [h \in MCHosts |-> IF h = fap THEN fa ELSE h]

(* One forge, with a port or not; two; two entries that share a hostname,  *)
(* beside another; github.com by mistake.                                  *)
MCAllowlists == {{fa}, {fap}, {fap, fb}, {fa, fap, fb}, {fa, gh}}

File(keys, logins) == [keys |-> keys, logins |-> logins, readable |-> TRUE]
MCUserFiles ==
    {File({}, {}), File({gh}, {gh}), File({fa}, {}), File({fa}, {fa}), File({fb}, {fb}),
     File({fa, fb}, {fa, fb}), [keys |-> {}, logins |-> {}, readable |-> FALSE]}

Remote(h) == [host |-> h, saved |-> "no"]
Saved(h) == [host |-> h, saved |-> "yes"]
MCCheckouts ==
    {<<>>, <<Remote(fa)>>, <<Remote(gh), Remote(fa)>>, <<Remote(gh), Saved(fa)>>,
     <<Remote(fb), Remote(fa)>>, <<[host |-> gh, saved |-> "bad"], Remote(fa)>>}

Call(kind, place, host, leads, listed) ==
    [kind |-> kind, place |-> place, host |-> host, leads |-> leads, listed |-> listed,
     help |-> FALSE, leaves |-> FALSE]
MCCalls ==
    {Call("root", "none", None, TRUE, FALSE), Call("own", "none", None, TRUE, FALSE),
     Call("own", "word", fb, FALSE, FALSE), Call("alias", "none", None, TRUE, FALSE)}
    \cup {Call("api", p, h, l, FALSE) : p \in {"url", "hostname", "word"}, h \in {fap, fb}, l \in BOOLEAN}
    \cup {Call("api", "none", None, TRUE, l) : l \in BOOLEAN}
    \cup {Call("api", "hostname", h, TRUE, TRUE) : h \in {fa, fap}}
    \cup {Call(k, "none", None, TRUE, TRUE) : k \in {"token", "status", "pr"}}
    \cup {Call("status", "hostname", fap, TRUE, TRUE)}
    \cup {Call("pr", "-R", h, TRUE, l) : h \in {fa, fap, fb, "bare", "bad"}, l \in BOOLEAN}
    \cup {Call("pr", "url", fb, TRUE, FALSE), Call("pr", "word", fb, TRUE, TRUE)}
    \cup {Call("view", "url", h, TRUE, FALSE) : h \in {fa, "bare", "bad"}}
    \cup {Call(k, "none", None, TRUE, FALSE) : k \in {"early", "other"}}
    \cup {Call("other", p, h, TRUE, FALSE) : p \in {"-R", "word"}, h \in {fa, fap, gh}}
    \cup {[Call("pr", "none", None, TRUE, TRUE) EXCEPT !.help = h, !.leaves = ~h] : h \in BOOLEAN}

-----------------------------------------------------------------------------
Https(h, o) == <<"https://", h, "/", o>>
Scp(h, o) == <<"git@", h, ":", o>>
Urls ==
    {Https(fa, "acme"), Scp(fa, "acme"), Https(fb, "acme"), Scp(fb, "acme"),
     <<"ssh://", fa, "/", "acme">>, <<"/srv/", "acme">>}
OneRemote ==
    {[fetch |-> u, push |-> p] : u \in Urls,
        p \in {<<>>, <<Https(fa, "acme"), Https(fb, "acme")>>, <<Scp(fb, "acme"), Https(fa, "acme")>>} \union {<<u>> : u \in Urls}}
Plainly == [fetch |-> Https(fa, "acme"), push |-> <<>>]

Rules ==
    [kind : {"instead", "push"},
     prefix : {<<"https://">>, <<"https://", fa, "/">>, <<"https://", fa, "/", "acme">>, <<"git@", fa, ":">>,
               <<"ssh://">>, <<fb, ":">>, <<"https://", fb, "/">>},
     base : {<<"git@", fa, ":">>, <<"https://", fb, "/">>, <<"git@", fb, ":">>, <<"/srv/">>}]
Pairs == {p \in Rules \X Rules : p[1].prefix # p[2].prefix}

Direct == [p \in {"", "git@"} \X {fa, fb} |-> p[2]]
\* An alias, and hosts that SSH takes elsewhere for git, or for the rest.
Sshs == {Direct, [Direct EXCEPT ![<<"git@", fa>>] = fb], [Direct EXCEPT ![<<"git@", fb>>] = fa],
         [Direct EXCEPT ![<<"", fb>>] = fa], [p \in DOMAIN Direct |-> fa]}

PullCreate(r, rules, ssh, login, protocol) ==
    [remotes |-> r, rules |-> rules, ssh |-> ssh, login |-> login, protocol |-> protocol,
     command |-> "pr", words |-> <<>>]
MCConfigs ==
    {PullCreate({r}, {s}, Direct, l, "https") : r \in OneRemote, s \in Rules, l \in BOOLEAN}
    \union {PullCreate({r}, {}, h, l, p) : r \in OneRemote, h \in Sshs, l \in BOOLEAN, p \in {"https", "ssh"}}
    \union {PullCreate({Plainly}, {rs[1], rs[2]}, h, TRUE, p) :
              h \in Sshs, p \in {"https", "ssh"}, rs \in Pairs}
    \union {[PullCreate({}, {}, Direct, FALSE, "https") EXCEPT !.command = "repo", !.words = w] :
              w \in UNION {[1..n -> {"--push", "--push=true", "--push=false", "--", "name"}] : n \in 0..3}}
NoPush == [remotes |-> {}, rules |-> {}, ssh |-> Direct, login |-> TRUE, protocol |-> "https", command |-> "none",
           words |-> <<>>]
Calm ==
    /\ call = Call("root", "none", None, TRUE, FALSE) /\ allow = {fa} /\ user = File({}, {})
    /\ ghHost = None /\ ghRepo = None /\ remotes = <<>>
Asleep ==
    /\ mode = "clean" /\ passing = TRUE /\ op = [r \in Requests |-> "merge"]
    /\ style = [r \in Requests |-> "merge"] /\ expected = [r \in Requests |-> Nil]
MCInit ==
    \/ topic = "call" /\ Asleep /\ MergeInit /\ conf = NoPush /\ Init
    \/ topic = "push" /\ Asleep /\ MergeInit /\ PushInit /\ Calm /\ Init
    \/ topic = "merge" /\ MergeInit /\ conf = NoPush /\ Calm /\ Init
MCNext ==
    \/ topic = "call" /\ Next /\ UNCHANGED <<topic, conf, mergeVars>>
    \/ topic = "merge" /\ MergeNext /\ UNCHANGED <<topic, conf, vars>>
MCSpec == MCInit /\ [][MCNext]_<<topic, vars, conf, mergeVars>>
=============================================================================
