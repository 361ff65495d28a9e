------------------------------- MODULE Pushes -------------------------------
(***************************************************************************)
(* Where git takes what a gh command for a forge pushes (routing.rs        *)
(* push_goes_elsewhere, repo.rs push_leaves): the remotes of the checkout, *)
(* git's URL rewrites and SSH's host aliases, each as git and SSH apply    *)
(* them beside what the shim makes of them.  A URL is the sequence of its  *)
(* parts, <<"https://", host, "/", owner>> or <<"git@", host, ":", owner>>.*)
(***************************************************************************)
EXTENDS Naturals, Sequences, SequencesExt

CONSTANTS
    Names,    \* the host names a URL may hold
    Forge,    \* the forge's hostname
    NoHost,
    Owners,   \* whose repositories gh may add a remote for
    Configs   \* what git's, SSH's and gh's configuration may be

Marks == {"https://", "http://", "ssh://", "git@", "/", ":"}

\* What git takes for a prefix and its base is text, each of its own length.
ASSUME PushesAssumption ==
    /\ Forge \in Names /\ NoHost \notin Names /\ Names \cap Marks = {}
    /\ \A c \in Configs : \A r \in c.rules : r.prefix \in Seq(Range(r.prefix)) /\ r.base \in Seq(Range(r.base))

\* conf.remotes: [fetch, push], the configured URLs, push several or none
\* conf.rules: [kind, prefix, base], url.<base>.insteadOf and pushInsteadOf
\* conf.ssh: what `ssh -G` makes of <<user, host>>
\* conf.login: the user's gh has the forge; conf.protocol: its git_protocol there
\* conf.command, conf.words: "pr" or "repo" create, and the words after it
VARIABLE conf

Ssh(url) == url[1] \notin {"https://", "http://"}

\* GitUrl::parse: the host, the first name in what reads as a URL with one, and
\* the user before it.
HostAt(url, i) == url[i] \in Names /\ \A j \in 1..(i - 1) : url[j] \notin Names
HostIn(url) ==
    IF \E i \in DOMAIN url : HostAt(url, i) THEN url[CHOOSE i \in DOMAIN url : HostAt(url, i)] ELSE NoHost
UserOf(url) ==
    IF \E i \in DOMAIN url : url[i] = "git@" /\ \A j \in 1..i : url[j] \notin Names THEN "git@" ELSE ""

(***************************************************************************)
(* git and SSH                                                             *)
(***************************************************************************)

Matches(kind, url) == {r \in conf.rules : r.kind = kind /\ IsPrefix(r.prefix, url)}
Rewritten(kind, url) ==
    LET found == Matches(kind, url)
    IN  IF found = {} THEN url
        ELSE LET r == CHOOSE r \in found : \A s \in found : Len(s.prefix) <= Len(r.prefix)
             IN  r.base \o SubSeq(url, Len(r.prefix) + 1, Len(url))

\* A push URL is rewritten for pushing only where none is configured.
PushUrlsOf(remote) ==
    IF remote.push # <<>> THEN [i \in DOMAIN remote.push |-> Rewritten("instead", remote.push[i])]
    ELSE IF Matches("push", remote.fetch) # {} THEN <<Rewritten("push", remote.fetch)>>
    ELSE <<Rewritten("instead", remote.fetch)>>
FetchUrlOf(remote) == Rewritten("instead", remote.fetch)

\* Where a connection to a URL ends; SSH's failure leaves the host as it is.
Reached(url) ==
    IF HostIn(url) = NoHost \/ ~Ssh(url) THEN HostIn(url) ELSE conf.ssh[<<UserOf(url), HostIn(url)>>]

(***************************************************************************)
(* repo.rs                                                                 *)
(***************************************************************************)

\* SshHosts::resolve, ssh_user_host: `ssh -G` on the push's own user and host.
Resolved(url) ==
    IF Ssh(url) THEN conf.ssh[<<UserOf(url), HostIn(url)>>] ELSE HostIn(url)
HostOf(url) == IF HostIn(url) = NoHost THEN NoHost ELSE Resolved(url)

\* remote_repo, git_remotes: whose repository gh, and repo.rs like it, takes a
\* remote for. SSH is asked without the user, and where the fetch URL names no
\* host the last push URL that `git remote -v` lists is read instead.
Translated(url) ==
    IF HostIn(url) # NoHost /\ Ssh(url) THEN conf.ssh[<<"", HostIn(url)>>] ELSE HostIn(url)
HostOfRemote(remote) ==
    IF HostIn(FetchUrlOf(remote)) # NoHost THEN Translated(FetchUrlOf(remote))
    ELSE Translated(Last(PushUrlsOf(remote)))

FormsOf(forge) ==
    {<<"https://", forge, "/">>, <<"http://", forge, "/">>, <<"ssh://", "git@", forge, "/">>,
     <<"ssh://", forge, "/">>, <<"git@", forge, ":">>, <<forge, ":">>}

Overlaps(prefix, forge) == \E f \in FormsOf(forge) : IsPrefix(prefix, f) \/ IsPrefix(f, prefix)

\* Mutant: only a rule for the whole forge counts, not one for an owner on it.
PushLeaves_Whole(forge) ==
    \/ \E r \in conf.remotes : HostOf(FetchUrlOf(r)) = forge
         /\ \E i \in DOMAIN PushUrlsOf(r) : HostOf(PushUrlsOf(r)[i]) # forge
    \/ \E r \in conf.rules :
         /\ \E f \in FormsOf(forge) : IsPrefix(r.prefix, f)
         /\ HostOf(r.base) # forge

\* push_leaves, as `git remote -v` and `git config` show the checkout.
PushLeaves(forge) ==
    \/ \E r \in conf.remotes : HostOf(FetchUrlOf(r)) = forge
         /\ \E i \in DOMAIN PushUrlsOf(r) : HostOf(PushUrlsOf(r)[i]) # forge
    \/ \E r \in conf.rules : Overlaps(r.prefix, forge) /\ HostOf(r.base) # forge

SshPushLeaves(forge) == conf.ssh[<<"git@", forge>>] # forge

(***************************************************************************)
(* routing.rs                                                              *)
(***************************************************************************)

Said(words, set) == \E i \in DOMAIN words : words[i] \in set
RepoCreatePushes(words) ==
    Said(words, {"--push", "--push=true"}) \/ \A i \in DOMAIN words : words[i] = "--"

\* A gh that is launched, or whose config does not say https, may add an SSH remote.
SshProtocol == ~conf.login \/ conf.protocol # "https"

PushGoesElsewhere ==
    \/ conf.command = "repo" /\ RepoCreatePushes(conf.words)
    \/ conf.command = "pr" /\ (PushLeaves(Forge) \/ (SshProtocol /\ SshPushLeaves(Forge)))

(***************************************************************************)
(* gh                                                                      *)
(***************************************************************************)

\* pr create pushes to a remote it takes for the forge, or adds one for a fork.
TakenRemotes == {r \in conf.remotes : HostOfRemote(r) = Forge}
AddedRemotes ==
    {[fetch |-> <<"https://", Forge, "/", o>>, push |-> <<>>] : o \in Owners}
    \union (IF SshProtocol THEN {[fetch |-> <<"git@", Forge, ":", o>>, push |-> <<>>] : o \in Owners} ELSE {})

\* pflag's bool, the last one given; with neither argument nor flag it asks.
RepoPushes(words) ==
    \/ \E i \in DOMAIN words :
         /\ words[i] \in {"--push", "--push=true"}
         /\ \A j \in i..Len(words) : words[j] # "--push=false"
    \/ \A i \in DOMAIN words : words[i] = "--"

PushInit == conf \in Configs
PushSpec == PushInit /\ [][UNCHANGED conf]_conf

StaysOn(remotes) ==
    \A r \in remotes : \A i \in DOMAIN PushUrlsOf(r) : Reached(PushUrlsOf(r)[i]) = Forge

\* A fetch URL that names a host, the same with its SSH user as without.
ReadAlike(remote) ==
    /\ HostIn(FetchUrlOf(remote)) # NoHost
    /\ Translated(FetchUrlOf(remote)) = HostOf(FetchUrlOf(remote))

\* What the shim lets a forge's gh command push stays on the forge, under every
\* rewrite of git's that applies to it and every alias of SSH's: to any remote
\* gh adds, and to any it takes for the forge's that the shim reads as gh does.
\* A repo create it lets through pushes nothing (routing.rs
\* push_goes_elsewhere, repo.rs push_leaves).
PushesStay ==
    PushGoesElsewhere \/
        /\ conf.command = "pr" => StaysOn({r \in TakenRemotes : ReadAlike(r)} \union AddedRemotes)
        /\ conf.command = "repo" => ~RepoPushes(conf.words)

\* What repo.rs:638 says of push_leaves, "`None` when every push to the forge
\* stays there", for the remotes gh takes for the forge's.
NoneWhenAllStay == conf.command = "pr" /\ ~PushGoesElsewhere => StaysOn(TakenRemotes)
=============================================================================
