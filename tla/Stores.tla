------------------------------- MODULE Stores -------------------------------
(***************************************************************************)
(* What `gfj auth` and `gfj config` keep: the token file (auth.json), the  *)
(* Keychain, and the allowlist in config.toml, with several commands of    *)
(* one user at once.  No lock guards any of them.  A command is a process; *)
(* its step is one system call or one call of `security` that another      *)
(* command may come before or after.  Calls may fail, commands may be      *)
(* killed.                                                                 *)
(***************************************************************************)
EXTENDS Naturals, FiniteSets

CONSTANTS
    Procs,      \* the commands of a run
    Hosts,      \* Forgejo hosts
    None,       \* no token, no host
    Old,        \* the token a host has at the start
    OtherOps,   \* commands of a module that uses add_host, and
    OtherPlaces, \* where those may be
    MaxFaults,  \* bound: calls that fail for no reason the model knows
    MaxCrashes  \* bound: commands that are killed

Ops == {"login", "import", "logout", "add", "remove"}
Logins == {"login", "import"}

ASSUME StoresAssumption ==
    /\ OtherOps \cap Ops = {}
    /\ None \notin Hosts /\ None \notin Procs /\ Old \notin Procs /\ None # Old
    /\ MaxFaults \in Nat /\ MaxCrashes \in Nat

VARIABLES
    onMac,     \* whether `security` is there: use_keychain
    keychain,  \* host -> the token the Keychain holds for it
    auth,      \* auth.json
    config,    \* config.toml
    litter,    \* temporary files beside auth.json, each with tokens in it
    cmd,       \* process -> its command
    pc,        \* process -> where it is
    read,      \* process -> the auth.json it read
    loaded,    \* process -> the config it loaded, then the document it edits
    faults, crashes,
    \* history, for the properties only
    overlapped, \* the commands another command ran beside
    before,     \* process -> what was read and allowed when it began
    refused     \* the commands whose write the Keychain refused

stores == <<onMac, keychain, auth, config, litter>>
locals == <<read, loaded>>
history == <<overlapped, before, refused>>
vars == <<stores, cmd, pc, locals, faults, crashes, history>>

Token == Procs \union {Old, None}
Book == [Hosts -> Token]
NoTokens == [h \in Hosts |-> None]

\* auth.json: missing, unreadable (not JSON, not an object, no permission),
\* malformed (an object whose `hosts` is not one), or a map of hosts.  One that
\* is not whole still holds what its user put there.
AuthFile == [state: {"missing", "unreadable", "malformed", "whole"}, of: Book]
NoAuthFile == [state |-> "missing", of |-> NoTokens]

\* config.toml: the `hosts` array and the [host.*] tables.  A missing file reads
\* as one that lists nothing.
ConfigFile == [corrupt: BOOLEAN, listed: SUBSET Hosts, tables: SUBSET Hosts]
NoConfig == [corrupt |-> FALSE, listed |-> {}, tables |-> {}]

Commands == [op: Ops \union OtherOps, host: Hosts]
Ended == {"ok", "error", "killed"}

(***************************************************************************)
(* Readers                                                                 *)
(***************************************************************************)

\* read_file_token: an unreadable file holds no token for anybody.
FileToken(file, h) == IF file.state = "whole" THEN file.of[h] ELSE None

\* read_stored_token: the Keychain first, then the file.
Stored(chain, file, h) ==
    IF onMac /\ chain[h] # None THEN chain[h] ELSE FileToken(file, h)

StoredToken == [h \in Hosts |-> Stored(keychain, auth, h)]

\* load_config: the array's hosts and the tables' keys.
AllowedBy(c) == IF c.corrupt THEN {} ELSE c.listed \union c.tables
Allowed == AllowedBy(config)

(***************************************************************************)
(* Steps common to the commands                                            *)
(***************************************************************************)

Running == {p \in Procs : pc[p] \notin Ended \union {"ready"}}
Goto(p, where) == pc' = [pc EXCEPT ![p] = where]

\* A call fails for a reason outside the model: a full disk, a denied dialog.
Fault == faults < MaxFaults /\ faults' = faults + 1
NoFault == UNCHANGED faults

Fails(p) == Fault /\ Goto(p, "error") /\ UNCHANGED <<stores, cmd, locals, crashes, history>>

\* The command starts: its first call follows.
Begin(p) ==
    /\ pc[p] = "ready"
    /\ overlapped' = overlapped \union (IF Running = {} THEN {} ELSE Running \union {p})
    /\ before' = [before EXCEPT ![p] = [tokens |-> StoredToken, held |-> auth.of, allowed |-> Allowed]]
    /\ UNCHANGED <<stores, cmd, locals, faults, crashes, refused>>

Start(p) ==
    /\ Begin(p)
    /\ cmd[p].op \in Ops
    /\ \/ cmd[p].op \in Logins /\ Goto(p, "obtain")
       \/ cmd[p].op = "logout" /\ Goto(p, "forget")
       \/ cmd[p].op \in {"add", "remove"} /\ Goto(p, "load")

\* Mutant: the token is stored before the host is allowed.
Obtain_SavesFirst(p) ==
    /\ pc[p] = "obtain"
    /\ Goto(p, "save") \/ Goto(p, "error")
    /\ UNCHANGED <<stores, cmd, locals, faults, crashes, history>>

\* auth::validate_token loads the config for the host's settings and asks the
\* forge, which may refuse the token; read_import looks in another tool's file,
\* which may have none or several for the host.
Obtain(p) ==
    /\ pc[p] = "obtain"
    /\ \/ (cmd[p].op = "import" \/ ~config.corrupt) /\ Goto(p, "load")
       \/ Goto(p, "error")
    /\ UNCHANGED <<stores, cmd, locals, faults, crashes, history>>

(***************************************************************************)
(* config::add_host and remove_host                                        *)
(***************************************************************************)

\* load_config_with_env, with no environment: FJ_SHIM_HOSTS is not written back.
Load(p) ==
    /\ pc[p] = "load"
    /\ IF config.corrupt
       THEN Goto(p, "error") /\ UNCHANGED loaded
       ELSE /\ Goto(p, "reread")
            /\ loaded' = [loaded EXCEPT ![p] =
                   [corrupt |-> FALSE, tables |-> config.tables,
                    listed |-> IF cmd[p].op = "remove" THEN Allowed \ {cmd[p].host}
                               ELSE Allowed \union {cmd[p].host}]]
    /\ UNCHANGED <<stores, cmd, read, faults, crashes, history>>

\* write_hosts reads the file again: the array will hold what was loaded, and
\* everything else is what this second read finds.
Reread(p) ==
    /\ pc[p] = "reread"
    /\ \/ /\ ~config.corrupt
          /\ loaded' = [loaded EXCEPT ![p] =
                 [corrupt |-> FALSE, listed |-> loaded[p].listed,
                  tables |-> IF cmd[p].op = "remove" THEN config.tables \ {cmd[p].host} ELSE config.tables]]
          /\ Goto(p, "replace") /\ NoFault
          /\ UNCHANGED <<stores, cmd, read, crashes, history>>
       \/ config.corrupt /\ Goto(p, "error") /\ NoFault
          /\ UNCHANGED <<stores, cmd, locals, crashes, history>>
       \/ Fails(p)

AfterAddHost(p) ==
    IF cmd[p].op \in Logins THEN "save" ELSE IF cmd[p].op \in OtherOps THEN "look" ELSE "ok"

\* replace_config_file: written beside it and renamed over it; the old file's
\* mode, given to the new one after that, may be what fails.  The caller goes on.
Replace(p) ==
    /\ pc[p] = "replace"
    /\ \/ /\ config' = loaded[p]
          /\ \/ Goto(p, AfterAddHost(p)) /\ NoFault
             \/ Goto(p, "error") /\ Fault
          /\ UNCHANGED <<onMac, keychain, auth, litter, cmd, locals, crashes, history>>
       \/ Fails(p)

(***************************************************************************)
(* auth::write_stored_token and delete_stored_token                        *)
(***************************************************************************)

\* The Keychain first; when it refuses, the file.
Save(p) ==
    /\ pc[p] = "save"
    /\ \/ /\ onMac
          /\ keychain' = [keychain EXCEPT ![cmd[p].host] = p]
          /\ Goto(p, "erase") /\ NoFault
          /\ UNCHANGED <<onMac, auth, config, litter, refused>>
       \/ /\ ~onMac /\ NoFault
          /\ Goto(p, "write")
          /\ UNCHANGED <<stores, refused>>
       \/ /\ onMac /\ Fault
          /\ refused' = refused \union {p}
          /\ Goto(p, "write")
          /\ UNCHANGED stores
    /\ UNCHANGED <<cmd, locals, crashes, overlapped, before>>

\* Logout: a delete the Keychain refuses counts as nothing stored there.
Forget(p) ==
    /\ pc[p] = "forget"
    /\ \/ /\ onMac /\ NoFault
          /\ keychain' = [keychain EXCEPT ![cmd[p].host] = None]
          /\ UNCHANGED refused
       \/ ~onMac /\ NoFault /\ UNCHANGED <<keychain, refused>>
       \/ onMac /\ Fault /\ refused' = refused \union {p} /\ UNCHANGED keychain
    /\ Goto(p, "erase")
    /\ UNCHANGED <<onMac, auth, config, litter, cmd, locals, crashes, overlapped, before>>

\* Mutant: an unreadable file is taken for an empty one.
Write_Over(p) ==
    /\ pc[p] = "write"
    /\ read' = [read EXCEPT ![p] =
           [state |-> "whole", of |-> [(IF auth.state = "whole" THEN auth.of ELSE NoTokens)
                                        EXCEPT ![cmd[p].host] = p]]]
    /\ litter' = litter \union {p}
    /\ Goto(p, "publish")
    /\ UNCHANGED <<onMac, keychain, auth, config, cmd, loaded, faults, crashes, history>>

\* write_file_token up to the temporary file: a file that is not whole is an
\* error, and the new map is the one read with this host's token in it.
Write(p) ==
    /\ pc[p] = "write"
    /\ \/ /\ auth.state \in {"missing", "whole"}
          /\ read' = [read EXCEPT ![p] = [state |-> "whole",
                                          of |-> [auth.of EXCEPT ![cmd[p].host] = p]]]
          /\ litter' = litter \union {p}
          /\ Goto(p, "publish") /\ NoFault
          /\ UNCHANGED <<onMac, keychain, auth, config, cmd, loaded, crashes, history>>
       \/ auth.state \in {"unreadable", "malformed"} /\ Goto(p, "error") /\ NoFault
          /\ UNCHANGED <<stores, cmd, locals, crashes, history>>
       \/ Fails(p)

\* delete_file_token up to the temporary file, or up to removing a file that
\* would hold no host any more.
Erase(p) ==
    LET h == cmd[p].host
        rest == [auth.of EXCEPT ![h] = None]
        goOn(where) == Goto(p, where) /\ NoFault
                       /\ UNCHANGED <<onMac, keychain, auth, config, cmd, loaded, crashes, history>>
    IN  /\ pc[p] = "erase"
        /\ \/ auth.state = "unreadable" /\ goOn("error") /\ UNCHANGED <<read, litter>>
           \/ /\ auth.state # "unreadable" /\ FileToken(auth, h) = None
              /\ goOn("ok") /\ UNCHANGED <<read, litter>>
           \/ /\ auth.state = "whole" /\ auth.of[h] # None /\ rest = NoTokens
              /\ goOn("unlink") /\ UNCHANGED <<read, litter>>
           \/ /\ auth.state = "whole" /\ auth.of[h] # None /\ rest # NoTokens
              /\ read' = [read EXCEPT ![p] = [state |-> "whole", of |-> rest]]
              /\ litter' = litter \union {p}
              /\ goOn("publish")
           \/ Fails(p)

\* remove_file, by name: not finding the file is fine.
Unlink(p) ==
    /\ pc[p] = "unlink"
    /\ \/ /\ auth' = NoAuthFile
          /\ Goto(p, "ok") /\ NoFault
          /\ UNCHANGED <<onMac, keychain, config, litter, cmd, locals, crashes, history>>
       \/ Fails(p)

\* write_auth_file from the temporary file on: the rename, or on any failure the
\* temporary file is removed.  The mode set after the rename may fail too.
Publish(p) ==
    /\ pc[p] = "publish"
    /\ litter' = litter \ {p}
    /\ \/ auth' = read[p] /\ Goto(p, "ok") /\ NoFault
       \/ auth' \in {auth, read[p]} /\ Goto(p, "error") /\ Fault
    /\ UNCHANGED <<onMac, keychain, config, cmd, locals, crashes, history>>

\* SIGKILL, a power cut.
Crash(p) ==
    /\ p \in Running /\ crashes < MaxCrashes
    /\ crashes' = crashes + 1
    /\ Goto(p, "killed")
    /\ UNCHANGED <<stores, cmd, locals, faults, history>>

(***************************************************************************)
(* The specification                                                       *)
(***************************************************************************)

\* Any command for any host, on stores that earlier commands and the user's own
\* editor left behind: one host may have a token in both places, since a login
\* the Keychain took may have failed to clear the file.
InitStores ==
    /\ onMac \in BOOLEAN
    /\ keychain \in [Hosts -> {Old, None}]
    /\ ~onMac => keychain = NoTokens
    /\ auth \in [state: {"unreadable", "malformed", "whole"}, of: [Hosts -> {Old, None}]] \union {NoAuthFile}
    /\ config \in [corrupt: {FALSE}, listed: SUBSET Hosts, tables: SUBSET Hosts]
                  \union {[corrupt |-> TRUE, listed |-> {}, tables |-> {}]}
    /\ litter = {}

InitCommands ==
    /\ cmd \in [Procs -> Commands]
    /\ pc = [p \in Procs |-> "ready"]
    /\ read = [p \in Procs |-> NoAuthFile]
    /\ loaded = [p \in Procs |-> NoConfig]
    /\ faults = 0 /\ crashes = 0
    /\ overlapped = {} /\ refused = {}
    /\ before = [p \in Procs |-> [tokens |-> StoredToken, held |-> auth.of, allowed |-> Allowed]]

Init == InitStores /\ InitCommands

Step(p) ==
    \/ Start(p) \/ Obtain(p) \/ Load(p) \/ Reread(p) \/ Replace(p)
    \/ Save(p) \/ Forget(p) \/ Write(p) \/ Erase(p) \/ Unlink(p) \/ Publish(p)
    \/ Crash(p)

Next == \E p \in Procs : Step(p)

Spec == Init /\ [][Next]_vars

(***************************************************************************)
(* Properties                                                              *)
(***************************************************************************)

\* Every variable has its type.
TypeOK ==
    /\ onMac \in BOOLEAN /\ keychain \in Book /\ auth \in AuthFile /\ config \in ConfigFile
    /\ litter \subseteq Procs /\ cmd \in [Procs -> Commands]
    /\ pc \in [Procs -> {"ready", "obtain", "load", "reread", "replace", "save", "forget",
                         "write", "erase", "unlink", "publish", "look"} \union Ended \union OtherPlaces]
    /\ read \in [Procs -> AuthFile] /\ loaded \in [Procs -> ConfigFile]
    /\ faults \in 0..MaxFaults /\ crashes \in 0..MaxCrashes
    /\ overlapped \subseteq Procs /\ refused \subseteq Procs
    /\ before \in [Procs -> [tokens: Book, held: Book, allowed: SUBSET Hosts]]

Ends(p) == pc[p] \notin Ended /\ pc'[p] \in Ended
Alone(p) == p \notin overlapped
TokensThen(p) == before[p].tokens
AllowedThen(p) == before[p].allowed

\* What an ended command may leave, told from what it found: the stores as they
\* were, or with its own host's token or entry replaced; and when it says "ok",
\* replaced.  The Keychain may refuse, and then still holds what it held.
Effect(p) ==
    LET h == cmd[p].host
        ok == pc'[p] = "ok"
        tokens == StoredToken'
        with(t) == [TokensThen(p) EXCEPT ![h] = t]
    IN  (pc'[p] # "killed" => p \notin litter') /\
        CASE cmd[p].op \in Logins ->
              /\ ok => tokens = with(p) \/ (p \in refused /\ before[p].tokens[h] = keychain[h])
              /\ ok => Allowed' = AllowedThen(p) \union {h}
              /\ Allowed' \in {AllowedThen(p), AllowedThen(p) \union {h}}
              /\ tokens \in {TokensThen(p), with(p)}
              /\ tokens # TokensThen(p) => h \in Allowed'
          [] cmd[p].op = "logout" ->
              /\ ok => tokens = with(None) \/ p \in refused
              /\ \A g \in Hosts \ {h} : tokens[g] = TokensThen(p)[g]
              /\ Allowed' = AllowedThen(p)
          [] cmd[p].op = "add" ->
              /\ ok => Allowed' = AllowedThen(p) \union {h}
              /\ Allowed' \in {AllowedThen(p), AllowedThen(p) \union {h}}
              /\ tokens = TokensThen(p)
          [] cmd[p].op = "remove" ->
              /\ ok => Allowed' = AllowedThen(p) \ {h}
              /\ Allowed' \in {AllowedThen(p), AllowedThen(p) \ {h}}
              /\ tokens = TokensThen(p)

\* A command that no other ran beside does what it says and nothing else, however
\* many of its calls fail or where it is killed: other hosts keep their tokens
\* and entries, a token is stored only for a host that is allowed by then ("the
\* config first: when it is corrupt, the command fails before replacing a stored
\* token"), and no temporary file with tokens stays unless it was killed (cli.rs
\* auth_login, auth.rs, config.rs).
DoesWhatItSays == [][\A p \in Procs : Ends(p) /\ Alone(p) /\ cmd[p].op \in Ops => Effect(p)]_vars

\* A host that no command names keeps its token and its entry whatever the
\* commands beside each other, their failures and their deaths do to one another,
\* and a file that cannot be read keeps what it holds (auth.rs read_auth_file: "a
\* write never replaces an unreadable file and loses the other hosts' tokens").
BystandersKept ==
    LET named == {cmd[p].host : p \in Procs}
    IN  \A h \in Hosts \ named, p \in Procs :
          /\ StoredToken[h] = before[p].tokens[h] /\ auth.of[h] = before[p].held[h]
          /\ h \in Allowed <=> h \in before[p].allowed

\* docs/configuration.md: a login saves the token so that commands "can use the
\* saved token immediately".
SavedIsUsed ==
    [][\A p \in Procs : Ends(p) /\ Alone(p) /\ cmd[p].op \in Logins /\ pc'[p] = "ok"
         => StoredToken'[cmd[p].host] = p]_vars
=============================================================================
