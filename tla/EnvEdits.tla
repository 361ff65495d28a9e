------------------------------ MODULE EnvEdits ------------------------------
(***************************************************************************)
(* The environment along one chain of processes: the user's shell runs the *)
(* wrapper, the wrapper launches gh, steps aside to it or delegates, gh    *)
(* runs scripts, and those run the wrapper again.                          *)
(* crates/gh-forgejo-shim/src/launcher/env.rs, with the guards of          *)
(* launcher.rs and the edits of launcher/start.rs.  A process inherits its *)
(* parent's environment and never sees it change, so one environment, that *)
(* of the newest process, is all the state there is.                       *)
(*                                                                         *)
(* A value is a sequence of entries, so that git can append to one; most   *)
(* have a single entry.  The empty sequence is a variable set to nothing.  *)
(***************************************************************************)
EXTENDS Naturals, Sequences

CONSTANTS
    SetVars,     \* variables every launch sets (GH_CONFIG_DIR, GH_PATH, ...)
    TokenVars,   \* variables every launch removes (GH_TOKEN, ...)
    Host,        \* GH_HOST, which some calls set
    Gcp,         \* GIT_CONFIG_PARAMETERS, which git appends to
    UserValues,  \* values the user or a script gives a variable
    ForgeHost,   \* the value a call gives GH_HOST; the user may have it too
    Unset,       \* no value
    MaxDepth,    \* MAX_DEPTH, 8 in the code
    MaxPid,      \* bound on the processes in the chain
    MaxChanges   \* bound on changes scripts make

Entry == {"user", "own"} \X Nat
Value == Seq(Entry)
Vars == SetVars \cup TokenVars \cup {Host, Gcp}

ASSUME EnvAssumption ==
    /\ SetVars \cap TokenVars = {}
    /\ Host \notin SetVars \cup TokenVars \cup {Gcp}
    /\ Gcp \notin SetVars \cup TokenVars
    /\ UserValues \subseteq Value /\ ForgeHost \in Value /\ Unset \notin Value
    /\ \A x \in UserValues : \A i \in 1..Len(x) : x[i][1] = "user"
    /\ MaxDepth \in Nat /\ MaxPid \in Nat /\ MaxChanges \in Nat

VARIABLES
    at,       \* what the newest process is, or where the wrapper is
    pid, parent,
    env,      \* the variables of Vars
    orig, set, saved, \* FJ_SHIM_ORIG_*, FJ_SHIM_SET_* and FJ_SHIM_SAVED
    launcher, \* FJ_SHIM_LAUNCHER, or 0
    depth,    \* FJ_SHIM_DEPTH
    want,     \* history: the environment had no launcher changed it
    asGh,     \* history: a launcher started this process as real gh
    entered,  \* history: wrappers of this chain that got past the guards
    changes   \* how much of its bound is spent

book == <<orig, set, saved, launcher>>
vars == <<at, pid, parent, env, orig, set, saved, launcher, depth,
          want, asGh, entered, changes>>

-----------------------------------------------------------------------------
Init ==
    /\ at = "script"             \* the user's shell
    /\ pid = 2 /\ parent = 1
    /\ env \in [Vars -> UserValues \cup {Unset}]
    /\ orig = [v \in Vars |-> Unset] /\ set = [v \in Vars |-> Unset]
    /\ saved = {} /\ launcher = 0 /\ depth = 0
    /\ want = env
    /\ asGh = FALSE /\ entered = 0 /\ changes = 0

(* The newest process starts another, which is now the newest.             *)
Spawns(what) ==
    /\ pid < MaxPid
    /\ pid' = pid + 1 /\ parent' = pid
    /\ at' = what

(* Or it execs: same process, same parent.                                 *)
Execs(what) ==
    /\ at' = what
    /\ UNCHANGED <<pid, parent>>

-----------------------------------------------------------------------------
(* apply, then remove_unrecorded: each edit is recorded with the value it  *)
(* replaced, and the names in gone leave no record.                        *)
Apply(edits, gone) ==
    /\ env' = [v \in Vars |-> IF v \in gone THEN Unset
                              ELSE IF v \in DOMAIN edits THEN edits[v] ELSE env[v]]
    /\ set' = [v \in Vars |-> IF v \in DOMAIN edits THEN edits[v] ELSE set[v]]
    /\ orig' = [v \in Vars |-> IF v \in DOMAIN edits THEN env[v] ELSE orig[v]]
    /\ saved' = IF DOMAIN edits = {} THEN saved ELSE DOMAIN edits

(* git appended to what the launcher set, and what it appended.            *)
Extends(x, s) ==
    /\ Len(x) > Len(s)
    /\ \A i \in 1..Len(s) : x[i] = s[i]
Remains(x, s) == [i \in 1..(Len(x) - Len(s)) |-> x[i + Len(s)]]

Appended(v) ==
    v = Gcp /\ env[v] # Unset /\ set[v] # Unset /\ Extends(env[v], set[v])

(* Variant of a variable put back: without git's entries.                  *)
Reverted_NoAppended(v) ==
    IF v \notin saved THEN env[v]
    ELSE IF env[v] = set[v] THEN orig[v]
    ELSE env[v]

(* revert: one variable.  What something in between changed on purpose     *)
(* stays, git's own entries after the launcher's included.                 *)
Reverted(v) ==
    IF v \notin saved THEN env[v]
    ELSE IF env[v] = set[v] THEN orig[v]
    ELSE IF ~Appended(v) THEN env[v]
    ELSE IF orig[v] = Unset THEN Remains(env[v], set[v])
    ELSE orig[v] \o Remains(env[v], set[v])

-----------------------------------------------------------------------------
(* The wrapper's entry: guard 2, guard 3, then revert and one level more.  *)

Guard2 == launcher = parent
Guard3 == depth >= MaxDepth

Refuse ==
    /\ at = "entry"
    /\ \/ Guard2 /\ at' = "not gh"
       \/ ~Guard2 /\ Guard3 /\ at' = "too deep"
    /\ UNCHANGED <<pid, parent, env, book, depth, want, asGh, entered, changes>>

Enter ==
    /\ at = "entry" /\ ~Guard2 /\ ~Guard3
    /\ at' = "route"
    /\ env' = [v \in Vars |-> Reverted(v)]
    /\ orig' = [v \in Vars |-> IF v \in saved THEN Unset ELSE orig[v]]
    /\ set' = [v \in Vars |-> IF v \in saved THEN Unset ELSE set[v]]
    /\ saved' = {} /\ launcher' = 0
    /\ depth' = depth + 1
    /\ entered' = entered + 1
    /\ UNCHANGED <<pid, parent, want, asGh, changes>>

-----------------------------------------------------------------------------
(* What the wrapper then does.                                             *)

Own == <<"own", pid>>    \* this launch's run directory

HostEdit == IF env[Host] = ForgeHost THEN {} ELSE {Host}

(* A launch's edits; only some calls point gh at the forge.                *)
LaunchEdits(names) ==
    [v \in names |->
        IF v \in TokenVars THEN Unset
        ELSE IF v = Host THEN ForgeHost
        ELSE IF v = Gcp /\ env[v] # Unset THEN Append(env[v], Own)
        ELSE <<Own>>]

Launch ==
    /\ at = "route"
    /\ \E host \in {{}, HostEdit} : Apply(LaunchEdits(SetVars \cup TokenVars \cup {Gcp} \cup host), {})
    /\ launcher' = pid
    /\ Spawns("gh") /\ asGh' = TRUE
    /\ UNCHANGED <<depth, want, entered, changes>>

(* The tokens go without a record: nobody gets them back.  Unless it       *)
(* traces, the wrapper becomes gh.                                         *)
StepAside ==
    /\ at = "route"
    /\ Apply([v \in HostEdit |-> ForgeHost], TokenVars)
    /\ want' = [v \in Vars |-> IF v \in TokenVars THEN Unset ELSE want[v]]
    /\ Execs("gh") \/ Spawns("gh")
    /\ asGh' = FALSE
    /\ UNCHANGED <<launcher, depth, entered, changes>>

Delegate ==
    /\ at = "route"
    /\ Execs("gh") \/ Spawns("gh")
    /\ asGh' = FALSE
    /\ UNCHANGED <<env, book, depth, want, entered, changes>>

-----------------------------------------------------------------------------
(* The rest of the chain.  What the wrapper took for gh may be the wrapper *)
(* again, at once or through a script.                                     *)

GhIsTheWrapper ==
    /\ at = "gh"
    /\ \/ Execs("entry") /\ UNCHANGED asGh
       \/ Spawns("entry") /\ asGh' = FALSE
    /\ UNCHANGED <<env, book, depth, want, entered, changes>>

GhRunsScript ==
    /\ at = "gh"
    /\ Spawns("script") /\ asGh' = FALSE
    /\ UNCHANGED <<env, book, depth, want, entered, changes>>

(* A script runs `gh`, which is the wrapper.                               *)
ScriptRunsWrapper ==
    /\ at = "script"
    /\ Execs("entry") \/ Spawns("entry")
    /\ UNCHANGED <<env, book, depth, want, asGh, entered, changes>>

(* A script changes a variable on purpose.  Giving it the very value the   *)
(* launcher gave it cannot be told from leaving it alone.                  *)
ScriptChanges ==
    /\ at = "script" /\ changes < MaxChanges
    /\ \E v \in Vars, x \in UserValues \cup {Unset} :
         /\ v \in saved => x # set[v]
         /\ env' = [env EXCEPT ![v] = x]
         /\ want' = [want EXCEPT ![v] = x]
    /\ changes' = changes + 1
    /\ UNCHANGED <<at, pid, parent, book, depth, asGh, entered>>

GitEntry == <<"user", 9>>
After(value) == IF value = Unset THEN <<GitEntry>> ELSE Append(value, GitEntry)

(* A script runs `git -c`, and git's child runs on with its entry.         *)
GitAppends ==
    /\ at = "script" /\ changes < MaxChanges
    /\ env' = [env EXCEPT ![Gcp] = After(@)]
    /\ want' = [want EXCEPT ![Gcp] = After(@)]
    /\ changes' = changes + 1
    /\ UNCHANGED <<at, pid, parent, book, depth, asGh, entered>>

-----------------------------------------------------------------------------
Next ==
    \/ Refuse \/ Enter \/ Launch \/ StepAside \/ Delegate
    \/ GhIsTheWrapper \/ GhRunsScript \/ ScriptRunsWrapper
    \/ ScriptChanges \/ GitAppends

Spec == Init /\ [][Next]_vars

-----------------------------------------------------------------------------
(* Every variable has its type.  (env.rs and its callers.)                 *)
TypeOK ==
    /\ at \in {"script", "entry", "route", "gh", "not gh", "too deep"}
    /\ pid \in Nat /\ parent \in Nat
    /\ env \in [Vars -> {Unset} \cup Value] /\ want \in [Vars -> {Unset} \cup Value]
    /\ orig \in [Vars -> {Unset} \cup Value] /\ set \in [Vars -> {Unset} \cup Value]
    /\ saved \subseteq Vars
    /\ launcher \in Nat /\ depth \in Nat /\ entered \in Nat
    /\ asGh \in BOOLEAN /\ changes \in 0..MaxChanges

(* Whatever a chain did before, a nested wrapper routes with the           *)
(* environment the user and the scripts in between made, launchers apart:  *)
(* no value of an earlier run directory, no lost change, no lost git       *)
(* entry, and after stepping aside no token.                               *)
UserEnvBack == at = "route" => env = want

(* It passes none of the bookkeeping on, so a chain of delegating wrappers *)
(* cannot act on a record that is no longer true.                          *)
RecordGone == at = "route" => saved = {} /\ launcher = 0 /\ \A v \in Vars : orig[v] = Unset /\ set[v] = Unset

(* At most MAX_DEPTH wrappers of a chain get in, however they come to run  *)
(* each other.                                                             *)
DepthBounded == entered <= MaxDepth

(* Guard 2 stops exactly the wrapper that a launcher took for gh: it never *)
(* gets in, and a nested call further down is never mistaken for it.       *)
OnlyRealGh ==
    /\ at = "route" => ~asGh
    /\ at = "not gh" => asGh

(* However wrappers, gh and scripts run each other, a chain ends and each  *)
(* nested wrapper in it is one the user's own environment would have had.  *)
NestedSound == UserEnvBack /\ DepthBounded /\ OnlyRealGh

-----------------------------------------------------------------------------
(* What makes these inductive.  At every moment revert would yield what    *)
(* the user wants: env, set and orig always carry it together.             *)
Recoverable == \A v \in Vars : Reverted(v) = want[v]

(* Only saved names have a record, and what a launch set GIT_CONFIG_       *)
(* PARAMETERS to ends in an entry nobody else writes.                      *)
Recorded ==
    /\ \A v \in Vars : v \notin saved => orig[v] = Unset /\ set[v] = Unset
    /\ at = "route" => saved = {} /\ launcher = 0
    /\ Gcp \in saved => /\ set[Gcp] # Unset /\ Len(set[Gcp]) > 0
                        /\ set[Gcp][Len(set[Gcp])][1] = "own"

(* A launcher's own child is the only process whose parent it names.       *)
Parented ==
    /\ parent > 0 /\ pid > parent
    /\ IF asGh THEN launcher = parent /\ at \in {"gh", "entry", "not gh"}
               ELSE launcher < parent /\ at # "not gh"

Counted == entered <= depth /\ depth <= MaxDepth

IInv == TypeOK /\ Recoverable /\ Recorded /\ Parented /\ Counted
=============================================================================
