------------------------------- MODULE RunDir -------------------------------
(***************************************************************************)
(* The launcher's private run directories on one machine:                  *)
(* crates/gh-forgejo-shim/src/launcher/rundir.rs, driven in the order      *)
(* launcher/run.rs calls it.  Any number of launches of one user share the *)
(* parents ($XDG_RUNTIME_DIR, $TMPDIR, /tmp).  Each launch first sweeps    *)
(* the directories of dead launches, then makes its own, fills it with     *)
(* token files, serves gh, and removes it.  Every system call of the code  *)
(* that another launch can observe is a step of its own, and a launch can  *)
(* be SIGKILLed between any two of them.                                   *)
(*                                                                         *)
(* A directory is identified by its name, `gfj-` and 64 random bits.  Names*)
(* are taken to be fresh, so one name stands for one directory and for the *)
(* one lock inode it ever holds; the inode outlives its name for as long   *)
(* as a sweeper keeps it open.                                             *)
(***************************************************************************)
EXTENDS Naturals, Sequences

CONSTANTS
    Launchers,     \* processes, each running one launch
    Dirs,          \* run directory names
    Planted,       \* names that exist before any launch and are not a launch's
    None,          \* no directory, no process
    MaxCrashes,    \* bound on SIGKILLs
    MaxFaults,     \* bound on failing file system calls
    MaxForeign     \* bound on files other programs leave in a run directory

ASSUME RunDirAssumption ==
    /\ None \notin Launchers \cup Dirs
    /\ Planted \subseteq Dirs
    /\ MaxCrashes \in Nat /\ MaxFaults \in Nat /\ MaxForeign \in Nat

VARIABLES
    pc,      \* where each launch is
    own,     \* the directory a launch created
    todo,    \* the directory entries a launch's sweep has not looked at yet
    at,      \* the directory whose lock file a sweep has open
    idx,     \* position in WRITES while filling, in NAMES while removing
    dirs,    \* the directories that exist
    entries, \* the names in each directory
    flock,   \* who holds the exclusive lock on each directory's lock inode
    marked,  \* the directories whose lock inode holds exactly the marker
    used,    \* names some launch has created a directory under
    crashes, faults, foreign  \* how much of each bound is spent

disk == <<dirs, entries, flock, marked, used>>
bounds == <<crashes, faults, foreign>>
vars == <<pc, own, todo, at, idx, dirs, entries, flock, marked, used,
          crashes, faults, foreign>>

-----------------------------------------------------------------------------
(* Variants of NAMES a change of the code could bring in.                  *)
NAMES_LockFirst == <<"lock", "s", "config.yml", "hosts.yml", "credentials", "gh", "panic">>
NAMES_NoCredentials == <<"s", "config.yml", "hosts.yml", "gh", "panic", "lock">>
(* The names a launcher creates, in the order it removes them.             *)
NAMES == <<"s", "config.yml", "hosts.yml", "credentials", "gh", "panic", "lock">>

(* The order in which a launch fills its directory.  The first two are     *)
(* skipped when their text is empty.                                       *)
WRITES == <<"credentials", "gh", "config.yml", "hosts.yml", "s">>
Optional == {"credentials", "gh"}

Staged == ".lock-random"   \* the lock file before its rename
Unknown == "unknown"       \* any name outside NAMES
Known == {"s", "config.yml", "hosts.yml", "credentials", "gh", "panic", "lock"}
Files == Known \cup {Staged, Unknown}

(* The files that hold a token.                                            *)
Secrets == {"hosts.yml", "credentials"}

(* A launch's program counter, grouped the way the code nests its calls.   *)
Sweeping == {"sweep", "opened", "locked", "clearing"}
Creating == {"create", "made", "staged", "flocked", "stamped"}
Holding  == {"filling", "serving"}
Removing == {"removing", "dropping"}
Ended    == {"returning", "done", "dead"}
PC == Sweeping \cup Creating \cup Holding \cup Removing \cup Ended

-----------------------------------------------------------------------------
(* Before the first launch the parents may hold directories of the right   *)
(* name that no launch made: with a lock file that lacks the marker, or    *)
(* with other files.                                                       *)
Init ==
    /\ pc = [p \in Launchers |-> "sweep"]
    /\ own = [p \in Launchers |-> None]
    /\ todo = [p \in Launchers |-> Dirs]
    /\ at = [p \in Launchers |-> None]
    /\ idx = [p \in Launchers |-> 1]
    /\ dirs = Planted
    /\ \E kept \in [Planted -> {{"lock", "hosts.yml"}, {"credentials"}}] :
         entries = [d \in Dirs |-> IF d \in Planted THEN kept[d] ELSE {}]
    /\ flock = [d \in Dirs |-> None]
    /\ marked = {}
    /\ used = {}
    /\ crashes = 0 /\ faults = 0 /\ foreign = 0

Goto(p, label) == pc' = [pc EXCEPT ![p] = label]

(* A file system call fails with something other than "not found".         *)
Fault == faults < MaxFaults /\ faults' = faults + 1 /\ UNCHANGED <<crashes, foreign>>

-----------------------------------------------------------------------------
(* The sweep.  `todo` starts as every name, and a name that does not exist *)
(* when it is looked at is skipped: whether the listing was taken before   *)
(* or after a directory came or went makes no other difference.            *)

(* A directory without a file named `lock` is left alone.                  *)
SweepSkip(p) ==
    /\ pc[p] = "sweep"
    /\ \E d \in todo[p] :
         /\ d \notin dirs \/ "lock" \notin entries[d]
         /\ todo' = [todo EXCEPT ![p] = @ \ {d}]
    /\ UNCHANGED <<pc, own, at, idx, disk, bounds>>

SweepOpen(p) ==
    /\ pc[p] = "sweep"
    /\ \E d \in todo[p] :
         /\ d \in dirs /\ "lock" \in entries[d]
         /\ todo' = [todo EXCEPT ![p] = @ \ {d}]
         /\ at' = [at EXCEPT ![p] = d]
    /\ Goto(p, "opened")
    /\ UNCHANGED <<own, idx, disk, bounds>>

(* Variants: the lock is not asked for, or is waited for.                  *)
SweepTryLock_Unasked(p) ==
    /\ pc[p] = "opened"
    /\ Goto(p, "locked")
    /\ UNCHANGED <<own, todo, at, idx, disk, bounds>>
SweepTryLock_Waits(p) ==
    /\ pc[p] = "opened"
    /\ flock[at[p]] = None
    /\ flock' = [flock EXCEPT ![at[p]] = p]
    /\ Goto(p, "locked")
    /\ UNCHANGED <<own, todo, at, idx, dirs, entries, marked, used, bounds>>

(* The open lock inode is tried without waiting: a live owner, or another  *)
(* sweeper, keeps this one out.                                            *)
SweepTryLock(p) ==
    /\ pc[p] = "opened"
    /\ IF flock[at[p]] = None
         THEN /\ flock' = [flock EXCEPT ![at[p]] = p]
              /\ Goto(p, "locked")
              /\ UNCHANGED at
         ELSE /\ Goto(p, "sweep")
              /\ at' = [at EXCEPT ![p] = None]
              /\ UNCHANGED flock
    /\ UNCHANGED <<own, todo, idx, dirs, entries, marked, used, bounds>>

(* Only a lock file that holds exactly the marker condemns its directory;  *)
(* otherwise closing the file gives the lock back.                         *)
SweepRead(p) ==
    /\ pc[p] = "locked"
    /\ IF at[p] \in marked
         THEN /\ Goto(p, "clearing")
              /\ idx' = [idx EXCEPT ![p] = 1]
              /\ UNCHANGED <<at, flock>>
         ELSE /\ Goto(p, "sweep")
              /\ flock' = [flock EXCEPT ![at[p]] = None]
              /\ at' = [at EXCEPT ![p] = None]
              /\ UNCHANGED idx
    /\ UNCHANGED <<own, todo, dirs, entries, marked, used, bounds>>

(* The lock file cannot be read: its directory is skipped.                 *)
SweepReadFails(p) ==
    /\ pc[p] = "locked"
    /\ Fault
    /\ Goto(p, "sweep")
    /\ flock' = [flock EXCEPT ![at[p]] = None]
    /\ at' = [at EXCEPT ![p] = None]
    /\ UNCHANGED <<own, todo, idx, dirs, entries, marked, used>>

SweepDone(p) ==
    /\ pc[p] = "sweep" /\ todo[p] = {}
    /\ Goto(p, "create")
    /\ UNCHANGED <<own, todo, at, idx, disk, bounds>>

-----------------------------------------------------------------------------
(* remove_known: every known name in order, then the directory, which goes *)
(* only if nothing else is in it.  One call per step.                      *)

RemoveName(p, d) ==
    /\ idx[p] <= Len(NAMES)
    /\ idx' = [idx EXCEPT ![p] = @ + 1]
    /\ entries' = [entries EXCEPT ![d] = @ \ {NAMES[idx[p]]}]
    /\ UNCHANGED <<pc, own, todo, at, dirs, flock, marked, used, bounds>>

(* The directory goes if it is empty; either way the lock file is closed.  *)
RemoveDirectory(p, d, after) ==
    /\ idx[p] = Len(NAMES) + 1
    /\ dirs' = IF entries[d] = {} THEN dirs \ {d} ELSE dirs
    /\ flock' = [flock EXCEPT ![d] = None]
    /\ at' = [at EXCEPT ![p] = None]
    /\ Goto(p, after)
    /\ UNCHANGED <<own, todo, idx, entries, marked, used, bounds>>

(* Any other error ends the removal there and keeps the rest.              *)
RemoveFails(p, d, after) ==
    /\ Fault
    /\ flock' = [flock EXCEPT ![d] = None]
    /\ at' = [at EXCEPT ![p] = None]
    /\ Goto(p, after)
    /\ UNCHANGED <<own, todo, idx, dirs, entries, marked, used>>

RemoveKnown(p, d, after) == RemoveName(p, d) \/ RemoveDirectory(p, d, after)

SweepRemove(p) == pc[p] = "clearing" /\ RemoveKnown(p, at[p], "sweep")
SweepRemoveFails(p) == pc[p] = "clearing" /\ RemoveFails(p, at[p], "sweep")

-----------------------------------------------------------------------------
(* RunDir::create: mkdir under a fresh name, a lock file under a temporary *)
(* name, the lock on it, the marker, and only then the name `lock`.        *)

MakeDirectory(p) ==
    /\ pc[p] = "create"
    /\ \E d \in Dirs \ (dirs \cup used \cup Planted) :
         /\ dirs' = dirs \cup {d}
         /\ used' = used \cup {d}
         /\ own' = [own EXCEPT ![p] = d]
    /\ Goto(p, "made")
    /\ UNCHANGED <<todo, at, idx, entries, flock, marked, bounds>>

MakeDirectoryFails(p) ==
    /\ pc[p] = "create"
    /\ Fault
    /\ Goto(p, "done")
    /\ UNCHANGED <<own, todo, at, idx, disk>>

StageLock(p) ==
    /\ pc[p] = "made"
    /\ entries' = [entries EXCEPT ![own[p]] = @ \cup {Staged}]
    /\ Goto(p, "staged")
    /\ UNCHANGED <<own, todo, at, idx, dirs, flock, marked, used, bounds>>

(* A fresh lock file that someone else already holds would end the launch. *)
TakeLock(p) ==
    /\ pc[p] = "staged"
    /\ flock[own[p]] = None
    /\ flock' = [flock EXCEPT ![own[p]] = p]
    /\ Goto(p, "flocked")
    /\ UNCHANGED <<own, todo, at, idx, dirs, entries, marked, used, bounds>>

WriteMarker(p) ==
    /\ pc[p] = "flocked"
    /\ marked' = marked \cup {own[p]}
    /\ Goto(p, "stamped")
    /\ UNCHANGED <<own, todo, at, idx, dirs, entries, flock, used, bounds>>

NameLock(p) ==
    /\ pc[p] = "stamped"
    /\ entries' = [entries EXCEPT ![own[p]] = (@ \ {Staged}) \cup {"lock"}]
    /\ idx' = [idx EXCEPT ![p] = 1]
    /\ Goto(p, "filling")
    /\ UNCHANGED <<own, todo, at, dirs, flock, marked, used, bounds>>

(* A failure takes the staged file and the directory away again and ends   *)
(* the launch; nothing has been named `lock` yet, and no token written.    *)
CreateFails(p) ==
    /\ pc[p] \in {"made", "staged", "flocked", "stamped"}
    /\ IF pc[p] = "staged" /\ flock[own[p]] # None THEN UNCHANGED bounds ELSE Fault
    /\ LET left == entries[own[p]] \ {Staged} IN
         /\ entries' = [entries EXCEPT ![own[p]] = left]
         /\ dirs' = IF left = {} THEN dirs \ {own[p]} ELSE dirs
    /\ flock' = [flock EXCEPT ![own[p]] = IF @ = p THEN None ELSE @]
    /\ Goto(p, "done")
    /\ UNCHANGED <<own, todo, at, idx, marked, used>>

-----------------------------------------------------------------------------
(* Filling the directory, serving gh, and leaving.                         *)

WriteFile(p) ==
    /\ pc[p] = "filling" /\ idx[p] <= Len(WRITES)
    /\ \/ entries' = [entries EXCEPT ![own[p]] = @ \cup {WRITES[idx[p]]}]
       \/ WRITES[idx[p]] \in Optional /\ UNCHANGED entries
    /\ idx' = [idx EXCEPT ![p] = @ + 1]
    /\ UNCHANGED <<pc, own, todo, at, dirs, flock, marked, used, bounds>>

(* A write can fail with the file created.  Until the runtime is built a    *)
(* failure returns early, which drops the panic redirection and then the   *)
(* run directory; after that run() removes the directory.  The runtime is  *)
(* built between config.yml and hosts.yml.                                 *)
WriteFails(p) ==
    /\ pc[p] = "filling" /\ idx[p] <= Len(WRITES)
    /\ Fault
    /\ \/ UNCHANGED entries
       \/ entries' = [entries EXCEPT ![own[p]] = @ \cup {WRITES[idx[p]]}]
    /\ \/ idx[p] <= 4 /\ Goto(p, "dropping")
       \/ idx[p] >= 4 /\ Goto(p, "removing")
    /\ idx' = [idx EXCEPT ![p] = 1]
    /\ UNCHANGED <<own, todo, at, dirs, flock, marked, used>>

(* A signal ends the launch while logins are looked up, before hosts.yml,  *)
(* or after the bind; there too a spawn can fail.                          *)
EndsBeforeGh(p) ==
    /\ pc[p] = "filling" /\ idx[p] \in {4, Len(WRITES) + 1}
    /\ Goto(p, "removing")
    /\ idx' = [idx EXCEPT ![p] = 1]
    /\ UNCHANGED <<own, todo, at, disk, bounds>>

StartGh(p) ==
    /\ pc[p] = "filling" /\ idx[p] = Len(WRITES) + 1
    /\ Goto(p, "serving")
    /\ UNCHANGED <<own, todo, at, idx, disk, bounds>>

GhExits(p) ==
    /\ pc[p] = "serving"
    /\ Goto(p, "removing")
    /\ idx' = [idx EXCEPT ![p] = 1]
    /\ UNCHANGED <<own, todo, at, disk, bounds>>

(* `run_dir.remove()` on the way out of run(), with panics still redirected*)
(* to the directory; the redirection ends when run() returns.              *)
RemoveOwn(p) == pc[p] = "removing" /\ RemoveKnown(p, own[p], "returning")
RemoveOwnFails(p) == pc[p] = "removing" /\ RemoveFails(p, own[p], "returning")

(* The drop of the run directory on an early return.                       *)
DropOwn(p) == pc[p] = "dropping" /\ RemoveKnown(p, own[p], "done")
DropOwnFails(p) == pc[p] = "dropping" /\ RemoveFails(p, own[p], "done")

Return(p) ==
    /\ pc[p] = "returning"
    /\ Goto(p, "done")
    /\ UNCHANGED <<own, todo, at, idx, disk, bounds>>

(* Whether a panic in this launch goes to its directory's `panic` file.    *)
PanicsRedirected(p) == pc[p] \in {"filling", "serving", "removing", "returning"}

(* A login lookup or a gateway task panics; a blocking task, which          *)
(* shutdown_background does not wait for, may panic after that.            *)
Panic(p) ==
    /\ PanicsRedirected(p)
    /\ \/ pc[p] = "serving"
       \/ pc[p] = "filling" /\ idx[p] >= 4
       \/ pc[p] \in {"removing", "returning"}
    /\ own[p] \in dirs
    /\ entries' = [entries EXCEPT ![own[p]] = @ \cup {"panic"}]
    /\ UNCHANGED <<pc, own, todo, at, idx, dirs, flock, marked, used, bounds>>

-----------------------------------------------------------------------------
(* The environment: SIGKILL, and files other programs leave behind.  The   *)
(* kernel closes a dead process's files, which releases every lock it held.*)
Crash(p) ==
    /\ pc[p] \notin {"done", "dead"}
    /\ crashes < MaxCrashes
    /\ crashes' = crashes + 1
    /\ flock' = [d \in Dirs |-> IF flock[d] = p THEN None ELSE flock[d]]
    /\ at' = [at EXCEPT ![p] = None]
    /\ Goto(p, "dead")
    /\ UNCHANGED <<own, todo, idx, dirs, entries, marked, used, faults, foreign>>

LeaveForeignFile ==
    /\ foreign < MaxForeign
    /\ foreign' = foreign + 1
    /\ \E d \in dirs \cap used : entries' = [entries EXCEPT ![d] = @ \cup {Unknown}]
    /\ UNCHANGED <<pc, own, todo, at, idx, dirs, flock, marked, used, crashes, faults>>

Sweep(p) ==
    \/ SweepSkip(p) \/ SweepOpen(p) \/ SweepTryLock(p) \/ SweepRead(p)
    \/ SweepRemove(p) \/ SweepDone(p)

Create(p) ==
    \/ MakeDirectory(p) \/ StageLock(p) \/ TakeLock(p) \/ WriteMarker(p)
    \/ NameLock(p)

Leave(p) == RemoveOwn(p) \/ DropOwn(p) \/ Return(p)

(* What a launch does by itself, when scheduled and nothing fails.         *)
Step(p) == Sweep(p) \/ Create(p) \/ WriteFile(p) \/ StartGh(p) \/ Leave(p)

(* What a launch does with its directory.                                  *)
Use(p) == WriteFile(p) \/ StartGh(p) \/ EndsBeforeGh(p) \/ GhExits(p) \/ Panic(p)

Failure(p) ==
    \/ SweepReadFails(p) \/ SweepRemoveFails(p) \/ MakeDirectoryFails(p) \/ CreateFails(p)
    \/ WriteFails(p) \/ RemoveOwnFails(p) \/ DropOwnFails(p)

Next ==
    \/ \E p \in Launchers :
         Sweep(p) \/ Create(p) \/ Use(p) \/ Leave(p) \/ Failure(p) \/ Crash(p)
    \/ LeaveForeignFile

Spec == Init /\ [][Next]_vars

(* A living process is scheduled again and again; nothing says when gh     *)
(* exits, that a call fails, or that a process is killed.                  *)
FairSpec == Spec /\ \A p \in Launchers : WF_vars(Step(p))

-----------------------------------------------------------------------------
(* Properties.                                                             *)

TypeOK ==
    /\ pc \in [Launchers -> PC]
    /\ own \in [Launchers -> Dirs \cup {None}]
    /\ todo \in [Launchers -> SUBSET Dirs]
    /\ at \in [Launchers -> Dirs \cup {None}]
    /\ idx \in [Launchers -> 1..8]
    /\ dirs \subseteq Dirs
    /\ entries \in [Dirs -> SUBSET Files]
    /\ flock \in [Dirs -> Launchers \cup {None}]
    /\ marked \subseteq Dirs
    /\ used \subseteq Dirs
    /\ crashes \in 0..MaxCrashes /\ faults \in 0..MaxFaults /\ foreign \in 0..MaxForeign

HoldsSecret(d) == entries[d] \cap Secrets # {}

(* A launch's token is never on disk without a file named `lock` beside    *)
(* it, whatever crashed and whichever call failed: otherwise no later      *)
(* sweep would ever find it.  (RunDir::remove: "`lock` goes last, so a     *)
(* token is never on disk without it".)                                    *)
SecretsHaveLock == \A d \in used : HoldsSecret(d) => "lock" \in entries[d]

(* While a launch is using its directory no sweep, of any launch, takes    *)
(* the directory, the lock's name or anything the launch has written.      *)
LiveNotSwept ==
    \A p \in Launchers : pc[p] \in Holding =>
        /\ own[p] \in dirs
        /\ "lock" \in entries[own[p]]
        /\ \A i \in 1..Len(WRITES) :
             (i < idx[p] /\ WRITES[i] \notin Optional) => WRITES[i] \in entries[own[p]]

(* At most one process is taking a directory apart, be it its own launch   *)
(* or a sweep.                                                             *)
RemoverOf(p) ==
    CASE pc[p] = "clearing" -> at[p]
      [] pc[p] \in Removing -> own[p]
      [] OTHER -> None
OneRemover ==
    \A p, q \in Launchers : p # q /\ RemoverOf(p) # None => RemoverOf(p) # RemoverOf(q)

(* A lock file nobody has named `lock` yet cannot be held by anyone else,  *)
(* so create's "a fresh lock file was already locked" never happens.       *)
FreshLockFree == \A p \in Launchers : pc[p] = "staged" => flock[own[p]] = None

(* However launches and their sweeps interleave, die and fail: a token can *)
(* be found, one in use is left alone, and one process at most clears it.  *)
DirectoriesSafe == SecretsHaveLock /\ LiveNotSwept /\ OneRemover /\ FreshLockFree

(* A directory of the user's own, whose name happens to match, loses       *)
(* nothing to any sweep.                                                   *)
PlantedUntouched == [][\A d \in Planted : d \in dirs' /\ entries[d] \subseteq entries'[d]]_vars

(* A dead launch's tokens go with the first sweep that has yet to look at  *)
(* their directory, unless something more fails or is killed meanwhile.    *)
Orphaned(d) == HoldsSecret(d) /\ \E p \in Launchers : pc[p] = "dead" /\ own[p] = d
OrphanSwept ==
    \A d \in Dirs, n \in 0..MaxCrashes :
        (Orphaned(d) /\ crashes = n /\ \E p \in Launchers : pc[p] = "sweep" /\ d \in todo[p])
            ~> (~HoldsSecret(d) \/ crashes > n \/ faults > 0)

(* No other launch holds this one up: a sweep always ends, whoever holds   *)
(* the locks it meets, and a launch with a directory gets as far as gh or  *)
(* to its own end.                                                         *)
LaunchProgress ==
    \A p \in Launchers :
        /\ pc[p] = "sweep" ~> pc[p] \notin Sweeping
        /\ pc[p] = "made" ~> pc[p] \in {"serving", "done", "dead"}

-----------------------------------------------------------------------------
(* The inductive invariant behind them.                                    *)

Visiting == {"opened", "locked", "clearing"}
Fresh == {"made", "staged", "flocked", "stamped"}

(* Who holds which lock, and which directory a sweep is in.                *)
LockInv ==
    \A p \in Launchers :
        /\ pc[p] \in {"flocked", "stamped"} \cup Holding \cup Removing => flock[own[p]] = p
        /\ pc[p] \in {"locked", "clearing"} => flock[at[p]] = p
        /\ pc[p] \in Visiting => at[p] \in Dirs
        /\ pc[p] \notin Visiting => at[p] = None
        /\ pc[p] = "clearing" => at[p] \in marked

(* A directory has one owner, and is not the user's.                       *)
OwnInv ==
    /\ \A p \in Launchers :
         /\ pc[p] \in Sweeping \cup {"create"} => own[p] = None
         /\ pc[p] \in Fresh \cup Holding \cup Removing \cup {"returning"} => own[p] \in used
    /\ \A p, q \in Launchers : own[p] = own[q] => p = q \/ own[p] = None
    /\ \A p \in Launchers : own[p] \in used \cup {None}
    /\ used \cap Planted = {} /\ Planted \subseteq dirs
    /\ marked \subseteq used

(* Nothing can look into a directory before its lock file has its name.    *)
FreshInv ==
    /\ \A p \in Launchers : pc[p] \in Fresh =>
         /\ own[p] \in dirs
         /\ "lock" \notin entries[own[p]] /\ ~HoldsSecret(own[p])
         /\ flock[own[p]] \in {None, p}
         /\ \A q \in Launchers : at[q] # own[p]
    /\ \A p \in Launchers : pc[p] \in {"made", "staged"} => flock[own[p]] = None
    /\ \A d \in Dirs \ (used \cup Planted) :
         /\ entries[d] = {} /\ flock[d] = None
         /\ \A q \in Launchers : at[q] # d

(* What a removal has passed is gone, before it gets to `lock`.            *)
Cleared(d, i) ==
    /\ i > 3 => "hosts.yml" \notin entries[d]
    /\ i > 4 => "credentials" \notin entries[d]
RemovalInv ==
    \A p \in Launchers :
        /\ pc[p] = "clearing" => Cleared(at[p], idx[p])
        /\ pc[p] \in Removing => Cleared(own[p], idx[p])

IInv ==
    TypeOK /\ LockInv /\ OwnInv /\ FreshInv /\ RemovalInv /\ SecretsHaveLock /\ LiveNotSwept
=============================================================================
