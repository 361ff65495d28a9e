------------------------------- MODULE Launch -------------------------------
(***************************************************************************)
(* One launched call and the signals it meets:                             *)
(* crates/gh-forgejo-shim/src/launcher/run.rs, with the exit status of     *)
(* external.rs.  The launcher stands in for real gh: a caller that signals *)
(* it, or a terminal that signals the whole foreground group, must see     *)
(* what it would have seen from gh.  The run directory is there, gone, or  *)
(* what a removal that failed left of it; RunDir has the steps of both,    *)
(* and the SIGKILL that no handler sees.                                   *)
(***************************************************************************)
EXTENDS Naturals, Sequences

CONSTANTS
    GhCodes,     \* the codes gh may exit with
    MaxHosts,    \* bound on the login lookups before gh starts
    MaxSignals,  \* bound on the signals sent
    MaxMoves,    \* bound on changes of the terminal's foreground group
    MaxFaults    \* bound on failing calls

ASSUME LaunchAssumption ==
    /\ GhCodes \subseteq 0..255
    /\ MaxHosts \in Nat /\ MaxSignals \in Nat /\ MaxMoves \in Nat /\ MaxFaults \in Nat

VARIABLES
    pc,         \* where the launch is
    registered, \* how many of SIGNALS have their flag handler
    installed,  \* how many of SIGNALS have their stream
    caught,     \* the flag: the last signal caught, or 0
    stream,     \* the streams with a delivery nobody has received yet
    lookups,    \* the login lookups still out
    rundir,     \* the run directory: none, "live", "removed", or "left" by a call that failed
    outcome,    \* what the launch decided to end as
    result,     \* how the launcher's process ended, as its parent sees it
    gh,         \* gh's process
    ghEnd,      \* how gh ended
    got,        \* how often gh was sent each signal
    fg,         \* whether the group is its terminal's foreground group
    pid1,       \* whether the launcher is an init process
    sent,       \* how often each signal was sent to the launcher or its group
    early,      \* history: the signals caught before the last check
    moves, faults  \* how much of each bound is spent

launcher == <<pc, registered, installed, lookups, rundir, outcome, result>>
signals  == <<caught, stream, early>>
world    == <<fg, pid1, sent, moves>>
child    == <<gh, ghEnd, got>>
vars == <<pc, registered, installed, caught, stream, lookups, rundir, outcome,
          result, gh, ghEnd, got, fg, pid1, sent, early, moves, faults>>

-----------------------------------------------------------------------------
HUP == 1
INT == 2
QUIT == 3
PIPE == 13
TERM == 15

(* The four signals, in the order their handlers are registered.           *)
SIGNALS == <<INT, QUIT, TERM, HUP>>
Signal == {INT, QUIT, TERM, HUP}
Handled == {SIGNALS[i] : i \in 1..registered}
Streamed == {SIGNALS[i] : i \in 1..installed}

(* How a process ends: by a code, or killed by a signal.                   *)
Exit(n) == [by |-> "code", n |-> n]
Killed(s) == [by |-> "signal", n |-> s]
Alive == [by |-> "none", n |-> 0]
End == [by : {"code"}, n : 0..255] \cup [by : {"signal"}, n : Signal \cup {PIPE}]

(* The launch up to the last check, and after it.                          *)
Starting == {"register", "create", "files", "edit", "install", "router",
             "lookup", "hosts", "bind", "check"}
PC == Starting \cup {"spawn", "run", "remove", "exit", "ended"}

Init ==
    /\ pc = "register"
    /\ registered = 0 /\ installed = 0
    /\ caught = 0 /\ stream = {} /\ early = {}
    /\ lookups \in 0..MaxHosts     \* 0 unless the call wants the logins
    /\ rundir = "none"
    /\ outcome = Alive /\ result = Alive
    /\ gh = "none" /\ ghEnd = Alive
    /\ got = [s \in Signal |-> 0]
    /\ fg \in BOOLEAN /\ pid1 \in BOOLEAN
    /\ sent = [s \in Signal |-> 0]
    /\ moves = 0 /\ faults = 0

-----------------------------------------------------------------------------
(* The launcher, one step per call another process can come between.       *)

Goto(from, to) == pc = from /\ pc' = to

(* A decision to end: clean up first, if there is anything to clean up.    *)
EndAs(end) ==
    /\ outcome' = end
    /\ pc' = IF rundir = "live" THEN "remove" ELSE "exit"

(* `128 + s` is a code for the caller of `run`; die_by raises the signal.  *)
DieBy(s) == IF pid1 THEN Exit(128 + s) ELSE Killed(s)

Register_ThreeOnly ==
    /\ pc = "register"
    /\ registered' = registered + 1
    /\ pc' = IF registered' >= 3 THEN "create" ELSE pc
    /\ UNCHANGED <<installed, lookups, rundir, outcome, result, signals, child, world, faults>>

Register ==
    /\ pc = "register"
    /\ registered' = registered + 1
    /\ pc' = IF registered' = Len(SIGNALS) THEN "create" ELSE pc
    /\ UNCHANGED <<installed, lookups, rundir, outcome, result, signals, child, world, faults>>

CreateRunDir ==
    /\ Goto("create", "files")
    /\ rundir' = "live"
    /\ UNCHANGED <<registered, installed, lookups, outcome, result, signals, child, world, faults>>

(* Steps that only let time pass here: the files, the environment edits    *)
(* (EnvEdits has those) and the runtime, the router, hosts.yml, the socket.*)
Proceed ==
    /\ \/ Goto("files", "edit")
       \/ Goto("edit", "install")
       \/ Goto("router", "lookup")
       \/ Goto("hosts", "bind")
       \/ Goto("bind", "check")
    /\ UNCHANGED <<registered, installed, lookups, rundir, outcome, result, signals, child, world, faults>>

(* Variant: only three of the streams are made.                            *)
InstallStream_NoHup ==
    /\ pc = "install"
    /\ installed' = installed + 1
    /\ pc' = IF installed' >= 3 THEN "router" ELSE pc
    /\ UNCHANGED <<registered, lookups, rundir, outcome, result, signals, child, world, faults>>

InstallStream ==
    /\ pc = "install"
    /\ installed' = installed + 1
    /\ pc' = IF installed' = Len(SIGNALS) THEN "router" ELSE pc
    /\ UNCHANGED <<registered, lookups, rundir, outcome, result, signals, child, world, faults>>

(* Variant: the forge is waited for without a limit, and never answers.    *)
LookupEnds_NoBudget ==
    /\ FALSE
    /\ UNCHANGED vars

(* A lookup answers, fails, or runs out of its five seconds.               *)
LookupEnds ==
    /\ pc = "lookup" /\ lookups > 0
    /\ lookups' = lookups - 1
    /\ UNCHANGED <<pc, registered, installed, rundir, outcome, result, signals, child, world, faults>>

LookupsDone ==
    /\ Goto("lookup", "hosts") /\ lookups = 0
    /\ UNCHANGED <<registered, installed, lookups, rundir, outcome, result, signals, child, world, faults>>

(* A stream ends the wait for the forge.                                   *)
LookupSignalled ==
    /\ pc = "lookup"
    /\ \E s \in stream : EndAs(DieBy(s)) /\ stream' = stream \ {s}
    /\ UNCHANGED <<registered, installed, lookups, rundir, result, caught, early, child, world, faults>>

(* The last check before gh: the flag, which has every signal so far.      *)
Check ==
    /\ pc = "check"
    /\ IF caught # 0
         THEN EndAs(DieBy(caught))
         ELSE pc' = "spawn" /\ UNCHANGED outcome
    /\ UNCHANGED <<registered, installed, lookups, rundir, result, signals, child, world, faults>>

Spawn ==
    /\ Goto("spawn", "run")
    /\ gh' = "running"
    /\ UNCHANGED <<registered, installed, lookups, rundir, outcome, result, signals, ghEnd, got, world, faults>>

(* kill(2) on gh: nothing happens to one that has already ended.           *)
SendGh(s) == got' = IF gh = "running" THEN [got EXCEPT ![s] = @ + 1] ELSE got

(* The run loop.  TERM and HUP are passed on; INT and QUIT only when the   *)
(* terminal cannot have sent them to gh itself.                            *)
Forward ==
    /\ pc = "run"
    /\ \E s \in stream :
         /\ stream' = stream \ {s}
         /\ IF s \in {INT, QUIT} /\ fg THEN UNCHANGED got ELSE SendGh(s)
    /\ UNCHANGED <<launcher, caught, early, gh, ghEnd, world, faults>>

Reap ==
    /\ pc = "run" /\ gh = "zombie"
    /\ gh' = "reaped"
    /\ EndAs(IF ghEnd.by = "signal" /\ pid1 THEN Exit(128 + ghEnd.n) ELSE ghEnd)
    /\ UNCHANGED <<registered, installed, lookups, rundir, result, signals, ghEnd, got, world, faults>>

(* Variant: a signal that arrived meanwhile takes over.                    *)
RemoveRunDir_CheckAgain ==
    /\ Goto("remove", "exit")
    /\ rundir' \in {"removed", "left"}
    /\ outcome' = IF caught # 0 THEN DieBy(caught) ELSE outcome
    /\ UNCHANGED <<registered, installed, lookups, result, signals, child, world, faults>>

(* A call of the removal may fail, or the directory not be empty: what is  *)
(* left is unlocked, a later launch's sweep has it, and nobody is told.    *)
RemoveRunDir ==
    /\ Goto("remove", "exit")
    /\ rundir' \in {"removed", "left"}
    /\ UNCHANGED <<registered, installed, lookups, outcome, result, signals, child, world, faults>>

(* The process exits, or puts the default action back and raises.          *)
Leave ==
    /\ Goto("exit", "ended")
    /\ result' = outcome
    /\ UNCHANGED <<registered, installed, lookups, rundir, outcome, signals, child, world, faults>>

-----------------------------------------------------------------------------
(* Failures: each prints a line and ends the launch with a code.           *)
Fails ==
    /\ faults < MaxFaults /\ faults' = faults + 1
    /\ \/ /\ pc \in {"register", "create", "files", "edit", "install",
                     "router", "hosts", "bind"}
          /\ EndAs(Exit(1))
       \/ /\ pc = "spawn"
          /\ \E code \in {1, 126, 127} : EndAs(Exit(code))
       \/ /\ pc = "run"           \* waiting for gh failed
          /\ EndAs(Exit(1))
    /\ UNCHANGED <<registered, installed, lookups, rundir, result, signals, child, world>>

-----------------------------------------------------------------------------
(* The world: callers that signal the launcher, a terminal that signals    *)
(* the whole group, and gh.                                                *)

(* A signal reaches the launcher.  Before its handler is there it kills,   *)
(* except pid 1, which the kernel spares.  After the runtime has gone the  *)
(* flag still catches it, and nothing reads the flag.                      *)
Arrives(s) ==
    IF s \in Handled
      THEN /\ caught' = s
           /\ stream' = IF s \in Streamed THEN stream \cup {s} ELSE stream
           /\ early' = IF pc \in Starting THEN early \cup {s} ELSE early
           /\ UNCHANGED <<pc, result>>
      ELSE IF pid1 THEN UNCHANGED <<pc, result, signals>>
      ELSE /\ pc' = "ended" /\ result' = Killed(s)
           /\ UNCHANGED signals

Sent(s) ==
    /\ pc # "ended"
    /\ sent[INT] + sent[QUIT] + sent[TERM] + sent[HUP] < MaxSignals
    /\ sent' = [sent EXCEPT ![s] = @ + 1]

(* A caller signals the launcher's pid.                                    *)
Caller(s) ==
    /\ Sent(s) /\ Arrives(s)
    /\ UNCHANGED <<registered, installed, lookups, rundir, outcome, child, fg, pid1, moves, faults>>

(* Ctrl-C or Ctrl-\ at the terminal: the whole foreground group gets it.   *)
Terminal(s) ==
    /\ fg /\ s \in {INT, QUIT}
    /\ Sent(s) /\ Arrives(s) /\ SendGh(s)
    /\ UNCHANGED <<registered, installed, lookups, rundir, outcome, gh, ghEnd, fg, pid1, moves, faults>>

Move(foreground) ==
    /\ moves < MaxMoves /\ moves' = moves + 1
    /\ fg' = foreground

(* The terminal goes away: its group gets SIGHUP, and it no longer opens.  *)
Hangup ==
    /\ fg /\ Move(FALSE)
    /\ Sent(HUP) /\ Arrives(HUP) /\ SendGh(HUP)
    /\ UNCHANGED <<registered, installed, lookups, rundir, outcome, gh, ghEnd, pid1, faults>>

(* The shell moves the group to the foreground or out of it.               *)
JobControl ==
    /\ pc # "ended" /\ Move(~fg)
    /\ UNCHANGED <<launcher, signals, child, pid1, sent, faults>>

(* gh ends on its own, or of a signal it was sent.                         *)
GhEnds ==
    /\ gh = "running"
    /\ gh' = "zombie"
    /\ ghEnd' \in {Exit(n) : n \in GhCodes}
               \cup {Killed(s) : s \in {x \in Signal : got[x] > 0} \cup {PIPE}}
    /\ UNCHANGED <<launcher, signals, got, world, faults>>

-----------------------------------------------------------------------------
Launcher ==
    \/ Register \/ CreateRunDir \/ Proceed \/ InstallStream
    \/ LookupEnds \/ LookupsDone \/ LookupSignalled
    \/ Check \/ Spawn \/ Forward \/ Reap \/ RemoveRunDir \/ Leave

World ==
    \/ \E s \in Signal : Caller(s) \/ Terminal(s)
    \/ Hangup \/ JobControl \/ GhEnds

Next == Launcher \/ Fails \/ World

Spec == Init /\ [][Next]_vars

(* The launcher is scheduled, its lookups run out and a ready stream is    *)
(* received.  Nothing is assumed of gh, which may run for ever.            *)
FairSpec == Spec /\ WF_vars(Launcher)

-----------------------------------------------------------------------------
(* Every variable has its type.  (run.rs, all of it.)                      *)
TypeOK ==
    /\ pc \in PC
    /\ registered \in 0..Len(SIGNALS) /\ installed \in 0..Len(SIGNALS)
    /\ caught \in Signal \cup {0} /\ stream \subseteq Signal /\ early \subseteq Signal
    /\ lookups \in 0..MaxHosts
    /\ rundir \in {"none", "live", "removed", "left"} /\ fg \in BOOLEAN /\ pid1 \in BOOLEAN
    /\ outcome \in End \cup {Alive} /\ result \in End \cup {Alive}
    /\ gh \in {"none", "running", "zombie", "reaped"} /\ ghEnd \in End \cup {Alive}
    /\ got \in [Signal -> Nat] /\ sent \in [Signal -> Nat]
    /\ moves \in 0..MaxMoves /\ faults \in 0..MaxFaults

(* However the launch ends, and whichever of the four signals arrive at    *)
(* whatever moment, a run directory it made is not left as it was, locked  *)
(* or forgotten: the handlers are there before the directory, and each way *)
(* out takes it apart, as far as the file system lets it (run.rs:147).     *)
CleansUp == pc = "ended" => rundir # "live"

(* A signal caught before the last check keeps gh from starting, and the   *)
(* launch then ends by a signal it caught then, with the code of a failure *)
(* that came first, or of a signal whose handler was not there yet.        *)
EarlyAborts ==
    /\ early # {} => gh = "none"
    /\ early # {} /\ pc = "ended" =>
         \/ result \in {DieBy(s) : s \in early} \cup {Exit(1)}
         \/ result \in {Killed(s) : s \in Signal \ Handled}

(* A launcher that waited for gh ends exactly as gh did, code or signal,   *)
(* whatever signals arrived meanwhile or during the cleanup, and though    *)
(* the cleanup failed; as pid 1 it exits 128 + s instead of dying.         *)
EndsLikeGh ==
    pc = "ended" /\ gh = "reaped" =>
        result = IF ghEnd.by = "signal" /\ pid1 THEN Exit(128 + ghEnd.n) ELSE ghEnd

(* While the terminal's foreground group stays what it was, gh gets each   *)
(* Ctrl-C and Ctrl-\ at most once: never from the terminal and from the    *)
(* launcher too.                                                           *)
InterruptedOnce ==
    moves = 0 => \A s \in {INT, QUIT} : got[s] <= sent[s]

(* What signals do to a launch does not depend on when they arrive: early  *)
(* ones keep gh from starting, late ones change no exit status, and none   *)
(* is delivered to gh twice.                                               *)
SignalsHonoured == EarlyAborts /\ EndsLikeGh /\ InterruptedOnce

(* No signal a launcher has caught is lost: gh gets a TERM or HUP, and,    *)
(* where it is never in a terminal's foreground, an INT or QUIT too,       *)
(* unless gh has ended or is never started.                                *)
Reaches(s) == (caught = s) ~> (got[s] > 0 \/ gh \in {"zombie", "reaped"} \/ pc = "ended")
SignalReaches ==
    /\ Reaches(TERM) /\ Reaches(HUP)
    /\ [](~fg) => Reaches(INT) /\ Reaches(QUIT)

(* The launcher ends once gh has ended, and after an early signal; nothing *)
(* a forge or a caller does keeps it.                                      *)
LaunchEnds ==
    (early # {} \/ gh \in {"zombie", "reaped"}) ~> (pc = "ended")

-----------------------------------------------------------------------------
(* What makes the safety properties inductive.  Flags precede the          *)
(* directory, streams come after it, and a caught signal is in the flag    *)
(* until the last check, where it turns into the outcome.                  *)
HandlersFirst ==
    /\ pc = "register" => registered < Len(SIGNALS)
    /\ pc = "install" => installed < Len(SIGNALS)
    /\ pc \in {"register", "create", "files", "edit"} => installed = 0
    /\ pc \notin {"register", "exit", "ended"} => registered = Len(SIGNALS)
    /\ rundir # "none" => registered = Len(SIGNALS)
    /\ pc \in {"register", "create", "exit", "ended"} => rundir # "live"
    /\ pc \in Starting => gh = "none"
    /\ gh # "none" => registered = Len(SIGNALS)
    /\ gh \in {"zombie", "reaped"} => ghEnd \in End
Flagged ==
    /\ pc \in Starting => (caught = 0 <=> early = {})
    /\ pc \in Starting /\ caught # 0 => caught \in early
    /\ pc \in Starting => stream \subseteq early
    /\ early # {} => pc \notin {"spawn", "run"}
Decided ==
    /\ pc \in {"remove", "exit"} /\ early # {} =>
         outcome \in {DieBy(s) : s \in early} \cup {Exit(1)}
    /\ gh = "reaped" => pc \in {"remove", "exit", "ended"}
    /\ pc \in {"remove", "exit"} /\ gh = "reaped" =>
         outcome = IF ghEnd.by = "signal" /\ pid1 THEN Exit(128 + ghEnd.n) ELSE ghEnd
OncePending ==
    moves = 0 => \A s \in {INT, QUIT} :
        got[s] + (IF s \in stream /\ ~fg THEN 1 ELSE 0) <= sent[s]
IInv ==
    /\ TypeOK /\ HandlersFirst /\ Flagged /\ Decided /\ OncePending
    /\ CleansUp /\ EarlyAborts /\ EndsLikeGh
=============================================================================
