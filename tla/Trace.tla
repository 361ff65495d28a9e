------------------------------- MODULE Trace -------------------------------
(***************************************************************************)
(* The trace file and what writes to it: gh calls, and the git recorder,   *)
(* which stands between a caller and git.  A recorder forwards both of     *)
(* git's streams through pipes, waits for git, then for its forwarders,    *)
(* and appends a record, in one write that may come out short.  A process  *)
(* git leaves in the background keeps the pipes.  (git_recorder.rs         *)
(* run_git_recorder, trace.rs append_jsonl, trace_summary.rs load_trace.)  *)
(***************************************************************************)
EXTENDS Naturals, Sequences, FiniteSets

CONSTANTS
    Calls,       \* the traced calls
    CAPACITY,    \* what a pipe holds, in chunks
    MaxChunks,   \* bound: what git and its background process write
    MaxCuts      \* bound: writes that come out short

ASSUME TraceAssumption == CAPACITY \in Nat \ {0} /\ MaxChunks \in Nat /\ MaxCuts \in Nat

Streams == {"stdout", "stderr"}

VARIABLES
    step,      \* call -> "start", "running", "waited", "append", "ended"
    git,       \* call -> "none", "running" or how it ended
    behind,    \* the calls whose git left a process behind
    pipe,      \* call -> stream -> the chunks in the pipe
    reading,   \* call -> the streams somebody still reads the recorder on
    forwarded, \* call -> stream -> what reached the recorder's own stream
    count,     \* call -> stream -> stdout_bytes, stderr_bytes
    wrote,     \* history: call -> stream -> how much was written
    ends,      \* call -> the streams whose forwarder has ended
    code,      \* call -> its exit code
    file       \* the trace: pieces, [of, part, code, count]

traceVars == <<step, git, behind, pipe, reading, forwarded, count, wrote, ends, code, file>>
flow == <<pipe, forwarded, count, wrote, ends>>

(***************************************************************************)
(* git                                                                     *)
(***************************************************************************)

Holds(c) == git[c] = "running" \/ c \in behind

Write(c, s) ==
    /\ Holds(c) /\ Len(pipe[c][s]) < CAPACITY
    /\ wrote[c]["stdout"] + wrote[c]["stderr"] < MaxChunks
    /\ wrote' = [wrote EXCEPT ![c][s] = @ + 1]
    /\ pipe' = [pipe EXCEPT ![c][s] = Append(@, wrote[c][s] + 1)]
    /\ UNCHANGED <<step, git, behind, reading, forwarded, count, ends, code, file>>

GitEnds(c, how, leaves) ==
    /\ git[c] = "running"
    /\ git' = [git EXCEPT ![c] = how]
    /\ behind' = IF leaves THEN behind \union {c} ELSE behind
    /\ UNCHANGED <<step, reading, flow, code, file>>

BehindEnds(c) ==
    /\ c \in behind /\ behind' = behind \ {c}
    /\ UNCHANGED <<step, git, reading, flow, code, file>>

\* The caller reads no further.
StopReading(c, s) ==
    /\ s \in reading[c] /\ step[c] = "running" /\ reading' = [reading EXCEPT ![c] = @ \ {s}]
    /\ UNCHANGED <<step, git, behind, flow, code, file>>

(***************************************************************************)
(* run_git_recorder                                                        *)
(***************************************************************************)

\* git starts; or cannot, and the record says 127.
Begin(c) ==
    /\ step[c] = "start"
    /\ \/ /\ step' = [step EXCEPT ![c] = "running"] /\ git' = [git EXCEPT ![c] = "running"]
          /\ UNCHANGED code
       \/ /\ step' = [step EXCEPT ![c] = "append"] /\ code' = [code EXCEPT ![c] = "127"]
          /\ UNCHANGED git
    /\ UNCHANGED <<behind, reading, flow, file>>

\* forward_stream: a chunk, which is counted and dropped once nobody reads.
Forward(c, s) ==
    /\ pipe[c][s] # <<>> /\ s \notin ends[c]
    /\ pipe' = [pipe EXCEPT ![c][s] = Tail(@)]
    /\ count' = [count EXCEPT ![c][s] = @ + 1]
    /\ forwarded' = [forwarded EXCEPT
          ![c][s] = IF s \in reading[c] THEN Append(@, Head(pipe[c][s])) ELSE @]
    /\ UNCHANGED <<step, git, behind, reading, wrote, ends, code, file>>

EndForward(c, s) ==
    /\ step[c] \in {"running", "waited"} /\ s \notin ends[c]
    /\ pipe[c][s] = <<>> /\ ~Holds(c)
    /\ ends' = [ends EXCEPT ![c] = @ \union {s}]
    /\ UNCHANGED <<step, git, behind, pipe, reading, forwarded, count, wrote, code, file>>

\* child.wait, inherited_exit_code: 128 and the signal for one that killed it.
Wait(c) ==
    /\ step[c] = "running" /\ git[c] # "running"
    /\ step' = [step EXCEPT ![c] = "waited"] /\ code' = [code EXCEPT ![c] = git[c]]
    /\ UNCHANGED <<git, behind, reading, flow, file>>

\* Mutant: it joins the forwarder of stdout alone.
Join_Stdout(c) ==
    /\ step[c] = "waited" /\ "stdout" \in ends[c]
    /\ step' = [step EXCEPT ![c] = "append"]
    /\ UNCHANGED <<git, behind, reading, flow, code, file>>

Join(c) ==
    /\ step[c] = "waited" /\ ends[c] = Streams
    /\ step' = [step EXCEPT ![c] = "append"]
    /\ UNCHANGED <<git, behind, reading, flow, code, file>>

(***************************************************************************)
(* append_jsonl                                                            *)
(***************************************************************************)

Piece(c, part) == [of |-> c, part |-> part, code |-> code[c], count |-> count[c]]
CutOff == {i \in DOMAIN file : file[i].part \in {"cut", "bare"}}
Cuts == Cardinality(CutOff)

\* Mutant: write_all, which appends what a short write left over.
AppendRecord_All(c) ==
    /\ step[c] \in {"append", "rest"}
    /\ \/ file' = Append(file, Piece(c, IF step[c] = "rest" THEN "rest" ELSE "whole"))
          /\ step' = [step EXCEPT ![c] = "ended"]
       \/ file' = Append(file, Piece(c, "cut"))
          /\ step[c] = "append" /\ Cuts < MaxCuts /\ step' = [step EXCEPT ![c] = "rest"]
    /\ UNCHANGED <<git, behind, reading, flow, code>>

\* write_once: the line, or nothing, or a part of it, be it all but its newline.
\* Whatever comes of it the call ends, with its code.
AppendRecord(c) ==
    /\ step[c] = "append"
    /\ step' = [step EXCEPT ![c] = "ended"]
    /\ \/ file' = Append(file, Piece(c, "whole"))
       \/ UNCHANGED file
       \/ Cuts < MaxCuts /\ \E part \in {"cut", "bare"} : file' = Append(file, Piece(c, part))
    /\ UNCHANGED <<git, behind, reading, flow, code>>

(***************************************************************************)
(* load_trace                                                              *)
(***************************************************************************)

\* A line is known by its first piece; a whole or a last piece ends one.
NewLine(part) == part \in {"whole", "rest"}
Lines == {i \in DOMAIN file : i = 1 \/ NewLine(file[i - 1].part)}

\* The lines that are one whole piece load as records, the others are errors.
Loaded ==
    {i \in Lines : file[i].part \in {"whole", "bare"} /\ (NewLine(file[i].part) \/ i = Len(file))}
Errors == Lines \ Loaded

(***************************************************************************)

\* A gh call is traced when it is over; a recorder starts git.
TraceInit ==
    /\ step \in [Calls -> {"start", "append", "ended"}]
    /\ code \in [Calls -> {"0"}]
    /\ git = [c \in Calls |-> "none"] /\ behind = {}
    /\ pipe = [c \in Calls |-> [s \in Streams |-> <<>>]]
    /\ reading = [c \in Calls |-> Streams]
    /\ forwarded = pipe /\ ends = [c \in Calls |-> {}]
    /\ count = [c \in Calls |-> [s \in Streams |-> 0]] /\ wrote = count
    /\ file = <<>>

TraceNext ==
    \E c \in Calls :
        \/ Begin(c) \/ Wait(c) \/ Join(c) \/ AppendRecord(c) \/ BehindEnds(c)
        \/ \E s \in Streams : Write(c, s) \/ Forward(c, s) \/ EndForward(c, s) \/ StopReading(c, s)
        \/ \E how \in {"0", "1", "137"}, leaves \in BOOLEAN : GitEnds(c, how, leaves)

TraceSpec == TraceInit /\ [][TraceNext]_traceVars

(***************************************************************************)
(* Properties                                                              *)
(***************************************************************************)

\* Whoever calls git through the recorder gets what git gives: each stream
\* whole and in order as long as it is read, what a background process adds
\* too, and git's own code; and the record says so, although git and its
\* streams end in any order (git_recorder.rs run_git_recorder, forward_stream).
GitUnchanged ==
    \A c \in Calls :
        /\ step[c] = "ended" /\ git[c] # "none" =>
              /\ code[c] = git[c]
              /\ \A s \in reading[c] : Len(forwarded[c][s]) = wrote[c][s]
        /\ \A s \in Streams : \A i \in DOMAIN forwarded[c][s] : forwarded[c][s][i] = i
        /\ \A i \in DOMAIN file :
              file[i].of = c /\ git[c] # "none" => file[i].code = git[c] /\ file[i].count = wrote[c]

\* Calls that append at once stay whole records: a trace has one bad line for
\* a record that was cut off and no other, and gives back every record written
\* in full, once, but for one that follows a cut-off piece on its line
\* (trace.rs append_jsonl, write_once; trace_summary.rs load_trace).
TraceWhole ==
    /\ Cardinality(Errors) <= Cuts
    /\ \A i, j \in Loaded : file[i].of = file[j].of => i = j
    /\ \A i \in DOMAIN file :
          file[i].part = "whole" /\ (i > 1 => file[i - 1].part \notin {"cut", "bare"}) => i \in Loaded
=============================================================================
