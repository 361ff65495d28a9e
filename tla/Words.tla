------------------------------- MODULE Words --------------------------------
(***************************************************************************)
(* The words of a call, read three times: by the shim's one parser, which  *)
(* finds the command and checks the flags against gh's grammar; by the     *)
(* parser of the command's own handler, which gets the words rewritten;    *)
(* and, when the call is launched, by gh, whose library (cobra) finds the  *)
(* command in its own way.                                                 *)
(*                                                                         *)
(* A word is "--name[=value]" (long), "-abc[=value]" (short), "--" (end)   *)
(* or anything else (plain).  A value is a word.                           *)
(***************************************************************************)
EXTENDS Naturals, Sequences, SequencesExt

VARIABLE words

Word(kind, name, letters, eq) == [kind |-> kind, name |-> name, letters |-> letters, eq |-> eq]
Plain(name) == Word("plain", name, <<>>, "")
Long(name) == Word("long", name, <<>>, "")
LongEq(name, value) == Word("long", name, <<>>, value)
Short(letters) == Word("short", "", letters, "")
End == Word("end", "", <<>>, "")
True == Plain("true")
False == Plain("false")

(***************************************************************************)
(* gh's grammar of the commands the shim answers (contract/tiers.toml)     *)
(***************************************************************************)

F(long, short) == [long |-> long, short |-> short, value |-> "", inherited |-> FALSE]
V(long, short) == [long |-> long, short |-> short, value |-> "string", inherited |-> FALSE]
Repo == {[long |-> "repo", short |-> "R", value |-> "string", inherited |-> TRUE]}
Output == {V("jq", "q"), V("json", ""), V("template", "t")}
Limit == {[long |-> "limit", short |-> "L", value |-> "int", inherited |-> FALSE]}
Texts == {V("title", "t"), V("body", "b"), V("body-file", "F")}
Filters == {V("app", ""), V("assignee", "a"), V("author", "A"), V("label", "l"), V("search", "S"),
            V("state", "s")} \union Limit

Grammar ==
    [c \in {"auth status", "auth token", "api", "repo view", "pr list", "pr view", "pr checks", "pr diff",
            "pr status", "pr create", "pr comment", "pr checkout", "issue list", "issue view",
            "issue create"} |->
     CASE c = "auth status" -> {V("jq", ""), V("json", ""), V("template", ""), F("active", "a"),
                V("hostname", "h"), F("no-refresh", ""), F("show-token", "t")}
       [] c = "auth token" -> {V("hostname", "h"), F("no-refresh", ""), V("user", "u")}
       [] c = "api" -> {V("cache", ""), V("field", "F"), V("header", "H"), V("hostname", ""), F("include", "i"),
                V("input", ""), V("jq", "q"), V("method", "X"), F("paginate", ""), V("preview", "p"),
                V("raw-field", "f"), F("silent", ""), F("slurp", ""), V("template", "t"), F("verbose", ""),
                F("allow-escape-sequences", "")}
       [] c = "repo view" -> Output \union {V("branch", "b"), F("web", "w")}
       [] c = "pr list" -> Repo \union Output \union Filters
                \union {V("base", "B"), F("draft", "d"), V("head", "H"), F("web", "w")}
       [] c = "pr view" -> Repo \union Output \union {F("comments", "c"), F("web", "w")}
       [] c = "pr checks" -> Repo \union Output \union {F("fail-fast", ""), F("required", ""),
                [V("interval", "i") EXCEPT !.value = "int"], F("watch", ""), F("web", "w")}
       [] c = "pr diff" -> Repo \union {F("allow-escape-sequences", ""), V("color", ""), V("exclude", "e"),
                F("name-only", ""), F("patch", ""), F("web", "w")}
       [] c = "pr status" -> Repo \union Output \union {F("conflict-status", "c")}
       [] c = "pr create" -> Repo \union Texts \union {V("assignee", "a"), V("attach", ""), V("base", "B"),
                F("draft", "d"), F("dry-run", ""), F("editor", "e"), F("fill", "f"), F("fill-first", ""),
                F("fill-verbose", ""), V("head", "H"), V("label", "l"), V("milestone", "m"),
                F("no-maintainer-edit", ""), V("project", "p"), V("recover", ""), V("reviewer", "r"),
                V("template", "T"), F("web", "w")}
       [] c = "pr comment" -> Repo \union (Texts \ {V("title", "t")}) \union {V("attach", ""),
                F("create-if-none", ""), F("delete-last", ""), F("edit-last", ""), F("editor", "e"),
                F("web", "w"), F("yes", "")}
       [] c = "pr checkout" -> Repo \union {V("branch", "b"), F("detach", ""), F("force", "f"),
                F("recurse-submodules", ""), V("worktree", "")}
       [] c = "issue list" -> Repo \union Output \union Filters
                \union {V("mention", ""), V("milestone", "m"), V("type", ""), F("web", "w")}
       [] c = "issue view" -> Repo \union Output \union {F("comments", "c"), F("web", "w")}
       [] OTHER -> Repo \union Texts \union {V("assignee", "a"), V("attach", ""), V("blocked-by", ""),
                V("blocking", ""), F("editor", "e"), V("label", "l"), V("milestone", "m"), V("parent", ""),
                V("project", "p"), V("recover", ""), V("template", "T"), V("type", ""), F("web", "w")}]

Commands == DOMAIN Grammar
Flags == UNION {Grammar[c] : c \in Commands}
Help == F("help", "h")

\* How many arguments a command takes: [least, most].
Usage(c) ==
    CASE c \in {"api", "issue view"} -> <<1, 1>>
      [] c \in {"repo view", "pr view", "pr checks", "pr diff", "pr comment", "pr checkout"} -> <<0, 1>>
      [] OTHER -> <<0, 0>>

\* The groups and some of their subcommands (contract/usage-errors.json).
Subcommands ==
    [auth |-> {"status", "token"}, repo |-> {"view", "create"},
     pr |-> {"list", "view", "checks", "diff", "status", "create", "comment", "checkout"},
     issue |-> {"list", "view", "create"}]
Groups == DOMAIN Subcommands

FullName(group, verb) == CHOOSE c \in Commands \union {"repo create"} : c = group \o " " \o verb
Under(c, group) == \E verb \in Subcommands[group] : c = group \o " " \o verb

(***************************************************************************)
(* Discovery: which words name the command                                 *)
(***************************************************************************)

\* discovery_takes_value: some command below here gives the flag a value.
TakesValue(group, name, isShort) ==
    \/ \E c \in Commands, f \in Flags :
          /\ f \in Grammar[c] /\ (group = "" \/ (group \in Groups /\ Under(c, group)))
          /\ (IF isShort THEN f.short = name ELSE f.long = name) /\ f.value # ""
    \/ name = "repo" \/ (isShort /\ name = "R")
    \/ group = "auth" /\ (name = "hostname" \/ (isShort /\ name = "h"))

\* Whether the next word is this word's value: a cluster's first flag with a value takes
\* what is left of the word, or the next one.
SkipsNext(group, w) ==
    \/ w.kind = "long" /\ w.eq = "" /\ TakesValue(group, w.name, FALSE)
    \/ w.kind = "short" /\ w.eq = "" /\ \E i \in DOMAIN w.letters :
          /\ i = Len(w.letters) /\ TakesValue(group, w.letters[i], TRUE)
          /\ \A j \in 1 .. i - 1 : ~TakesValue(group, w.letters[j], TRUE)

Verb(group, name) ==
    CASE group = "pr" /\ name = "co" -> "checkout"
      [] group \in {"pr", "issue"} /\ name = "new" -> "create"
      [] group \in {"pr", "issue"} /\ name = "ls" -> "list"
      [] OTHER -> name

RECURSIVE Discover(_, _, _, _)
Discover(ws, i, group, at) ==
    IF i > Len(ws) \/ ws[i].kind = "end"
    THEN [command |-> group, words |-> at, unknown |-> FALSE]
    ELSE IF ws[i].kind # "plain"
    THEN Discover(ws, IF SkipsNext(group, ws[i]) THEN i + 2 ELSE i + 1, group, at)
    ELSE IF group # ""
    THEN LET verb == Verb(group, ws[i].name)
             known == verb \in Subcommands[group]
         IN  [command |-> IF known THEN FullName(group, verb) ELSE group,
              words |-> at \union {i}, unknown |-> ~known]
    ELSE IF ws[i].name \in Groups
    THEN Discover(ws, i + 1, ws[i].name, {i})
    ELSE [command |-> ws[i].name, words |-> {i}, unknown |-> FALSE]

Without(ws, at) ==
    LET kept == SelectSeq([i \in DOMAIN ws |-> i], LAMBDA i : i \notin at)
    IN  [i \in DOMAIN kept |-> ws[kept[i]]]

(***************************************************************************)
(* Invocation::parse                                                       *)
(***************************************************************************)

\* find_flag; a call of no command here knows its group's inherited flags.
Candidates(command, name, isShort) ==
    LET named(fs) == {f \in fs : IF isShort THEN f.short = name ELSE f.long = name}
        own == IF command \in Commands THEN named(Grammar[command])
               ELSE named({f \in Flags : f.inherited} \union Repo)
    IN  IF own # {} THEN own ELSE named({Help})

Arg(long, value) == [long |-> long, value |-> value]
Failed(p) == [p EXCEPT !.ok = FALSE]

BoolOf(value) == IF value = "" \/ value = "true" THEN "true" ELSE "false"

\* flag_value and add_flag of `flag`, with what is attached to the word or the word after it.
AddFlag(p, flag, attached, rest) ==
    LET value == IF attached # <<>> THEN attached[1] ELSE Head(rest)
        arg == IF flag.value = "" THEN Plain(BoolOf(IF attached = <<>> THEN "" ELSE attached[1].name))
               ELSE value
    IN  CASE flag.value # "" /\ attached = <<>> /\ rest = <<>> -> Failed(p)
          [] flag.value = "" /\ attached # <<>> /\ attached[1].name \notin {"true", "false"} -> Failed(p)
          [] OTHER -> [p EXCEPT !.args = Append(@, Arg(flag.long, arg)),
                                !.ok = @ /\ (flag.value = "int" => value.name = "5")]

\* A word's worth of short flags: [p, took], with took when the next word was used up.
RECURSIVE Cluster(_, _, _, _, _)
Cluster(p, letters, eq, rest, command) ==
    IF letters = <<>> THEN [p |-> p, took |-> FALSE]
    ELSE LET found == Candidates(command, letters[1], TRUE)
         IN  IF found = {} THEN [p |-> Failed(p), took |-> FALSE]
             ELSE LET flag == CHOOSE f \in found : TRUE
                      attached == IF flag.value # "" /\ Len(letters) > 1 THEN <<Plain(letters[2])>>
                                  ELSE IF eq # "" /\ Len(letters) = 1 THEN <<Plain(eq)>> ELSE <<>>
                      q == AddFlag(p, flag, attached, rest)
                  IN  IF flag.value # "" \/ attached # <<>>
                      THEN [p |-> q, took |-> attached = <<>> /\ rest # <<>>]
                      ELSE Cluster(q, Tail(letters), eq, rest, command)

RECURSIVE Read(_, _, _, _)
Read(p, ws, command, ended) ==
    IF ws = <<>> THEN p
    ELSE LET w == Head(ws)
             rest == Tail(ws)
         IN  CASE ~ended /\ w.kind = "end" -> Read(p, rest, command, TRUE)
               [] ~ended /\ w.kind = "long" ->
                    LET found == Candidates(command, w.name, FALSE)
                        flag == CHOOSE f \in found : TRUE
                        attached == IF w.eq = "" THEN <<>> ELSE <<Plain(w.eq)>>
                    IN  IF found = {} THEN Read(Failed(p), rest, command, FALSE)
                        ELSE Read(AddFlag(p, flag, attached, rest),
                                  IF flag.value # "" /\ attached = <<>> /\ rest # <<>> THEN Tail(rest)
                                  ELSE rest,
                                  command, FALSE)
               [] ~ended /\ w.kind = "short" ->
                    LET c == Cluster(p, w.letters, w.eq, rest, command)
                    IN  Read(c.p, IF c.took THEN Tail(rest) ELSE rest, command, FALSE)
               [] OTHER -> Read([p EXCEPT !.args = Append(@, Arg("", w))], rest, command, ended)

Values(p, long) ==
    LET of == SelectSeq(p.args, LAMBDA a : a.long = long)
    IN  [i \in DOMAIN of |-> of[i].value]
FlagOn(p, long) == Values(p, long) # <<>> /\ Last(Values(p, long)) = True

\* validate_command: arguments, --json's fields, --jq and --template.
Valid(p) ==
    LET count == Len(Values(p, ""))
        c == p.command
        json == Values(p, "json")
    IN  \/ FlagOn(p, "help")
        \/ /\ Usage(c)[1] <= count /\ count <= Usage(c)[2]
           /\ \A i \in DOMAIN json : json[i].name = "fields"
           /\ json = <<>> /\ V("json", "") \in Grammar[c] =>
                 Values(p, "jq") = <<>> /\ Values(p, "template") = <<>>

Parse(ws) ==
    LET found == Discover(ws, 1, "", {})
        p == Read([command |-> found.command, args |-> <<>>, ok |-> TRUE],
                  Without(ws, found.words), found.command, FALSE)
    IN  [p EXCEPT !.ok = @ /\ ~found.unknown /\ (found.command \in Commands => Valid(p))]

\* is_native
Native(p) ==
    /\ p.command \in Commands
    /\ p.command = "pr checks" => \A long \in {"watch", "fail-fast", "interval"} : Values(p, long) = <<>>
    /\ p.command = "api" => Values(p, "") # <<>> /\ Values(p, "")[1] = Plain("user")

(***************************************************************************)
(* What the handler gets                                                   *)
(***************************************************************************)

LastOf(p, i) == \A j \in i + 1 .. Len(p.args) : p.args[j].long # p.args[i].long
IsBool(command, long) == \E f \in Grammar[command] \union {Help} : f.long = long /\ f.value = ""

\* Mutant: a boolean is passed on wherever it is true.
Passed_Every(p, i) ==
    LET a == p.args[i]
    IN  CASE a.long = "" -> <<a.value>>
          [] IsBool(p.command, a.long) -> IF a.value = True THEN <<Long(a.long)>> ELSE <<>>
          [] OTHER -> <<Long(a.long), a.value>>

\* handler_argv of one argument: a value always stands on its own, a boolean only where it
\* is last and true, --json only where it is last.
Passed(p, i) ==
    LET a == p.args[i]
    IN  CASE a.long = "" -> <<a.value>>
          [] a.long = "json" -> IF LastOf(p, i) THEN <<Long("json"), a.value>> ELSE <<>>
          [] IsBool(p.command, a.long) ->
                IF a.value = True /\ LastOf(p, i) THEN <<Long(a.long)>> ELSE <<>>
          [] OTHER -> <<Long(a.long), a.value>>

HandlerArgv(p) == FlattenSeq([i \in DOMAIN p.args |-> Passed(p, i)])

\* A handler's parser: the flags it reads with a value, those it reads as set, those whose
\* value it skips and those it passes over, and what it does with an argument.
Handler(valued, set, skipped, over, argument) ==
    [valued |-> valued, set |-> set, skipped |-> skipped, over |-> over, argument |-> argument]

OutputArgs == {"json", "jq", "template"}
AuthStatusArgs == Handler(OutputArgs, {"show-token", "active"}, {"hostname"}, {}, "refused")
AuthTokenArgs == Handler({}, {}, {"hostname", "user"}, {}, "refused")
ApiArgs == Handler({"jq", "template"}, {"silent"},
                   {"cache", "field", "header", "hostname", "input", "method", "preview", "raw-field"},
                   {"include", "paginate", "slurp", "verbose", "allow-escape-sequences"}, "one")
ListArgs == Handler(OutputArgs \union {"repo", "state", "limit", "head", "base"}, {},
                    {"author", "app", "assignee", "label", "search"}, {}, "over")
CheckoutArgs == Handler({"repo", "branch"}, {"detach", "force", "recurse-submodules"}, {}, {}, "read")
ChecksArgs == Handler(OutputArgs \union {"repo"}, {"required"}, {}, {"web"}, "read")
DiffArgs == Handler({"repo", "exclude"}, {"web", "name-only", "patch"}, {"color"}, {}, "read")
CommentArgs == Handler({"repo", "body", "body-file"}, {"web"}, {}, {}, "read")
ViewStatusArgs == Handler(OutputArgs \union {"repo"}, {"web"}, {}, {}, "read")
RepoViewArgs == Handler(OutputArgs \union {"repo"}, {"web"}, {"branch"}, {}, "read")
IssueListArgs == Handler(OutputArgs \union {"repo", "state", "limit", "label", "search", "author", "assignee",
                                            "mention", "milestone"}, {"web"}, {"app"}, {}, "over")
IssueViewArgs == Handler(OutputArgs \union {"repo"}, {"web", "comments"}, {}, {}, "read")
IssueCreateArgs == Handler({"title", "body", "body-file", "repo", "assignee", "label", "milestone"}, {"web"},
                           {}, {}, "refused")
CreateArgs == Handler({"title", "body", "body-file", "base", "head", "repo"},
                      {"fill", "fill-first", "fill-verbose", "web", "draft"}, {}, {}, "refused")

HandlerOf(command) ==
    CASE command = "auth status" -> AuthStatusArgs
      [] command = "auth token" -> AuthTokenArgs
      [] command = "api" -> ApiArgs
      [] command = "repo view" -> RepoViewArgs
      [] command = "pr list" -> ListArgs
      [] command = "pr checks" -> ChecksArgs
      [] command = "pr diff" -> DiffArgs
      [] command = "pr comment" -> CommentArgs
      [] command = "pr checkout" -> CheckoutArgs
      [] command \in {"pr view", "pr status"} -> ViewStatusArgs
      [] command = "pr create" -> CreateArgs
      [] command = "issue list" -> IssueListArgs
      [] command = "issue view" -> IssueViewArgs
      [] OTHER -> IssueCreateArgs

\* The loop all of them have: a value is the next word, whatever it is.
RECURSIVE Handle(_, _, _)
Handle(h, ws, got) ==
    IF ws = <<>> THEN got
    ELSE LET w == Head(ws)
             rest == Tail(ws)
         IN  CASE w.kind = "long" /\ w.name \in h.valued \union h.skipped ->
                    IF rest = <<>> THEN [got EXCEPT !.ok = FALSE]
                    ELSE Handle(h, Tail(rest), IF w.name \in h.skipped THEN got
                                               ELSE [got EXCEPT !.values = Append(@, Arg(w.name, Head(rest)))])
               [] w.kind = "long" /\ w.name \in h.set -> Handle(h, rest, [got EXCEPT !.set = @ \union {w.name}])
               [] w.kind = "long" /\ w.name \in h.over -> Handle(h, rest, got)
               [] w.kind = "plain" /\ h.argument \in {"read", "over"} ->
                    Handle(h, rest, [got EXCEPT !.values = Append(@, Arg("", w))])
               [] w.kind = "plain" /\ h.argument = "one" /\ ~\E i \in DOMAIN got.values : got.values[i].long = "" ->
                    Handle(h, rest, [got EXCEPT !.values = Append(@, Arg("", w))])
               [] OTHER -> [got EXCEPT !.ok = FALSE]

Handled(p) == Handle(HandlerOf(p.command), HandlerArgv(p), [ok |-> TRUE, values |-> <<>>, set |-> {}])

(***************************************************************************)
(* gh's own reading                                                        *)
(***************************************************************************)

\* cobra's stripFlags: a flag takes the next word unless it is help or version.
RECURSIVE CobraCommands(_, _, _)
CobraCommands(ws, i, skip) ==
    IF i > Len(ws) \/ (i # skip /\ ws[i].kind = "end") THEN <<>>
    ELSE IF i = skip THEN CobraCommands(ws, i + 1, skip)
    ELSE LET w == ws[i]
             takes == \/ w.kind = "long" /\ w.eq = "" /\ w.name \notin {"help", "version"}
                      \/ w.kind = "short" /\ w.eq = "" /\ Len(w.letters) = 1 /\ w.letters # <<"h">>
             next == IF i + 1 = skip THEN i + 3 ELSE i + 2
         IN  CASE takes -> CobraCommands(ws, next, skip)
               [] w.kind = "plain" -> <<i>> \o CobraCommands(ws, i + 1, skip)
               [] OTHER -> CobraCommands(ws, i + 1, skip)

\* subcommand: the group, if the first command word is one, and the first of the rest.
Subcommand(ws) ==
    LET first == CobraCommands(ws, 1, 0)
        then == CobraCommands(ws, 1, first[1])
    IN  IF first = <<>> \/ ws[first[1]].name \notin Groups \/ then = <<>> THEN <<>>
        ELSE LET verb == Verb(ws[first[1]].name, ws[then[1]].name)
             IN  IF verb \in Subcommands[ws[first[1]].name] THEN <<first[1], then[1]>> ELSE <<>>

\* creates: whether the parser or gh would read `<group> create`.
Creates(ws, group) ==
    LET sub == Subcommand(ws)
    IN  \/ Discover(ws, 1, "", {}).command = group \o " create"
        \/ sub # <<>> /\ ws[sub[1]].name = group /\ Verb("pr", ws[sub[2]].name) = "create"

(***************************************************************************)
(* Typing                                                                  *)
(***************************************************************************)

\* The runs say which words may follow.
TypeWord(choices, most) ==
    /\ Len(words) < most
    /\ \E w \in choices : words' = Append(words, w)

(***************************************************************************)
(* Properties                                                              *)
(***************************************************************************)

SameRead(p, h, got) ==
    LET args == SelectSeq(p.args, LAMBDA a : a.long \in h.valued \ {"json"} \/ a.long = "")
        seen == SelectSeq(got.values, LAMBDA a : a.long # "json")
        json(as) == SelectSeq(as, LAMBDA a : a.long = "json")
        plain == \A i \in DOMAIN p.args : p.args[i].long = "" => p.args[i].value.kind = "plain"
    IN  p.ok /\ Native(p) /\ plain /\ ~FlagOn(p, "help") /\ got.ok =>
            /\ seen = args
            /\ json(got.values) = IF json(p.args) = <<>> THEN <<>> ELSE <<Last(json(p.args))>>
            /\ got.set = {long \in h.set : FlagOn(p, long)}
            /\ \A i \in DOMAIN p.args :
                  \/ p.args[i].long = "" \/ (IsBool(p.command, p.args[i].long) /\ ~FlagOn(p, p.args[i].long))
                  \/ p.args[i].long \in h.valued \union h.set \union h.skipped \union h.over
ActsOn(p) == SameRead(p, HandlerOf(p.command), Handled(p))

\* What the parser found is what the handler acts on: unless it refuses, it has every value
\* in its order, the switches whose last word says true and no other, and every argument;
\* what it skips is a flag it names (Invocation::handler_argv and the handlers' parsers).
\* Left out: an argument after `--` that begins with a dash, which handlers read as a flag.
HandlerSees == ActsOn(Parse(words))

\* The flags before the command's last word are its own, each with a value, as gh wants it.
ValuesBefore(ws, at, command) ==
    \A i \in 1 .. at - 1 :
        /\ ws[i].kind # "short" \/ Len(ws[i].letters) = 1
        /\ ws[i].kind \in {"long", "short"} /\ ws[i].eq = "" =>
              \E f \in Candidates(command, IF ws[i].kind = "long" THEN ws[i].name ELSE ws[i].letters[1],
                                 ws[i].kind = "short") : f.value # ""

Alike(found, sub, group, verb) ==
    /\ ValuesBefore(words, sub[2], FullName(group, verb)) =>
          ~found.unknown /\ found.words = {sub[1], sub[2]} /\ found.command = FullName(group, verb)
    /\ group \in {"pr", "repo"} /\ verb = "create" => Creates(words, group)
AlikeAt(sub) ==
    sub # <<>> =>
        Alike(Discover(words, 1, "", {}), sub, words[sub[1]].name,
              Verb(words[sub[1]].name, words[sub[2]].name))

\* The shim and gh find the same command in the same words, when the flags before it are
\* ones of the command's that take a value (gh's library takes a value for a boolean
\* too); and what gh would read as a create the shim takes for one, whatever stands
\* before it (discover_command, cobra_commands, subcommand, creates).
ReadAlike == AlikeAt(Subcommand(words))

\* One reading of a call's words: the parser's, which routes it, its handler's and gh's
\* (invocation.rs, forgejo.rs, read_only.rs).
OneReading == HandlerSees /\ ReadAlike
=============================================================================
