------------------------------- MODULE Redact -------------------------------
(***************************************************************************)
(* What the traces hide (trace.rs redact_argv, redact_text_with, which the *)
(* git recorder shares, and git_recorder.rs redact_argv): the values of    *)
(* sensitive keys and flags, passwords in URLs and tokens with a known     *)
(* prefix, in arguments and in excerpts of output.                         *)
(*                                                                         *)
(* A text is a sequence of tokens: a word, or one of Marks.  Words are     *)
(* told apart by what the code makes of them; "S" is (a piece of) a secret *)
(* and "keep" what the documents say stays readable.  A range is a pair:   *)
(* its first position and the one after its last.                          *)
(***************************************************************************)
EXTENDS Naturals, Sequences, FiniteSets, SequencesExt

VARIABLE traced   \* [by, args]: "gh" or "git" with its arguments, or an "excerpt"

Quotes == {"\"", "'"}
Opening == {"[", "{"}
Closing == {"]", "}"}
Spaces == {" ", "\n"}
Marks == Quotes \union Opening \union Closing \union Spaces \union {"=", ":", "/", "@", ",", "\\"}

LongFlags == {"--token", "--with-token", "--body", "--header", "--field", "--config"}
Flags == LongFlags \union {"-b", "-H", "-f", "-R", "-c"}
SECRETS == {"S", "ghp_S"}
TOKEN_PREFIXED == {"ghp_S"}
AUTH_SCHEMES == {"Bearer"}
VALUELESS_FLAGS == {"--with-token"}

\* A key with one of these in it is sensitive, of words with `pass` in them all but
\* "bypass" and its like; Authorization only as a part of the key.
SENSITIVE_KEY_PARTS == {"token", "smtpPass", "--token", "--with-token"}
KeyCharacter(c) == c \notin Marks \/ c \in {"[", "]"}
Has(t, set) == ToSet(t) \cap set # {}
Authorizes(key) == Has(key, {"Authorization"})
IsSensitiveKey(key) ==
    \/ Has(key, SENSITIVE_KEY_PARTS)
    \/ Authorizes(key) /\ \A i \in DOMAIN key : KeyCharacter(key[i])

(***************************************************************************)
(* Positions                                                               *)
(***************************************************************************)

Beyond(t) == Len(t) + 1
Least(m, n) == IF m < n THEN m ELSE n
Greatest(m, n) == IF m < n THEN n ELSE m
FirstOf(at, none) == IF at = {} THEN none ELSE Min(at)
LastOf(at, none) == IF at = {} THEN none ELSE Max(at)
From(t, start) == start..Len(t)

SkipSpace(t, start) == FirstOf({i \in From(t, start) : t[i] # " "}, Beyond(t))
TrimmedEnd(t, end) == LastOf({i \in 1..(end - 1) : t[i] \notin Spaces}, 0) + 1

\* How many backslashes end just before i, from `start` on.
Backslashes(t, start, i) ==
    i - 1 - LastOf({j \in start..(i - 1) : t[j] # "\\"}, start - 1)
Escaped(t, start, i) == Backslashes(t, start, i) % 2 = 1

\* The quote that is open at i, if any, when reading begins at `start`.
OpenQuote(t, start) ==
    LET open[i \in start..Beyond(t)] ==
            IF i = start THEN ""
            ELSE LET c == t[i - 1]
                 IN  IF c \notin Quotes \/ Escaped(t, start, i - 1) THEN open[i - 1]
                     ELSE IF open[i - 1] = "" THEN c
                     ELSE IF open[i - 1] = c THEN "" ELSE open[i - 1]
    IN  open
Outside(t, start) ==
    LET open == OpenQuote(t, start)
    IN  {i \in From(t, start) : open[i] = "" /\ ~Escaped(t, start, i)}

RestOfLine(t, start) ==
    LET end == FirstOf({i \in Outside(t, start) : t[i] = "\n"}, Beyond(t))
    IN  IF TrimmedEnd(t, end) > start THEN TrimmedEnd(t, end) ELSE start

BracketEnd(t, start) ==
    LET outside == Outside(t, start)
        count(set, i) == Cardinality({j \in outside : j <= i /\ t[j] \in set})
    IN  FirstOf({i \in outside : t[i] \in Closing /\ count(Opening, i) <= count(Closing, i)}, Len(t)) + 1

ClosingQuote(t, start, quote) ==
    FirstOf({i \in From(t, start) : t[i] = quote /\ ~Escaped(t, start, i)}, Beyond(t))

\* In a JSON string inside another one, \\\" is a quote of the inner string's text.
ClosingEscapedQuote(t, start) ==
    FirstOf({i \in start..(Len(t) - 1) : t[i + 1] = "\"" /\ Backslashes(t, start, i + 1) % 4 = 1}, Beyond(t))

(***************************************************************************)
(* redact_text_with                                                        *)
(***************************************************************************)

UrlStarts(t) == {i \in 4..Beyond(t) : SubSeq(t, i - 3, i - 1) = <<":", "/", "/">>}

\* Userinfo runs to the last @ before the path.
UrlCredentials(t) ==
    LET path(i) == FirstOf({j \in From(t, i) : t[j] \in Spaces \union {"/"}}, Beyond(t))
        at(i) == LastOf({j \in i..(path(i) - 1) : t[j] = "@"}, 0)
    IN  {<<i, at(i)>> : i \in {j \in UrlStarts(t) : at(j) > j}}

\* The key that ends at `end`; an escaped one without the backslash of its quote.
KeyBefore(t, end) ==
    LET quoted(open) ==
            IF open = 0 THEN <<>> ELSE SubSeq(t, open + 1, IF t[end - 1] = "\\" THEN end - 2 ELSE end - 1)
    IN  IF end = 0 THEN <<>>
        ELSE IF t[end] \in Quotes THEN quoted(LastOf({i \in 1..(end - 1) : t[i] = t[end]}, 0))
        ELSE SubSeq(t, LastOf({i \in 1..end : ~KeyCharacter(t[i])}, 0) + 1, end)

EndsJsonValue(t, after) == \A i \in {SkipSpace(t, after)} \ {Beyond(t)} : t[i] \in {",", "\n"} \union Closing

AfterSchemeWord(t, start, end) ==
    LET space == {i \in start..(end - 1) : t[i] \in Spaces}
        scheme == {i \in space : SubSeq(t, start, i - 1) \in {<<s>> : s \in AUTH_SCHEMES}}
    IN  IF scheme = {} THEN start ELSE Min((start + 1)..end \ space)

\* Mutant: what is glued to a closing quote is not the secret's.
QuotedEnd_Shell(t, json, close, after, line) == close

\* A quoted value ends at its quote where a JSON value ends or the line does; elsewhere the
\* rest of the line goes too.
QuotedEnd(t, json, close, after, line) ==
    IF (json /\ EndsJsonValue(t, after)) \/ line = after THEN close ELSE line

Quoted(t, json, first, close, width, line) ==
    <<first, QuotedEnd(t, json, close, Least(close + width, Beyond(t)), line)>>

\* The value after a delimiter, from `start`: `json` where the key was quoted.
ValueRange(t, start, line, json, authorizes) ==
    IF start < Len(t) /\ t[start] = "\\" /\ t[start + 1] = "\""
    THEN Quoted(t, json, start + 2, ClosingEscapedQuote(t, start + 2), 2, line)
    ELSE IF t[start] \in Quotes
    THEN Quoted(t, json, start + 1, ClosingQuote(t, start + 1, t[start]), 1, line)
    ELSE IF t[start] \in Opening
    THEN <<start, Greatest(BracketEnd(t, start), IF json THEN 0 ELSE line)>>
    ELSE <<IF authorizes THEN AfterSchemeWord(t, start, line) ELSE start, line>>

SensitiveValue(t, keyEnd, key, start) ==
    IF ~IsSensitiveKey(key) \/ start > Len(t) THEN <<0, 0>>
    ELSE ValueRange(t, start, RestOfLine(t, start), t[keyEnd] \in Quotes, Authorizes(key))
ValueAfter(t, delimiter, keyEnd) ==
    SensitiveValue(t, keyEnd, KeyBefore(t, keyEnd), SkipSpace(t, delimiter + 1))

SensitiveValues(t) ==
    LET from[i \in 1..(Len(t) + 2)] ==
            LET onward(delimiter, range) ==
                    IF delimiter = 0 THEN {}
                    ELSE IF range[1] < range[2] THEN {range} \union from[range[2]] ELSE from[delimiter + 1]
                look(delimiter) == onward(delimiter, ValueAfter(t, delimiter, TrimmedEnd(t, delimiter) - 1))
            IN  look(FirstOf({j \in From(t, i) : t[j] \in {"=", ":"}}, 0))
    IN  from[1]

\* A token can follow any mark; it runs to the next space.
TokenPrefixes(t) ==
    {<<i, FirstOf({j \in From(t, i) : t[j] \in Spaces}, Beyond(t))>> :
        i \in {j \in From(t, 1) : t[j] \in TOKEN_PREFIXED /\ (j = 1 \/ t[j - 1] \in Marks)}}

\* Of overlapping ranges the first one counts.
ReplaceRanges(t, ranges, replacement) ==
    LET from[i \in 1..(Len(t) + 1)] ==
            LET here == {r \in ranges : r[1] = i}
            IN  IF i > Len(t) THEN <<>>
                ELSE IF here = {} THEN <<t[i]>> \o from[i + 1]
                ELSE replacement \o from[(CHOOSE r \in here : TRUE)[2]]
    IN  from[1]

RedactText(t, replacement) ==
    LET pass(u, ranges(_)) == ReplaceRanges(u, ranges(u), replacement)
    IN  pass(pass(pass(t, UrlCredentials), SensitiveValues), TokenPrefixes)

(***************************************************************************)
(* Arguments                                                               *)
(***************************************************************************)

Replacement == IF traced.by = "gh" THEN <<"<redacted>">> ELSE <<"[", "REDACTED", "]">>

Equals(arg) == FirstOf({i \in DOMAIN arg : arg[i] = "="}, 0)
Assigns(arg) == Equals(arg) > 0
KeyOf(arg) == IF Assigns(arg) THEN SubSeq(arg, 1, Equals(arg) - 1) ELSE arg
ValueOf(arg) == SubSeq(arg, Equals(arg) + 1, Len(arg))

\* An argument is recorded as a head, a text that is redacted, and a tail.
Whole(arg) == <<arg, <<>>, <<>>>>
Reads(text) == <<<<>>, text, <<>>>>
Hides(head) == <<head, <<>>, Replacement>>

\* gh's flags with a value that is a secret.
SecretCommand(args) == <<"secret">> \in ToSet(args)
IsSecretFlag(args, flag) ==
    \/ flag[1] \in LongFlags /\ IsSensitiveKey(flag) /\ ~Has(flag, VALUELESS_FLAGS)
    \/ SecretCommand(args) /\ flag \in {<<"--body">>, <<"-b">>}
IsHeaderFlag(flag) == flag \in {<<"-H">>, <<"--header">>}

GhSays(args, arg) ==
    IF Assigns(arg) THEN ""
    ELSE IF IsSecretFlag(args, arg) THEN "secret" ELSE IF IsHeaderFlag(arg) THEN "header" ELSE ""
GhArgument(args, says, arg) ==
    IF says = "secret" THEN Hides(<<>>)
    ELSE IF says = "header" THEN Reads(arg)
    ELSE IF IsSecretFlag(args, KeyOf(arg)) THEN IF Assigns(arg) THEN Hides(KeyOf(arg) \o <<"=">>) ELSE Whole(arg)
    ELSE IF Assigns(arg) /\ IsHeaderFlag(KeyOf(arg)) THEN <<KeyOf(arg) \o <<"=">>, ValueOf(arg), <<>>>>
    ELSE IF SecretCommand(args) /\ Len(arg) > 1 /\ arg[1] = "-b" THEN Hides(<<"-b">>)
    ELSE Reads(arg)

\* git's; an `=` in a URL assigns nothing.
HasUrl(t) == UrlStarts(t) # {}
IsGitFlag(key) == ~HasUrl(key) /\ key[1] \in Flags /\ IsSensitiveKey(key)

GitSays(arg) == IF ~Assigns(arg) /\ IsGitFlag(arg) THEN "secret" ELSE ""
GitArgument(says, arg) ==
    IF says = "secret" THEN Hides(<<>>)
    ELSE IF IsGitFlag(KeyOf(arg)) THEN IF Assigns(arg) THEN Hides(KeyOf(arg) \o <<"=">>) ELSE Whole(arg)
    ELSE IF ~HasUrl(KeyOf(arg)) /\ Assigns(arg) /\ IsSensitiveKey(KeyOf(arg))
    THEN <<<<>>, KeyOf(arg), <<"=">> \o Replacement>>
    ELSE Reads(arg)

\* What an argument says of the next, unless it is a value itself.
Says(args, i) ==
    LET says[j \in 0..i] ==
            IF j = 0 \/ says[j - 1] # "" THEN ""
            ELSE IF traced.by = "gh" THEN GhSays(args, args[j]) ELSE GitSays(args[j])
    IN  says[i]
Part(args, i) ==
    CASE traced.by = "gh" -> GhArgument(args, Says(args, i - 1), args[i])
      [] traced.by = "git" -> GitArgument(Says(args, i - 1), args[i])
      [] traced.by = "excerpt" -> Reads(args[i])

\* What the trace gets of the call's arguments, or of its output.
Traced ==
    LET written(part) == part[1] \o RedactText(part[2], Replacement) \o part[3]
    IN  [i \in DOMAIN traced.args |-> written(Part(traced.args, i))]

Kept(trace) == Len(SelectSeq(trace, LAMBDA c : c = "keep"))

\* No secret given in a documented form comes into a trace: as a flag's value, under a
\* sensitive key of a shell word, a header or JSON (within a JSON string too), however it
\* is quoted and spread over lines, in a URL, or by its prefix; and what the documents
\* say stays readable does: the next field, the next line, the host (README "Redaction
\* errs toward hiding", trace.rs redact_argv, redact_text_with).
SecretsHidden ==
    LET true(trace) == ~Has(trace, SECRETS) /\ Kept(trace) = Kept(FlattenSeq(traced.args))
    IN  true(FlattenSeq(Traced))
=============================================================================
