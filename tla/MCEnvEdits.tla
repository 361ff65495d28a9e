----------------------------- MODULE MCEnvEdits -----------------------------
(* A chain of nested calls, with one variable of each kind; or traced      *)
(* calls beside one another: git behind its recorder and a gh call, or     *)
(* three calls that end at once; or what one such call has in its          *)
(* arguments and its output.                                               *)
EXTENDS EnvEdits, Trace, Redact

CONSTANTS c1, c2, c3

VARIABLE topic

MCForgeHost == <<<<"user", 7>>>>
MCUserValues == {<<>>, <<<<"user", 1>>>>, MCForgeHost}

Begun == [c \in Calls |-> IF c = c1 THEN "start" ELSE IF c = c2 THEN "append" ELSE "ended"]
Over == [c \in Calls |-> "append"]
Idle == [c \in Calls |-> "ended"]

(***************************************************************************)
(* Texts                                                                   *)
(***************************************************************************)

Str(t) == <<"\"">> \o t \o <<"\"">>
Inner(t) == <<"\\", "\"">> \o t \o <<"\\", "\"">>
Colon == <<":", " ">>
Keys == {<<"token">>, <<"smtp", "smtpPass">>, <<"config", "[", "token", "]">>, <<"Authorization">>}

\* A secret in a shell word or a header.
ShellSecrets ==
    {<<"S">>, <<"S", ":", "S">>, <<"S", " ", "S">>, <<"S", ",", "S", "=">>, <<"ghp_S">>, <<"'", "S", "'">>,
     Str(<<"S">>), Str(<<"S", " ", "'", "S">>), Str(<<"S", "\\", "\"", "S">>), Str(<<"S", "\n", "S">>),
     Str(<<"S">>) \o <<",", "S">>, Str(<<"S">>) \o <<" ">> \o Str(<<"S", "\n", "S">>),
     <<"[">> \o Str(<<"S", "]">>) \o <<",", "\n">> \o Str(<<"S">>) \o <<"]">>,
     <<"[">> \o Str(<<"S">>) \o <<"]", "S">>}
Plain(keys) == {k \o d \o v : k \in keys, d \in {<<"=">>, Colon}, v \in ShellSecrets}
Header == <<"Authorization">> \o Colon \o <<"Bearer", " ", "S">>

\* An object with a secret and another field, compact and spread.
JsonSecrets ==
    {Str(<<"S">>), Str(<<"S", ",", "'", "S">>), Str(<<"S", "}", " ", "S">>), Str(<<"S", "\\", "\"", "S">>),
     <<"[">> \o Str(<<"S", "]">>) \o <<",">> \o Str(<<"S">>) \o <<"]">>,
     <<"{", "\n">> \o Str(<<"field">>) \o <<":">> \o Str(<<"S">>) \o <<"\n", "}">>}
InnerSecrets == {Inner(<<"S">>), Inner(<<"S", ",", "S">>), Inner(<<"S", "\\", "\\", "\\", "\"", "S">>)}
Object(quote(_), k, v, field, gap) ==
    LET secret == quote(k) \o <<":">> \o v
        other == quote(<<field>>) \o <<":">> \o gap \o quote(<<"keep">>)
    IN  {<<"{">> \o gap \o secret \o <<",">> \o gap \o other \o gap \o <<"}">>,
         <<"{">> \o gap \o other \o <<",">> \o gap \o secret \o gap \o <<"}">>}
Json(keys) == UNION {Object(Str, k, v, "field", gap) : k \in keys, v \in JsonSecrets, gap \in {<<>>, <<"\n">>}}
Nested(keys) ==
    {Str(<<"body">>) \o <<":">> \o Str(o) :
        o \in UNION {Object(Inner, k, v, "field", <<>>) : k \in keys, v \in InnerSecrets}}

Url(userinfo) == <<"https", ":", "/", "/">> \o userinfo \o <<"@", "keep", "/", "keep">>
Urls == {Url(<<"user", ":", "S">>), Url(<<"S", "=", "S">>), Url(<<"user", ":", "S", "@", "S">>),
         <<"https", ":", "/", "/", "keep", ",">> \o Url(<<"user", ":", "S">>)}
Others == {<<"keep">>, <<"bypass", "=", "keep">>, <<"ghp_S", "/", "S">>, <<"Bearer", " ", "keep">>}
Pieces(keys) == Plain(keys) \union Json(keys) \union Nested(keys) \union Urls \union Others \union {Header}
Second == Pieces({<<"token">>})

\* On a line with another secret more may be hidden; what is spread over lines has its own.
OneLine == {t \in Second : ToSet(t) \cap Opening = {} \/ "\n" \notin ToSet(t)}
Unkept(t) == [i \in DOMAIN t |-> IF t[i] = "keep" THEN "other" ELSE t[i]]

(***************************************************************************)
(* Arguments                                                               *)
(***************************************************************************)

UrlArgs == {<<u>> : u \in Urls}
GhArgs ==
    UrlArgs \union
    {<<<<"--token">>, <<"S">>>>, <<<<"--token">>, <<"-b", "S">>>>, <<<<"--token", "=", "S", "=">>>>,
     <<<<"--with-token">>, <<"keep">>>>, <<<<"-H">>, Header>>, <<<<"--header", "=">> \o Header>>,
     <<<<"-f">>, <<"config", "[", "token", "]", "=", "S">>>>, <<<<"--field", "=", "token", "=", "S">>>>,
     <<<<"-f">>, <<"bypass", "=", "keep">>>>, <<<<"ghp_S">>>>}
SecretArgs ==
    {<<<<"--body">>, <<"S">>>>, <<<<"--token">>, <<"--body">>, <<"keep">>>>,
     <<<<"-b">>, <<"-b", "S">>>>, <<<<"-b", "S">>>>, <<<<"--body", "=", "S">>>>}
BodyArgs == {<<<<"--body">>, <<"keep">>>>, <<<<"-b">>, <<"keep">>>>, <<<<"-b", "keep">>>>}
GitArgs ==
    UrlArgs \union
    {<<<<"--token">>, <<"S">>>>, <<<<"--token", "=", "S", "=">>>>, <<<<"keep">>>>,
     <<<<"-c">>, <<"http", "=">> \o Header>>, <<<<"-c">>, <<"token", "=", "S", ",", "S">>>>,
     <<<<"--config", "=", "token", "=", "S", " ", "S">>>>,
     <<<<"-c">>, <<"http", "=">> \o Url(<<"user", ":", "S", "=">>)>>}

\* `left` bounds the groups of arguments, or the pieces of output, still to come.
NoCall == [by |-> "none", args |-> <<>>, left |-> 0]
TracedInit ==
    traced \in {[by |-> "gh", args |-> <<<<"pr">>>>, left |-> 3], [by |-> "gh", args |-> <<<<"secret">>>>, left |-> 3],
                [by |-> "gh", args |-> <<<<"-R">>, <<"keep">>, <<"secret">>>>, left |-> 2],
                [by |-> "git", args |-> <<<<"fetch">>>>, left |-> 3],
                [by |-> "excerpt", args |-> <<<<>>>>, left |-> 2]}
Add(args) == traced' = [traced EXCEPT !.args = args, !.left = @ - 1]
Type ==
    /\ traced.left > 0
    /\ \/ /\ traced.by = "gh"
          /\ \E a \in GhArgs \union (IF SecretCommand(traced.args) THEN SecretArgs ELSE BodyArgs) :
                Add(traced.args \o a)
       \/ /\ traced.by = "git"
          /\ \E a \in GitArgs : Add(traced.args \o a)
       \/ /\ traced.by = "excerpt" /\ traced.left = 2
          /\ \E t \in Pieces(Keys) : Add(<<t>>)
       \/ /\ traced.by = "excerpt" /\ traced.left = 1
          /\ \E more \in {<<"\n">> \o t : t \in Second} \union {<<" ">> \o Unkept(t) : t \in OneLine} :
                Add(<<traced.args[1] \o more>>)

MCInit ==
    /\ Init /\ TraceInit
    /\ \/ topic = "chain" /\ step = Idle /\ traced = NoCall
       \/ topic = "traces" /\ step \in {Begun, Over} /\ env = [v \in Vars |-> Unset] /\ traced = NoCall
       \/ topic = "texts" /\ step = Idle /\ env = [v \in Vars |-> Unset] /\ TracedInit
MCNext ==
    /\ UNCHANGED topic
    /\ \/ topic = "chain" /\ Next /\ UNCHANGED <<traceVars, traced>>
       \/ topic = "traces" /\ TraceNext /\ UNCHANGED <<vars, traced>>
       \/ topic = "texts" /\ Type /\ UNCHANGED <<vars, traceVars>>
MCSpec == MCInit /\ [][MCNext]_<<topic, vars, traceVars, traced>>
=============================================================================
