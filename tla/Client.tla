------------------------------- MODULE Client -------------------------------
(***************************************************************************)
(* The command line client, tkn-results, with the API server behind it.    *)
(* `config set`, `config reset` and `config view` keep the address of the  *)
(* server and a token in the kubeconfig file, which kubectl and oc write   *)
(* as well; `list`, `describe` and `logs` of TaskRuns and PipelineRuns     *)
(* read it and send requests. One command runs at a time. Requests of      *)
(* other clients are sent as they are.                                     *)
(*                                                                         *)
(* A name in the kubeconfig file is a sequence of its parts between `/`.   *)
(***************************************************************************)
EXTENDS ReadApi

CONSTANTS
    Requests,    \* the requests of other clients, a sequence
    Commands,    \* the commands, a sequence
    Kubeconfig,  \* the kubeconfig file at first
    MoreContexts,\* the contexts that `oc project` adds: name -> context
    Namespaces,  \* the namespaces that `kubectl config set-context` sets
    StaticToken, \* the tokens in the file: user -> token, or "" for a plugin's
    ApiHost,     \* the address of the API server
    Typed,       \* what the user types at the prompts, an extension
    MinLimit, MaxLimit,  \* the bounds of --limit
    FindPage     \* the page size of a search by name

VARIABLES
    file,       \* the kubeconfig file
    cli,        \* the running command
    configured  \* what was configured last for a cluster and a user

clientVars == <<file, cli, configured>>
vars == <<apiVars, clientVars>>

----------------------------------------------------------------------------
(* The configuration in the kubeconfig file                                *)

\* A map in which x has been set to y.
With(f, x, y) == [z \in DOMAIN f \cup {x} |-> IF z = x THEN y ELSE f[z]]

EmptyExtension == [host |-> "", token |-> "", path |-> "", insecure |-> ""]

\* The part of the user name before `/`.
UserName(context) == Head(context.user)

\* Mutant: a configuration for each namespace.
BuildConfigContextPerNamespace(context) ==
    <<"tekton-results-config", context.cluster, context.ns>>

\* BuildConfigContextInfo: one configuration for a cluster and a user.
BuildConfigContext(context) ==
    <<"tekton-results-config", context.cluster, UserName(context)>>

ConfigContexts(f) == {n \in DOMAIN f.contexts : Head(n) = "tekton-results-config"}

IsContext(c) == DOMAIN c = {"cluster", "user", "ns", "ext"}

\* A kubeconfig file: no configuration of the client is chosen as a context.
IsFile(f) ==
    /\ DOMAIN f = {"current", "contexts"}
    /\ \A n \in DOMAIN f.contexts : IsContext(f.contexts[n])
    /\ f.current \in DOMAIN f.contexts \ ConfigContexts(f)

\* A request that a client may send; strings.Split leaves no path without a part.
IsRequest(req) ==
    /\ req.tokens \in Seq(Range(req.tokens))
    /\ IsFiniteSet(req.imp.groups) /\ IsFiniteSet(req.imp.extra)
    /\ req.size \in Int
    /\ req.mask \subseteq Seq(Names) \ {<<>>}

ConfigCommands == {"set", "reset", "view"}

ASSUME ClientAssumption ==
    /\ \A k \in DOMAIN Requests : IsRequest(Requests[k])
    /\ \A k \in DOMAIN Commands :
          /\ Commands[k].cmd \in ConfigCommands \cup {"list", "describe", "logs"}
          /\ Commands[k].limit \in Int
    /\ FindPage \in Int
    /\ IsFile(Kubeconfig)
    /\ \A n \in DOMAIN MoreContexts :
          IsContext(MoreContexts[n]) /\ Head(n) # "tekton-results-config"

\* The context of a command: --context, or the current one.
ContextName(f, cmd) == IF cmd.context = <<>> THEN f.current ELSE cmd.context

\* NewConfig finds the context, and a cluster and a user in it.
Loads(f, cmd) ==
    /\ ContextName(f, cmd) \in DOMAIN f.contexts
    /\ LET context == f.contexts[ContextName(f, cmd)]
       IN context.cluster # "" /\ context.user # <<>>

Context(f, cmd) == f.contexts[ContextName(f, cmd)]

LoadExtension(f, context) ==
    LET name == BuildConfigContext(context)
    IN IF name \in DOMAIN f.contexts THEN f.contexts[name].ext ELSE EmptyExtension

\* Persist: the extension is put into the context of the configuration, which is
\* made if there is none, and all that was loaded is written back.
Persisted(f, context, ext) ==
    LET name == BuildConfigContext(context)
        old  == IF name \in DOMAIN f.contexts THEN f.contexts[name]
                ELSE [cluster |-> context.cluster, user |-> <<UserName(context)>>,
                      ns |-> "default", ext |-> ext]
    IN [f EXCEPT !.contexts = With(@, name, [old EXCEPT !.ext = ext])]

----------------------------------------------------------------------------
(* A command                                                               *)

NoCli == [phase |-> "idle"]

Doing(phase) == cli.phase = phase

Ended(outcome) == cli' = [cli EXCEPT !.phase = "done", !.outcome = outcome]

Fail == Ended("failed")

FlagsChanged(cmd) == cmd.host # "" \/ cmd.token # "" \/ cmd.path # "" \/ cmd.insecure

\* A command starts. A run is told by its name, or by --uid.
Run ==
    /\ Doing("idle") /\ At("idle")
    /\ \E k \in DOMAIN Commands :
          LET cmd == Commands[k]
          IN cli' = [phase |-> IF cmd.cmd \in {"describe", "logs"} /\ cmd.uid = <<>> /\ cmd.name = <<>>
                               THEN "done" ELSE "params",
                     cmd |-> cmd, ns |-> <<>>, conf |-> Kubeconfig, ext |-> EmptyExtension,
                     host |-> "", token |-> "", found |-> 0, scope |-> {}, pages |-> <<>>,
                     title |-> <<>>, log |-> 0, outcome |-> "failed"]
    /\ UNCHANGED <<apiVars, file, configured>>

\* SetNamespace: the namespace of the flag, or of the context.
SetNamespace(cmd) ==
    IF cmd.ns # <<>> \/ ContextName(file, cmd) \notin DOMAIN file.contexts THEN cmd.ns
    ELSE <<Context(file, cmd).ns>>

InitParams ==
    /\ Doing("params")
    /\ cli' = [cli EXCEPT !.ns = SetNamespace(cli.cmd),
                          !.phase = IF cli.cmd.cmd \in ConfigCommands THEN "config" ELSE "client"]
    /\ UNCHANGED <<apiVars, file, configured>>

\* NewConfig for the commands that configure: the file is loaded.
NewConfig(cmd) == Doing("config") /\ cli.cmd.cmd = cmd

Loaded(phase, ext) ==
    /\ IF Loads(file, cli.cmd)
       THEN cli' = [cli EXCEPT !.phase = phase, !.conf = file, !.ext = ext, !.outcome = "ok"]
       ELSE Fail
    /\ UNCHANGED <<apiVars, file, configured>>

\* What is configured for the context of the command.
Extension ==
    IF Loads(file, cli.cmd) THEN LoadExtension(file, Context(file, cli.cmd)) ELSE EmptyExtension

View == NewConfig("view") /\ Loaded("done", Extension)

Reset == NewConfig("reset") /\ Loaded("persist", EmptyExtension)

\* What the flags of `config set` give, over what was configured. TLS verification
\* can be switched off with a flag, not on.
Flags(cmd, old) ==
    LET Or(new, x) == IF new = "" THEN x ELSE new
    IN [host |-> Or(cmd.host, old.host), token |-> Or(cmd.token, old.token),
        path |-> Or(cmd.path, old.path),
        insecure |-> IF cmd.insecure THEN "true" ELSE old.insecure]

\* `config set` with flags, or with prompts.
Set ==
    /\ NewConfig("set")
    /\ IF FlagsChanged(cli.cmd) THEN Loaded("persist", Flags(cli.cmd, Extension))
       ELSE Loaded("prompt", Extension)

\* getHostURL: the route of an OpenShift cluster, if it answers.
DetectedHosts == {"", ApiHost}

\* tokenPromptDefault: no token that a plugin made is proposed.
TokenDefault(context) == StaticToken[context.user]

\* The prompts of `config set`. An empty answer takes the default; the user may
\* interrupt the command.
Prompt ==
    /\ Doing("prompt")
    /\ \/ Fail
       \/ \E host \in DetectedHosts \cup {Typed.host} :
          \E token \in {TokenDefault(Context(cli.conf, cli.cmd)), Typed.token} :
          \E insecure \in {"false", Typed.insecure} :
             cli' = [cli EXCEPT !.phase = "persist",
                                !.ext = [host |-> host, token |-> token, path |-> "",
                                         insecure |-> insecure]]
    /\ UNCHANGED <<apiVars, file, configured>>

\* ModifyConfig writes the file as it was loaded, and the extension; it may fail.
Persist ==
    /\ Doing("persist")
    /\ LET context == Context(cli.conf, cli.cmd)
       IN \/ Fail /\ UNCHANGED <<file, configured>>
          \/ /\ file' = Persisted(cli.conf, context, cli.ext)
             /\ configured' = With(configured, <<context.cluster, UserName(context)>>, cli.ext)
             /\ Ended("ok")
    /\ UNCHANGED apiVars

\* BuildDirectClientConfig: the flags must give the server and a token.
Direct(cmd) == [ok |-> cmd.host # "" /\ cmd.token # "", host |-> cmd.host, token |-> cmd.token]

\* LoadClientConfig: what is configured, else the token in the file.
ClientConfig(f, cmd) ==
    LET context == Context(f, cmd)
        ext == LoadExtension(f, context)
    IN [host |-> ext.host, token |-> IF ext.token # "" THEN ext.token ELSE StaticToken[context.user]]

\* Validate: a server is configured.
Validate(config) == config.host # ""

\* InitClient: the server of the flags, or the configured one. The file is read a
\* second time.
InitClient ==
    /\ Doing("client")
    /\ LET cmd == cli.cmd
           Use(config) == cli' = [cli EXCEPT !.phase = "prerun", !.host = config.host,
                                             !.token = config.token]
       IN IF FlagsChanged(cmd) THEN IF Direct(cmd).ok THEN Use(Direct(cmd)) ELSE Fail
          ELSE IF Loads(file, cmd) /\ Validate(ClientConfig(file, cmd))
               THEN Use(ClientConfig(file, cmd))
          ELSE Fail
    /\ UNCHANGED <<apiVars, file, configured>>

----------------------------------------------------------------------------
(* Requests of a command                                                   *)

Equals(e, text) == Call("==", e, Const(Str(text)))

Metadata(field) == Select(Select(Ident("data"), "metadata"), field)

\* The types of both versions of the API.
RunTypes(obj) == IF obj = "taskrun" THEN <<<<"v1.TaskRun">>, <<"v1beta1.TaskRun">>>>
                 ELSE <<<<"v1.PipelineRun">>, <<"v1beta1.PipelineRun">>>>

\* Mutant: the conditions are alternatives.
ConjunctionOr(es) == FoldLeft(LAMBDA x, y : Call("||", x, y), Head(es), Tail(es))

Conjunction(es) == FoldLeft(LAMBDA x, y : Call("&&", x, y), Head(es), Tail(es))

\* PreRunE of a list returns after the labels: a name is not looked at then.
ListName(cmd) == IF cmd.label = <<>> THEN cmd.name ELSE <<>>

\* A list is of the runs with a part of the name.
SelectsExactMatch(cmd) == cmd.cmd # "list"

\* BuildFilterString
BuildFilter(cmd) ==
    LET types == RunTypes(cmd.obj)
        exact == SelectsExactMatch(cmd)
        name == IF exact THEN cmd.name ELSE ListName(cmd)
        byType == <<Call("||", Equals(Ident("data_type"), types[1]), Equals(Ident("data_type"), types[2]))>>
        byLabel == [k \in DOMAIN cmd.label |->
                       Equals(Index(Metadata("labels"), cmd.label[k][1]), cmd.label[k][2])]
        byName == IF name = <<>> THEN <<>>
                  ELSE IF exact THEN <<Equals(Metadata("name"), name)>>
                  ELSE <<Call("contains", Metadata("name"), Const(Str(name)))>>
        byPipelineRun == IF cmd.pr = <<>> THEN <<>>
                         ELSE <<Equals(Index(Metadata("labels"), "tekton.dev/pipelineRun"), cmd.pr)>>
    IN Conjunction(byType \o byLabel \o byName \o byPipelineRun)

\* The search for a run by its UID, when it is not the name of its Result: by the
\* name of the Record, which the logs of a PipelineRun take for its path.
UIDFilter(cmd) ==
    IF cmd.cmd = "logs" /\ cmd.obj = "pipelinerun"
    THEN Call("endsWith", Ident("name"), Const(Str(<<"records/">> \o cmd.uid)))
    ELSE Equals(Ident("name"), cmd.uid)

Under(field) == <<"records">> \o Value \o field

\* ListFields, NameUIDAndDataField
Fields(cmd) ==
    CASE cmd.cmd = "list" -> {<<"records", "name">>, <<"records", "uid">>, <<"next_page_token">>,
                              Under(<<"metadata">>), Under(<<"status">>)}
      [] cmd.cmd = "logs" -> {<<"records", "name">>, <<"records", "uid">>, Under(<<>>)}
      [] OTHER            -> {}

Request(kind, parent, result) ==
    [kind |-> kind, tokens |-> IF cli.token = "" THEN <<>> ELSE <<cli.token>>,
     imp |-> NoImpersonation, parent |-> parent, result |-> result, name |-> <<>>,
     filter |-> NoFilter, mask |-> {}, size |-> 0, after |-> 0,
     summary |-> <<>>, group |-> <<>>, order |-> ""]

\* DoRequest: what is sent elsewhere fails.
Send(req, phase) ==
    IF cli.host = ApiHost
    THEN Begin(req, "cli") /\ cli' = [cli EXCEPT !.phase = phase]
    ELSE Fail /\ UNCHANGED call

ListRequest(filter, size, after) ==
    [Request("records", IF cli.cmd.all THEN All ELSE cli.ns, All) EXCEPT
        !.filter = filter, !.size = size, !.after = after, !.mask = Fields(cli.cmd),
        !.order = "create_time desc"]

\* PreRunE and the first request of RunE.
PreRun(first) ==
    /\ Doing("prerun") /\ first
    /\ UNCHANGED <<stored, granted, file, configured>>

InvalidFlags(cmd) ==
    \/ cmd.all /\ cmd.ns # <<>>
    \/ cmd.limit < MinLimit \/ cmd.limit > MaxLimit
    \/ ~cmd.labelValid

ListRuns ==
    LET cmd == cli.cmd
    IN PreRun(/\ cmd.cmd = "list"
              /\ IF InvalidFlags(cmd) THEN Fail /\ UNCHANGED call
                 ELSE Send(ListRequest(BuildFilter(cmd), cmd.limit, 0), "page"))

\* By --uid, the Record in the Result of the same name is tried first.
GetByUID ==
    LET cmd == cli.cmd
    IN PreRun(/\ cmd.cmd # "list" /\ cmd.uid # <<>>
              /\ Send([Request("get", cli.ns, cmd.uid) EXCEPT !.name = cmd.uid], "get"))

FindByName ==
    LET cmd == cli.cmd
    IN PreRun(/\ cmd.cmd # "list" /\ cmd.uid = <<>>
              /\ Send(ListRequest(BuildFilter(cmd), FindPage, 0), "find"))

\* The answer to the request of the command, which is over with it.
Response(phase) == Doing(phase) /\ At("answered")

Answer == call.answer

\* A page of a list is printed. The user may ask for the next one.
ShowPage ==
    /\ Response("page")
    /\ IF Answer.code # "OK" THEN Fail
       ELSE cli' = [cli EXCEPT !.pages = @ \o Answer.rows, !.found = Answer.next,
                               !.phase = IF cli.cmd.single \/ Answer.next = 0 THEN "done" ELSE "more",
                               !.outcome = "ok"]
    /\ call' = Idle
    /\ UNCHANGED <<stored, granted, file, configured>>

More ==
    /\ Doing("more")
    /\ \/ Ended("ok") /\ UNCHANGED call
       \/ Send(ListRequest(BuildFilter(cli.cmd), cli.cmd.limit, cli.found), "page")
    /\ UNCHANGED <<stored, granted, file, configured>>

\* The Record by its UID, in the Result of the same name. Any error leads to a
\* search.
GotRecord ==
    /\ Response("get")
    /\ IF Answer.code = "OK"
       THEN /\ cli' = [cli EXCEPT !.phase = "found", !.found = Answer.rows[1], !.scope = Answer.scope,
                                  !.title = Answer.body[1]]
            /\ call' = Idle
       ELSE Send(ListRequest(UIDFilter(cli.cmd), FindPage, 0), "find")
    /\ UNCHANGED <<stored, granted, file, configured>>

\* Mutant: the last Record of the page.
FoundOldest ==
    /\ Response("find")
    /\ cli' = IF Answer.code = "OK" /\ Answer.rows # <<>>
              THEN [cli EXCEPT !.phase = "found", !.found = Last(Answer.rows), !.scope = Answer.scope,
                               !.title = Last(Answer.body)]
              ELSE [cli EXCEPT !.phase = "done", !.scope = Answer.scope,
                               !.outcome = IF Answer.code = "OK" THEN "notfound" ELSE "failed"]
    /\ call' = Idle
    /\ UNCHANGED <<stored, granted, file, configured>>

\* The first Record of the page.
Found ==
    /\ Response("find")
    /\ cli' = IF Answer.code = "OK" /\ Answer.rows # <<>>
              THEN [cli EXCEPT !.phase = "found", !.found = Answer.rows[1], !.scope = Answer.scope,
                               !.title = Answer.body[1]]
              ELSE [cli EXCEPT !.phase = "done", !.scope = Answer.scope,
                               !.outcome = IF Answer.code = "OK" THEN "notfound" ELSE "failed"]
    /\ call' = Idle
    /\ UNCHANGED <<stored, granted, file, configured>>

\* GetLog: the first "records" in the name of the Record is replaced, which may be
\* in the name of the namespace; the request is for a Record then.
LogRequest(r) ==
    IF Contains(r.parent, "records")
    THEN [Request("get", [k \in DOMAIN r.parent |-> IF r.parent[k] = "records" THEN "logs" ELSE r.parent[k]],
                  r.result) EXCEPT !.name = r.name]
    ELSE [Request("log", r.parent, r.result) EXCEPT !.name = r.name]

CompletionTime == Value \o <<"status", "completionTime">>

\* The run is described, or its log is fetched if it is over.
Show ==
    /\ Doing("found")
    /\ CASE cli.cmd.cmd = "describe" -> Ended("ok") /\ UNCHANGED call
         [] cli.cmd.cmd # "describe" /\ CompletionTime \notin DOMAIN cli.title ->
                Ended("running") /\ UNCHANGED call
         [] OTHER -> Send(LogRequest(Rows[cli.found]), "log")
    /\ UNCHANGED <<stored, granted, file, configured>>

\* The log is copied to the output.
CopyLog ==
    /\ Response("log")
    /\ cli' = IF Answer.code = "OK"
              THEN [cli EXCEPT !.phase = "done", !.outcome = "ok", !.log = Answer.rows[1]]
              ELSE [cli EXCEPT !.phase = "done", !.outcome = "failed"]
    /\ call' = Idle
    /\ UNCHANGED <<stored, granted, file, configured>>

Exit ==
    /\ Doing("done")
    /\ cli' = NoCli
    /\ UNCHANGED <<apiVars, file, configured>>

----------------------------------------------------------------------------
(* kubectl and oc write the file at any time a command may read it next.   *)

UseContext ==
    /\ At("idle")
    /\ \E n \in DOMAIN file.contexts \ ConfigContexts(file) : file' = [file EXCEPT !.current = n]
    /\ UNCHANGED <<apiVars, cli, configured>>

SetContext ==
    /\ At("idle")
    /\ \E ns \in Namespaces : file' = [file EXCEPT !.contexts[file.current].ns = ns]
    /\ UNCHANGED <<apiVars, cli, configured>>

Project ==
    /\ At("idle")
    /\ \E n \in DOMAIN MoreContexts \ DOMAIN file.contexts :
          file' = [file EXCEPT !.contexts = With(@, n, MoreContexts[n]), !.current = n]
    /\ UNCHANGED <<apiVars, cli, configured>>

\* A bound: other clients send requests, and rows and permissions change, only
\* while the file is as at first. It has no part in serving a request.
Untouched == file = Kubeconfig

\* A request of another client.
Other ==
    /\ Doing("idle") /\ At("idle") /\ Untouched
    /\ \E k \in DOMAIN Requests : Begin(Requests[k], "other")
    /\ UNCHANGED <<stored, granted, clientVars>>

OtherDone ==
    /\ Doing("idle") /\ At("answered")
    /\ call' = Idle
    /\ UNCHANGED <<stored, granted, clientVars>>

Init ==
    /\ ApiInit
    /\ file = Kubeconfig /\ cli = NoCli /\ configured = <<>>

\* Rows and permissions change while a request is served: between requests a
\* change is the same as one when the next request begins.
Next ==
    \/ Run \/ InitParams \/ View \/ Reset \/ Set \/ Prompt \/ Persist \/ InitClient
    \/ ListRuns \/ GetByUID \/ FindByName \/ ShowPage \/ More \/ GotRecord \/ Found \/ Show \/ CopyLog \/ Exit
    \/ UseContext \/ SetContext \/ Project
    \/ Other \/ OtherDone
    \/ UNCHANGED clientVars /\ Serve
    \/ ~At("idle") /\ Untouched /\ UNCHANGED clientVars /\ (Write \/ Purge \/ Grant)

Spec == Init /\ [][Next]_vars

----------------------------------------------------------------------------
(* Properties                                                              *)

TypeOK ==
    /\ stored \subseteq DOMAIN Rows
    /\ granted \subseteq Granted \cup Changing
    /\ \/ call = Idle
       \/ /\ call.phase \in {"check", "token", "impersonate", "access", "query", "answered"}
          /\ call.token \in DOMAIN call.req.tokens \cup {1}
          /\ granted \subseteq call.held
    /\ file.current \in DOMAIN file.contexts \ ConfigContexts(file)
    /\ cli.phase = "found" => cli.found \in DOMAIN Rows
    /\ cli.phase \in {"page", "get", "find", "log"} <=> call # Idle /\ call.from = "cli"

\* "You only need to configure once per cluster/user combination": the client
\* that runs in any context of a cluster and a user loads what was configured
\* last for them, whatever contexts and namespaces kubectl and oc made or chose
\* meanwhile.
ConfigPersists ==
    \A n \in DOMAIN file.contexts \ ConfigContexts(file) :
        LET c == file.contexts[n]
        IN <<c.cluster, UserName(c)>> \in DOMAIN configured =>
              LoadExtension(file, c) = configured[<<c.cluster, UserName(c)>>]

\* What the arguments and flags of a command ask for: a list for the runs that match
\* all of them, any other command for the run with the UID or with the name.
Asks(cmd, r) ==
    LET type == r.type \in Range(RunTypes(cmd.obj))
    IN IF cmd.cmd = "list"
       THEN /\ type
            /\ \A k \in DOMAIN cmd.label : Leaf(r, <<"metadata", "labels", cmd.label[k][1]>>) = Str(cmd.label[k][2])
            /\ IsInfix(cmd.name, r.data[<<"metadata", "name">>])
            /\ cmd.pr # <<>> => Leaf(r, <<"metadata", "labels", "tekton.dev/pipelineRun">>) = Str(cmd.pr)
       ELSE IF cmd.uid # <<>> THEN r.name = cmd.uid
       ELSE type /\ Leaf(r, <<"metadata", "name">>) = Str(cmd.name)

\* A run that a command asks for, in its namespace or, with `-`, in any.
IsAsked(cmd, ns, i) ==
    /\ Rows[i].table = "records" /\ (cmd.all \/ ns \in {All, Rows[i].parent})
    /\ Asks(cmd, Rows[i])

\* The search by its UID for the logs of a PipelineRun finds nothing.
SearchesInVain(cmd) == cmd.cmd = "logs" /\ cmd.obj = "pipelinerun" /\ cmd.uid # <<>>

\* A list that was given both a label and a name, of which only the label is heeded.
DropsName(cmd) == cmd.cmd = "list" /\ cmd.label # <<>> /\ cmd.name # <<>>

\* The command without the name that is not heeded.
Heeded(cmd) == IF DropsName(cmd) THEN [cmd EXCEPT !.name = <<>>] ELSE cmd

\* The SQL conditions of BuildFilterString and of the search by UID select what the
\* command asks for, the dropped name aside; no text of a command holds a quote.
FiltersAsk ==
    \A k \in DOMAIN Commands :
        LET cmd == Commands[k]
            records == {i \in DOMAIN Rows : Rows[i].table = "records"}
            byFilter(i) == True(Selects(BuildFilter(cmd), FilterRow(Rows[i])))
            byUID(i) == True(Selects(UIDFilter(cmd), FilterRow(Rows[i])))
            lists == cmd.cmd = "list" \/ (cmd.uid = <<>> /\ cmd.name # <<>>)
        IN cmd.cmd \notin ConfigCommands =>
              /\ lists => /\ ~Quoted(BuildFilter(cmd))
                          /\ \A i \in records : byFilter(i) <=> Asks(Heeded(cmd), Rows[i])
              /\ cmd.cmd # "list" /\ cmd.uid # <<>> =>
                    /\ ~Quoted(UIDFilter(cmd))
                    /\ \A i \in records :
                          /\ byUID(i) => Asks(cmd, Rows[i])
                          /\ Asks(cmd, Rows[i]) => byUID(i) \/ SearchesInVain(cmd)

\* A Record of a run has the UID of the run for its name.
UIDsDistinct ==
    \A i, j \in DOMAIN Rows :
        Rows[i].table = "records" /\ Rows[j].table = "records" /\ Rows[i].name = Rows[j].name => i = j

\* What a command shows is what it was asked for, through the filter, the field
\* mask and the pages: a list has runs that match, the newest first and none
\* twice; a description or a log is that of the run with the UID, or of the most
\* recent run with the name, at the time of the search. None is said to be
\* missing that was there. There are two exceptions: a list by label and name is
\* by label only, as PreRunE returns before it reads the name, and the search for
\* the logs of a PipelineRun by its UID finds nothing.
ShownIsAsked ==
    cli.phase = "done" =>
        LET cmd == cli.cmd
        IN /\ cmd.cmd = "list" =>
                /\ \A k \in DOMAIN cli.pages : IsAsked(Heeded(cmd), cli.ns, cli.pages[k])
                /\ \A k, l \in DOMAIN cli.pages : k < l => cli.pages[k] > cli.pages[l]
           /\ cmd.cmd \in {"describe", "logs"} /\ cli.outcome \in {"ok", "running"} =>
                /\ IsAsked(cmd, cli.ns, cli.found)
                /\ cmd.uid = <<>> =>
                     /\ \A i \in cli.scope : IsAsked(cmd, cli.ns, i) => i <= cli.found
                     /\ cli.title[Value \o <<"metadata", "name">>] = cmd.name
                /\ cmd.cmd = "logs" =>
                     (cli.outcome = "running") <=> End(Rows[cli.found]).t = "null"
                /\ cli.log \in {0, cli.found}
           /\ cli.outcome = "notfound" =>
                \/ SearchesInVain(cmd)
                \/ ~\E i \in cli.scope : IsAsked(cmd, cli.ns, i)
=============================================================================
