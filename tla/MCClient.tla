------------------------------ MODULE MCClient ------------------------------
(* Two namespaces with runs of both kinds, a run twice by the same name and  *)
(* TaskRuns of a PipelineRun; one cluster and user in several contexts.      *)
EXTENDS Client, CelFilter

\* The data of a run.
Data(ns, name, status, more) ==
    (<<"metadata", "name">> :> name) @@ (<<"metadata", "namespace">> :> ns)
      @@ (<<"metadata", "creationTimestamp">> :> <<"1">>) @@ status @@ more

Over(reason, start, end) ==
    (<<"status", "reason">> :> <<reason>>) @@ (<<"status", "startTime">> :> <<start>>)
      @@ (<<"status", "completionTime">> :> <<end>>)

Unfinished(reason) == (<<"status", "reason">> :> <<reason>>) @@ (<<"status", "startTime">> :> <<"2">>)

Kind(kind) == <<"spec", "kind">> :> kind

Label(k, v) == <<"metadata", "labels", k>> :> v

Record(ns, result, name, type, data) ==
    [table |-> "records", parent |-> ns, result |-> result, name |-> name, type |-> <<type>>,
     created |-> 1, data |-> data, summary |-> <<>>]

Log(ns, name, data) == Record(ns, <<"u1">>, name, "v1alpha3.Log", data)

Result(ns, name, created, annotations, summary) ==
    [table |-> "results", parent |-> ns, result |-> name, name |-> name, type |-> <<>>,
     created |-> created, data |-> annotations, summary |-> summary]

A == <<"a">>
B == <<"b">>
N == <<"records", "-", "c">>

Unnumbered == <<
    Record(A, <<"u1">>, <<"u1">>, "v1.PipelineRun",
           Data(A, <<"p", "_", "1">>, Over("Completed", "1", "2"), Label("pipeline", <<"build">>))),
    Record(A, <<"u1">>, <<"u2">>, "v1.TaskRun",
           Data(A, <<"t", "1">>, Over("Succeeded", "1", "3"),
                Label("tekton.dev/pipelineRun", <<"p", "_", "1">>) @@ Label("app", <<"x">>))),
    Record(B, <<"u3">>, <<"u3">>, "v1.TaskRun", Data(B, <<"t", "1">>, Over("Failed", "2", "3"), <<>>)),
    Record(N, <<"u4">>, <<"u4">>, "v1.TaskRun", Data(N, <<"t", "3">>, Over("Cancelled", "1", "4"), <<>>)),
    Record(A, <<"ev">>, <<"u5">>, "v1beta1.PipelineRun", Data(A, <<"p", "2">>, <<>>, <<>>)),
    Result(A, <<"u1">>, 2, <<"k">> :> <<"v">>,
           [record |-> Str(<<"u1">>), type |-> Str(<<"v1.PipelineRun">>), status |-> Num(1),
            end_time |-> Time(2)]),
    Result(B, <<"u3">>, 3, <<>>,
           [record |-> Str(<<"u3">>), type |-> Str(<<"v1.TaskRun">>), status |-> Num(2),
            end_time |-> Null]),
    Log(A, <<"l1">>, Kind(<<"TaskRun">>)),
    Log(A, <<"l2">>, Kind(<<"PipelineRun">>)),
    Log(A, <<"l3">>, Kind(<<"TaskRun">>)),
    Record(A, <<"u8">>, <<"u8">>, "v1.TaskRun",
           Data(A, <<"t", "1">>, Unfinished("Running"), Label("app", <<"x">>))) >>

Ids == <<6, 2, 9, 4, 11, 1, 8, 10, 3, 7, 5>>

MCRows == [i \in DOMAIN Unnumbered |-> [id |-> Ids[i]] @@ Unnumbered[i]]

MCNames == STRING

MCStored == 1..10
MCVolatile == {2, 11}

MCUsers == [alice |-> [name |-> "alice", groups |-> {}],
            bob   |-> [name |-> "bob", groups |-> {"dev"}]]

MCServiceAccounts == [sa |-> {"system:serviceaccounts"}]

MCGranted ==
    {"alice"} \X {"list records", "get records", "get logs"} \X {A, N}
      \cup {"dev"} \X {"list records", "list results", "list logs", "get records"} \X {All}
      \cup {"system:serviceaccounts"} \X {"list records"} \X {B}
      \cup {<<"bob", "impersonate", <<"sa">>>>, <<"bob", "impersonate", <<"alice">>>>}

MCChanging == {<<"alice", "list records", A>>, <<"bob", "impersonate", <<"ops">>>>}

NoRequest ==
    [kind |-> "records", tokens |-> <<"bob">>, imp |-> NoImpersonation, parent |-> All,
     result |-> All, name |-> <<>>, filter |-> NoFilter, mask |-> {}, size |-> 0, after |-> 0,
     summary |-> <<>>, group |-> <<>>, order |-> ""]

As(user, groups) == [NoImpersonation EXCEPT !.user = user, !.groups = groups]

\* Who asks.
Callers == <<
    [NoRequest EXCEPT !.tokens = <<>>],
    [NoRequest EXCEPT !.parent = <<>>],
    [NoRequest EXCEPT !.order = "type"],
    [NoRequest EXCEPT !.size = 60],
    [NoRequest EXCEPT !.size = 2, !.after = 3],
    [NoRequest EXCEPT !.tokens = <<"expired", "alice", "bob">>],
    [NoRequest EXCEPT !.tokens = <<"alice", "bob">>, !.parent = A],
    [NoRequest EXCEPT !.imp = As("", {"ops"})],
    [NoRequest EXCEPT !.imp = As("sa", {}), !.parent = B],
    [NoRequest EXCEPT !.imp = As("alice", {"ops"}), !.parent = A],
    [NoRequest EXCEPT !.imp = As("system:anonymous", {}), !.parent = A],
    [NoRequest EXCEPT !.kind = "log", !.tokens = <<"alice">>, !.parent = B, !.result = <<"u3">>, !.name = <<"u3">>] >>

\* What is filtered.
Text(s) == Const(Str(s))
Data2(f, g) == Select(Select(Ident("data"), f), g)
Filters == <<
    Call("==", Data2("metadata", "name"), Text(<<"t", "1">>)),
    Not(Call("&&", Call("==", Ident("parent"), Text(A)), Call("==", Ident("data_type"), Text(<<"v1.TaskRun">>)))),
    Call("&&", Call("startsWith", Data2("metadata", "name"), Text(<<"t">>)),
               Call("!=", Ident("data_type"), Text(<<"v1.PipelineRun">>))),
    Call("||", Call(">", Data2("status", "completionTime"), Stamp(Text(<<"2">>))),
               Call("==", Index(Metadata("labels"), "app"), Text(<<"x">>))),
    Call("==", Call("+", Call("+", Ident("parent"), Text(<<"/">>)), Ident("name")), Text(<<"a", "/", "u2">>)),
    In(Ident("name"), <<<<"u1">>, <<"u3">>>>),
    Call("endsWith", Ident("name"), Text(<<"u5">>)),
    Call("==", Select(Ident("data"), "kind"), Text(<<"x">>)),
    Call("==", Ident("name"), Const(Num(1))),
    Call("<", Data2("metadata", "name"), Stamp(Text(<<"2">>))),
    Call("<", Stamp(Text(<<"2">>)), Data2("metadata", "creationTimestamp")) >>

ResultFilters == <<
    Call("==", Index(Ident("annotations"), "k"), Text(<<"v">>)),
    Call("==", Select(Ident("summary"), "status"), Const(Num(1))),
    Call("<=", Ident("create_time"), Stamp(Text(<<"2">>))),
    Call(">=", Select(Ident("summary"), "end_time"), Stamp(Text(<<"1">>))),
    Call("==", Ident("uid"), Text(<<"u3">>)) >>

States == <<"total">> \o Statuses

Sums == <<
    [NoRequest EXCEPT !.kind = "summary", !.summary = States],
    [NoRequest EXCEPT !.kind = "summary", !.summary = States, !.group = <<"namespace">>, !.order = "total"],
    [NoRequest EXCEPT !.kind = "summary", !.summary = States, !.group = <<"pipeline">>],
    [NoRequest EXCEPT !.kind = "summary", !.summary = States, !.group = <<"day", "completionTime">>,
                      !.filter = Call("!=", Ident("data_type"), Text(<<"v1.PipelineRun">>))],
    [NoRequest EXCEPT !.kind = "summary", !.summary = <<"max_duration", "min_duration", "total_duration", "last_runtime">>,
                      !.group = <<"hour", "startTime">>],
    [NoRequest EXCEPT !.kind = "summary", !.summary = <<"total">>, !.group = <<"repository">>],
    [NoRequest EXCEPT !.kind = "summary", !.summary = <<"total">>, !.group = <<"day">>, !.order = "failed"],
    [NoRequest EXCEPT !.kind = "summary", !.summary = <<"">>] >>

\* A text that ends its literal.
Apostrophe == Call("==", Ident("name"), Text(<<"o", Quote, "hara">>))

Apostrophes == <<
    [NoRequest EXCEPT !.filter = Apostrophe, !.size = 1],
    [NoRequest EXCEPT !.filter = In(Ident("name"), <<<<Quote>>>>), !.size = 1, !.parent = A, !.tokens = <<"alice">>],
    [NoRequest EXCEPT !.kind = "results", !.size = 1,
                      !.filter = Call("==", Index(Ident("annotations"), Quote), Text(<<"v">>))],
    [NoRequest EXCEPT !.kind = "summary", !.summary = <<"total">>, !.parent = A, !.filter = Not(Apostrophe)] >>

\* Lists of logs.
Logs == [NoRequest EXCEPT !.kind = "logs", !.parent = A, !.size = 1]
OfTasks == Call("==", Select(Select(Ident("data"), "spec"), "kind"), Text(<<"TaskRun">>))

LogLists == <<
    [Logs EXCEPT !.filter = OfTasks],
    [Logs EXCEPT !.filter = OfTasks, !.order = "created_time"],
    [Logs EXCEPT !.order = "created_time desc", !.after = 3],
    [Logs EXCEPT !.order = "id"],
    [Logs EXCEPT !.size = -1],
    [Logs EXCEPT !.size = 60],
    [Logs EXCEPT !.filter = Call("==", Ident("parent"), Text(A))],
    [Logs EXCEPT !.filter = Call("==", Data2("metadata", "name"), Text(<<"t", "1">>))],
    [Logs EXCEPT !.tokens = <<"alice">>] >>

OfRecord(p) == <<"records">> \o p

Masks == <<
    {OfRecord(<<"name">>), OfRecord(<<"data", "value", "metadata">>), OfRecord(<<"data", "value", "metadata", "name">>)},
    {OfRecord(<<"data", "value", "status", "reason", "x">>), OfRecord(<<"uid", "x">>)},
    {<<"records">>, <<"next_page_token">>},
    {<<"">>} >>

\* Masks of a single Record.
Got == [NoRequest EXCEPT !.kind = "get", !.parent = A, !.result = <<"u1">>, !.name = <<"u2">>]

RecordMasks == <<
    {<<"name">>, <<"data", "value", "status", "reason">>, <<"data", "value", "status">>},
    {<<"records">>} >>

MCRequests ==
    Callers \o [k \in DOMAIN Filters |-> [NoRequest EXCEPT !.filter = Filters[k]]]
      \o [k \in DOMAIN ResultFilters |-> [NoRequest EXCEPT !.kind = "results", !.filter = ResultFilters[k]]]
      \o Apostrophes \o Sums \o LogLists \o [k \in DOMAIN Masks |-> [NoRequest EXCEPT !.mask = Masks[k]]]
      \o <<Got>> \o [k \in DOMAIN RecordMasks |-> [Got EXCEPT !.mask = RecordMasks[k]]]

NoCmd ==
    [cmd |-> "list", obj |-> "taskrun", context |-> <<>>, ns |-> <<>>, all |-> FALSE,
     label |-> <<>>, labelValid |-> TRUE, name |-> <<>>, uid |-> <<>>, pr |-> <<>>,
     limit |-> 1, single |-> TRUE, host |-> "", token |-> "", path |-> "", insecure |-> FALSE]

Given == [NoCmd EXCEPT !.host = "api", !.token = "alice", !.ns = A]

MCCommands == <<
    [NoCmd EXCEPT !.cmd = "set"],
    [NoCmd EXCEPT !.cmd = "set", !.host = "api"],
    [NoCmd EXCEPT !.cmd = "set", !.token = "alice", !.context = <<"dev">>],
    [NoCmd EXCEPT !.cmd = "reset"],
    [NoCmd EXCEPT !.cmd = "view", !.context = <<"none">>],
    [NoCmd EXCEPT !.cmd = "view"],
    [NoCmd EXCEPT !.name = <<"1">>, !.single = FALSE],
    [NoCmd EXCEPT !.all = TRUE, !.ns = A, !.host = "api", !.token = "alice"],
    [NoCmd EXCEPT !.context = <<"none">>],
    [Given EXCEPT !.token = ""],
    [Given EXCEPT !.host = "elsewhere", !.cmd = "describe", !.uid = <<"u2">>],
    [Given EXCEPT !.host = "elsewhere", !.cmd = "logs", !.name = <<"t", "1">>],
    [Given EXCEPT !.limit = 0],
    [Given EXCEPT !.label = <<<<"app", <<"x">>>>>>, !.name = <<"y">>, !.single = FALSE],
    [Given EXCEPT !.label = <<<<"app", <<"x">>>>>>, !.single = FALSE],
    [Given EXCEPT !.labelValid = FALSE],
    [Given EXCEPT !.pr = <<"p", "_", "1">>, !.limit = 5],
    [Given EXCEPT !.obj = "pipelinerun", !.token = "bob", !.ns = <<>>, !.all = TRUE, !.single = FALSE],
    [Given EXCEPT !.cmd = "describe"],
    [Given EXCEPT !.cmd = "describe", !.name = <<"t", "1">>],
    [Given EXCEPT !.cmd = "describe", !.uid = <<"u2">>],
    [Given EXCEPT !.cmd = "logs", !.name = <<"t", "1">>],
    [Given EXCEPT !.cmd = "logs", !.uid = <<"u4">>, !.ns = N],
    [Given EXCEPT !.cmd = "logs", !.obj = "pipelinerun", !.uid = <<"u5">>],
    [Given EXCEPT !.cmd = "describe", !.obj = "pipelinerun", !.name = <<"p">>] >>

Ctx(ns) == [cluster |-> "c", user |-> <<"admin", "c">>, ns |-> ns, ext |-> EmptyExtension]

MCKubeconfig == [current |-> <<"dev">>, contexts |-> <<"dev">> :> Ctx("a")]

MCMoreContexts == <<"prod">> :> Ctx("b")

MCStaticToken == <<"admin", "c">> :> "bob"

MCTyped == [EmptyExtension EXCEPT !.host = "elsewhere", !.token = "alice",
                                    !.insecure = "false"]

\* What a theorem of ClientProofs supposes of the commands' filters and the names.
ASSUME Supposed == FiltersAsk /\ UIDsDistinct
=============================================================================
