------------------------------ MODULE ReadApi ------------------------------
(***************************************************************************)
(* A read request on its way through the API server: the check of the      *)
(* caller's permissions with Kubernetes (auth), the query that its filter  *)
(* is converted to (lister, cel2sql), a page of rows or a summary of them  *)
(* (aggregator), and the selection of fields (fieldmask). The server keeps *)
(* no state between requests, so that one request at a time is followed,   *)
(* while permissions and rows change.                                      *)
(*                                                                         *)
(* A name is a text. A permission is a triple: who has it, for what, and   *)
(* where (a namespace, or All) or, to impersonate, whom. What filters mean *)
(* and what they are converted to is a parameter: see CelFilter. The text  *)
(* of a filter becomes part of the text of the statement. A text constant  *)
(* with a quote in it ends its SQL literal: what the statement does then   *)
(* is left open.                                                           *)
(***************************************************************************)
EXTENDS FilterValues

CONSTANTS
    Rows,            \* the rows that may be stored, a sequence
    Stored,          \* those stored at first
    Volatile,        \* those that come and go
    Users,           \* the users of the valid tokens: token -> [name, groups]
    ServiceAccounts, \* the service accounts: name -> groups
    Granted,         \* the permissions at first
    Changing,        \* the permissions that are granted and revoked
    PartialResponse, \* the feature gate of the field masks
    Names,           \* the names of fields, and the keys of JSON
    DefaultPage,     \* the page size of a request that gives none
    SmallestPage,    \* minPageSize of a list
    LargestPage,     \* maxPageSize
    Accepts(_),      \* a filter compiles and converts to SQL
    Typechecks(_),   \* and the database takes the condition
    Selects(_, _),   \* what the condition makes of a row
    Quoted(_),       \* a text of a filter holds a quote, which ends its literal
    AcceptsForLogs(_),  \* a filter of ListLogs compiles
    Means(_, _)      \* what a filter is of a row, by the rules of CEL

ASSUME ApiAssumption ==
    /\ Len(Rows) \in Nat /\ DOMAIN Rows = 1..Len(Rows)
    /\ \A i \in DOMAIN Rows : Rows[i].id \in Nat /\ DOMAIN Rows[i].data \subseteq Seq(Names)
    /\ \A i, j \in DOMAIN Rows : Rows[i].id = Rows[j].id => i = j
    /\ Stored \cup Volatile \subseteq DOMAIN Rows
    /\ DefaultPage \in Nat \ {0} /\ SmallestPage \in Nat \ {0} /\ LargestPage \in Nat \ {0}
    /\ {"name", "uid", "annotations", "data", "value", "metadata", "status", "records",
        "next_page_token"} \subseteq Names

\* In a request, any parent; in a permission, every namespace.
All == <<"-">>

VARIABLES
    stored,   \* the rows in the database, by their indexes
    granted,  \* the permissions
    call      \* the request that is served

apiVars == <<stored, granted, call>>

Idle == [phase |-> "idle"]

----------------------------------------------------------------------------
(* Impersonation                                                           *)

NoImpersonation == [user |-> "", groups |-> {}, uid |-> "", extra |-> {}]

AnyImpersonation(imp) == imp # NoImpersonation

\* ErrImpersonateUserRequired
InvalidImpersonation(imp) == imp.user = "" /\ AnyImpersonation(imp)

\* The resources that the requester must be allowed to impersonate, in order.
ResourceAttributes(imp) ==
    <<imp.user>> \o SetToSeq(imp.groups)
                 \o (IF imp.uid = "" THEN <<>> ELSE <<imp.uid>>)
                 \o SetToSeq(imp.extra)

\* The impersonated user. The groups of a service account are known, and every
\* user is in the group of the authenticated or of the unauthenticated ones.
UserInfo(imp) ==
    LET groups == IF imp.user \in DOMAIN ServiceAccounts /\ imp.groups = {}
                  THEN ServiceAccounts[imp.user] ELSE imp.groups
        more == IF imp.user = "system:anonymous" THEN {"system:unauthenticated"}
                ELSE IF groups \cap {"system:authenticated", "system:unauthenticated"} # {} THEN {}
                ELSE {"system:authenticated"}
    IN [name |-> imp.user, groups |-> groups \cup more]

----------------------------------------------------------------------------
(* Permissions                                                             *)

Allows(permissions, who, verb, where) ==
    \E w \in {who.name} \cup who.groups : \E p \in {where, All} : <<w, verb, p>> \in permissions

\* The identity that the request is authorized with.
Identity(req, user) == IF AnyImpersonation(req.imp) THEN UserInfo(req.imp) ELSE user

\* What a request needs, the namespace aside.
Verb(req) ==
    CASE req.kind = "results" -> "list results"
      [] req.kind = "records" -> "list records"
      [] req.kind = "logs"    -> "list logs"
      [] req.kind = "log"     -> "get logs"
      [] OTHER                -> "get records"

NoAnswer == [code |-> "none", rows |-> <<>>, body |-> <<>>, next |-> 0, summary |-> {},
             scope |-> {}, failed |-> FALSE]

Answered(a) == call' = [call EXCEPT !.phase = "answered", !.answer = a]

Refused(code) == Answered([NoAnswer EXCEPT !.code = code])

\* A request arrives.
Begin(req, from) ==
    call' = [phase |-> "check", from |-> from, req |-> req, token |-> 1, attr |-> 1,
             held |-> granted, start |-> req.after, rec |-> <<>>, answer |-> NoAnswer]

At(phase) == call.phase = phase

\* RBAC.Check, up to the first token.
Check ==
    /\ At("check")
    /\ IF call.req.parent = <<>> THEN Refused("InvalidArgument")
       ELSE IF InvalidImpersonation(call.req.imp) \/ call.req.tokens = <<>>
            THEN Refused("Unauthenticated")
       ELSE call' = [call EXCEPT !.phase = "token"]
    /\ UNCHANGED <<stored, granted>>

\* Mutant: one token too many.
NextTokenBeyond ==
    IF call.token <= Len(call.req.tokens)
    THEN call' = [call EXCEPT !.phase = "token", !.token = @ + 1, !.attr = 1]
    ELSE Refused("Unauthenticated")

\* The next token, if there is one.
NextToken ==
    IF call.token < Len(call.req.tokens)
    THEN call' = [call EXCEPT !.phase = "token", !.token = @ + 1, !.attr = 1]
    ELSE Refused("Unauthenticated")

Token == call.req.tokens[call.token]

User == Users[Token]

\* A TokenReview. A malformed or invalid token is passed over, and one that
\* Kubernetes fails to review.
ReviewToken ==
    /\ At("token")
    /\ \/ NextToken
       \/ /\ Token \in DOMAIN Users
          /\ call' = [call EXCEPT !.phase = IF AnyImpersonation(call.req.imp)
                                            THEN "impersonate" ELSE "access"]
    /\ UNCHANGED <<stored, granted>>

\* Mutant: the permission for the first resource is enough.
ImpersonateFirst ==
    /\ At("impersonate")
    /\ \/ Refused("Unauthenticated")
       \/ /\ Allows(granted, [User EXCEPT !.groups = {}], "impersonate",
                    <<ResourceAttributes(call.req.imp)[1]>>)
          /\ call' = [call EXCEPT !.phase = "access"]
    /\ UNCHANGED <<stored, granted>>

\* Impersonation.Check: a SubjectAccessReview for each resource, by the name of
\* the requester alone. A denial ends the request, and so does a failure.
Impersonate ==
    /\ At("impersonate")
    /\ \/ Refused("Unauthenticated")
       \/ /\ Allows(granted, [User EXCEPT !.groups = {}], "impersonate",
                    <<ResourceAttributes(call.req.imp)[call.attr]>>)
          /\ call' = IF call.attr < Len(ResourceAttributes(call.req.imp))
                     THEN [call EXCEPT !.attr = @ + 1]
                     ELSE [call EXCEPT !.phase = "access"]
    /\ UNCHANGED <<stored, granted>>

\* The SubjectAccessReview of the request itself.
ReviewAccess ==
    /\ At("access")
    /\ \/ NextToken
       \/ /\ Allows(granted, Identity(call.req, User), Verb(call.req), call.req.parent)
          /\ call' = [call EXCEPT !.phase = "query"]
    /\ UNCHANGED <<stored, granted>>

----------------------------------------------------------------------------
(* Rows                                                                    *)

\* The variables of a filter and the columns that they stand for.
FilterRow(r) ==
    IF r.table = "records"
    THEN [var  |-> [parent |-> Str(r.parent), result_name |-> Str(r.result),
                    name |-> Str(r.name), data_type |-> Str(r.type)],
          col  |-> [parent |-> Str(r.parent), result_name |-> Str(r.result),
                    name |-> Str(r.name), type |-> Str(r.type)],
          json |-> [data |-> r.data],
          summary |-> <<>>]
    ELSE [var  |-> [parent |-> Str(r.parent), uid |-> Str(r.name),
                    create_time |-> Time(r.created), update_time |-> Time(r.created)],
          col  |-> [parent |-> Str(r.parent), id |-> Str(r.name),
                    created_time |-> Time(r.created), updated_time |-> Time(r.created),
                    recordsummary_record |-> r.summary.record,
                    recordsummary_type |-> r.summary.type,
                    recordsummary_status |-> r.summary.status,
                    recordsummary_end_time |-> r.summary.end_time],
          json |-> [annotations |-> r.data, recordsummary_annotations |-> r.data],
          summary |-> r.summary]

Table(req) == IF req.kind = "results" THEN "results" ELSE "records"

\* The equality clauses: `-` stands for any parent and any Result.
InScope(req, r) ==
    /\ r.table = Table(req)
    /\ req.parent \in {All, r.parent}
    /\ r.table = "records" => req.result \in {All, r.result}

NoFilter == Const(Bool(TRUE))

\* A list or a summary has a filter that is converted to SQL.
Converts(req) == req.kind \in {"results", "records", "summary"}

\* filter.build joins the conditions as texts: one with a quote in it may make any
\* other condition of the whole, the equality clauses included.
Escapes(req) == Converts(req) /\ Quoted(req.filter)

\* The statement fails for its types, or for a row.
Fails(req) ==
    \/ ~Typechecks(req.filter)
    \/ \E i \in stored : InScope(req, Rows[i]) /\ Selects(req.filter, FilterRow(Rows[i])).t = "error"

\* The rows of the WHERE clause, whose conditions stay apart unless the request escapes.
Matching(req) ==
    {i \in stored : InScope(req, Rows[i]) /\ True(Selects(req.filter, FilterRow(Rows[i])))}

\* What a statement with another condition may select from.
TableRows(req) == {i \in stored : Rows[i].table = Table(req)}

\* order.build: i comes before j. The greater index is the newer row; without an
\* order the rows come by their identifiers, which tell nothing of their age.
Earlier(order, i, j) ==
    CASE order \in {"create_time desc", "created_time desc"} -> i > j
      [] order = "created_time" -> i < j
      [] OTHER -> Rows[i].id < Rows[j].id

\* Mutant: a page begins after a time, while the rows are ordered by their identifiers.
SortedById(order, S) ==
    [k \in 1..Cardinality(S) |->
        CHOOSE i \in S : Cardinality({j \in S : Earlier("", j, i)}) = k - 1]

Sorted(order, S) ==
    [k \in 1..Cardinality(S) |->
        CHOOSE i \in S : Cardinality({j \in S : Earlier(order, j, i)}) = k - 1]

\* parseOrderBy
ListOrders == {"", "create_time desc"}

----------------------------------------------------------------------------
(* Field masks                                                             *)

\* The field that holds the data of a Record, in JSON.
Value == <<"data", "value">>

\* The leaves of a message: its fields, and the JSON of a Record, the annotations
\* of a Result.
Message(r) ==
    LET top == IF r.table = "records" THEN Value ELSE <<"annotations">>
    IN [p \in {<<"name">>, <<"uid">>} \cup {top \o q : q \in DOMAIN r.data} |->
           IF p \in {<<"name">>, <<"uid">>} THEN r.name
           ELSE r.data[SubSeq(p, Len(top) + 1, Len(p))]]

StartsWith(p, q) == IsPrefix(q, p)

Longer(p, q) == IsStrictPrefix(q, p)

\* Mutant: the paths are taken as they come.
NormalizeNothing(paths) == paths

\* FieldMask.Normalize: a path that another one covers is dropped.
Normalize(paths) == {p \in paths : ~\E q \in paths : Longer(p, q)}

\* Build: a tree, whose leaves are the paths that no other one continues.
MaskLeaves(paths) == {p \in Normalize(paths) : ~\E q \in Normalize(paths) : Longer(q, p)}

\* Filter and FilterJSON. A scalar that the mask has a field of is kept in a
\* message. In JSON it is replaced: a path that leads nowhere gives null.
Filter(paths, message) ==
    LET leaves == MaskLeaves(paths)
        kept == {p \in DOMAIN message :
                    \/ \E m \in leaves : StartsWith(p, m)
                    \/ ~Longer(p, Value) /\ \E m \in leaves : Longer(m, p)}
        nulls == {m \in leaves : Longer(m, Value) /\ ~\E p \in DOMAIN message : StartsWith(p, m)}
    IN IF paths = {} THEN message
       ELSE [p \in kept \cup nulls |-> IF p \in nulls THEN <<"null">> ELSE message[p]]

\* UnaryServerInterceptor: the mask of the elements of a list is below the name
\* of the list; without it the list is empty.
Masked(req, message) ==
    LET below == {Tail(p) : p \in {q \in MaskLeaves(req.mask) : Head(q) = Table(req)}}
    IN IF ~PartialResponse \/ req.mask = {} THEN message
       ELSE IF req.kind = "get" THEN Filter(req.mask, message)
       ELSE IF below = {} THEN <<>>
       ELSE Filter(below, message)

\* A mask that does not name the page token takes it away.
Keeps(req, field) ==
    \/ ~PartialResponse \/ req.mask = {}
    \/ \E p \in MaskLeaves(req.mask) : Head(p) = field

----------------------------------------------------------------------------
(* Summaries                                                               *)

\* A leaf of the data of a Record.
Leaf(r, path) == IF path \in DOMAIN r.data THEN Str(r.data[path]) ELSE Null

\* NULL in, NULL out.
TimeOf(x) == IF x.t = "null" THEN Null ELSE Parsed(x.v)

Reason(r)  == Leaf(r, <<"status", "reason">>)
Start(r)   == TimeOf(Leaf(r, <<"status", "startTime">>))
End(r)     == TimeOf(Leaf(r, <<"status", "completionTime">>))
Creation(r) == TimeOf(Leaf(r, <<"metadata", "creationTimestamp">>))

Succeeded == {<<"Succeeded">>, <<"Completed">>}

Listed == Succeeded \cup {<<"Failed">>, <<"Cancelled">>, <<"Running">>}

\* Mutant: a completed run is not among the listed ones.
CountedTwice(f, r) ==
    LET is == Reason(r)
    IN CASE f = "total"     -> TRUE
         [] f = "succeeded" -> is.t = "string" /\ is.v \in Succeeded
         [] f = "failed"    -> is.t = "string" /\ is.v = <<"Failed">>
         [] f = "cancelled" -> is.t = "string" /\ is.v = <<"Cancelled">>
         [] f = "running"   -> is.t = "string" /\ is.v = <<"Running">>
         [] f = "others"    -> is.t = "string" /\ is.v \notin Listed \ {<<"Completed">>}

\* getCount, getStatus: the rows that are counted. A row that has no reason is
\* neither IN nor NOT IN.
Counts(f, r) ==
    LET is == Reason(r)
    IN CASE f = "total"     -> TRUE
         [] f = "succeeded" -> is.t = "string" /\ is.v \in Succeeded
         [] f = "failed"    -> is.t = "string" /\ is.v = <<"Failed">>
         [] f = "cancelled" -> is.t = "string" /\ is.v = <<"Cancelled">>
         [] f = "running"   -> is.t = "string" /\ is.v = <<"Running">>
         [] f = "others"    -> is.t = "string" /\ is.v \notin Listed

Statuses == <<"succeeded", "failed", "cancelled", "running", "others">>

\* getDuration, getTime: an aggregate passes over NULL, and is NULL of nothing.
Aggregate(f, S) ==
    LET time == IF f = "last_runtime" THEN {<<i, Start(Rows[i]).v>> : i \in {j \in S : Start(Rows[j]).t # "null"}}
                ELSE {<<i, End(Rows[i]).v - Start(Rows[i]).v>> :
                          i \in {j \in S : "null" \notin {Start(Rows[j]).t, End(Rows[j]).t}}}
        values == {x[2] : x \in time}
    IN CASE f \in {"max_duration", "last_runtime"} -> IF values = {} THEN Null ELSE Num(Max(values))
         [] f = "min_duration"   -> IF values = {} THEN Null ELSE Num(Min(values))
         [] f = "total_duration" -> IF values = {} THEN Null
                                    ELSE Num(MapThenSumSet(LAMBDA x : x[2], time))
         [] OTHER                -> Num(Cardinality({i \in S : Counts(f, Rows[i])}))

SummaryFuncs == {"total", "max_duration", "min_duration", "total_duration", "last_runtime"}
                  \cup Range(Statuses)

\* newAggregator: an empty summary is completed to <<"", "total">>, which fails
\* for its first part.
SummaryOf(req) == IF req.summary = <<"">> THEN <<"", "total">> ELSE req.summary

TimeGroups == {"day", "hour"}

\* checkAndBuildGroupQuery, checkAndBuildOrderBy
ValidGroup(g) ==
    \/ g = <<>>
    \/ /\ Head(g) \in TimeGroups
       /\ \/ Len(g) = 1
          \/ Len(g) = 2 /\ g[2] \in {"completionTime", "startTime"}
    \/ g \in {<<"namespace">>, <<"pipeline">>, <<"repository">>}

ValidOrder(req) == req.order # "" /\ req.group # <<>> => req.order \in Range(SummaryOf(req))

Aggregates(req) ==
    /\ \A i \in DOMAIN SummaryOf(req) : SummaryOf(req)[i] \in SummaryFuncs
    /\ ValidGroup(req.group) /\ ValidOrder(req)

\* DATE_TRUNC: two hours are a day.
Trunc(unit, x) == IF x.t = "null" \/ unit = "hour" THEN x ELSE Time((x.v + 1) \div 2)

\* CONCAT(namespace, '/', what), which passes over NULL.
Qualified(r, what) ==
    LET text(x) == IF x.t = "null" THEN <<>> ELSE x.v
    IN Str(text(Leaf(r, <<"metadata", "namespace">>)) \o <<"/">> \o text(what))

GroupOf(g, r) ==
    CASE g = <<>>             -> Null
      [] g = <<"namespace">>  -> Leaf(r, <<"metadata", "namespace">>)
      [] g = <<"pipeline">>   -> Qualified(r, Leaf(r, <<"metadata", "labels", "pipeline">>))
      [] g = <<"repository">> -> Qualified(r, Leaf(r, <<"metadata", "annotations", "repository">>))
      [] OTHER                -> Trunc(g[1], IF Len(g) = 1 THEN Creation(r)
                                             ELSE IF g[2] = "startTime" THEN Start(r) ELSE End(r))

\* One line for each group; without groups one line, be there rows or not.
Summary(req, S) ==
    LET groups == {GroupOf(req.group, Rows[i]) : i \in S}
                     \cup (IF req.group = <<>> THEN {Null} ELSE {})
    IN {[group |-> g,
         val   |-> [f \in Range(SummaryOf(req)) |->
                       Aggregate(f, {i \in S : GroupOf(req.group, Rows[i]) = g})]] : g \in groups}

----------------------------------------------------------------------------
(* Answers                                                                 *)

\* A list of logs takes a page that is too large for the largest one.
PageSize(req) ==
    IF req.size = 0 THEN DefaultPage
    ELSE IF req.kind = "logs" /\ req.size > LargestPage THEN LargestPage
    ELSE req.size

\* limit.build, pageSize
ValidPage(req) ==
    IF req.kind = "logs" THEN req.size >= 0 ELSE PageSize(req) \in SmallestPage..LargestPage

\* A page of rows, and the token of the next one if there are more.
ListPage(req, page, more) ==
    [NoAnswer EXCEPT !.code = "OK", !.rows = page, !.scope = stored,
        !.body = [k \in DOMAIN page |-> Masked(req, Message(Rows[page[k]]))],
        !.next = IF more /\ Keeps(req, "next_page_token") THEN Last(page) ELSE 0]

\* ListResults, ListRecords: the rows after the one in the page token, one more
\* than the page holds. A statement that its filter escapes from fails, or it
\* selects some rows, in some order.
List ==
    /\ At("query") /\ call.req.kind \in {"results", "records"}
    /\ LET req == call.req
           hits == {i \in Matching(req) : req.after = 0 \/ Earlier(req.order, req.after, i)}
           page == SubSeq(Sorted(req.order, hits), 1, Min({PageSize(req), Cardinality(hits)}))
       IN IF ~Accepts(req.filter) \/ req.order \notin ListOrders \/ ~ValidPage(req)
          THEN Refused("InvalidArgument")
          ELSE \/ Refused("Internal")
               \/ /\ ~Quoted(req.filter) /\ ~Fails(req)
                  /\ Answered(ListPage(req, page, Cardinality(hits) > PageSize(req)))
               \/ /\ Quoted(req.filter)
                  /\ \E any \in SeqOf(TableRows(req), PageSize(req)), more \in BOOLEAN :
                        /\ more => Len(any) = PageSize(req)
                        /\ Answered(ListPage(req, any, more))
    /\ UNCHANGED <<stored, granted>>

\* record.Match: `name` is the whole name of the Record here.
LogRow(r) ==
    [FilterRow(r) EXCEPT !.var.name =
        Str(r.parent \o <<"/results/">> \o r.result \o <<"/records/">> \o r.name)]

Match(req, i) == Means(req.filter, LogRow(Rows[i]))

LogRecordType == <<"v1alpha3.Log">>

\* orderBy: by a time, in a direction.
LogOrders == {"", "created_time", "created_time desc"}

\* Batcher: as many as are wanted, whatever the last batch brought.
BatchSize(req) == PageSize(req) + 1

\* The next batch of log Records: with no order, any of them. The order is by the
\* time of creation, while the batch begins after an identifier.
Batches(req) ==
    LET S == {i \in stored : /\ InScope(req, Rows[i]) /\ Rows[i].type = LogRecordType
                             /\ Rows[i].id > call.start}
        n == Min({BatchSize(req), Cardinality(S)})
    IN IF req.order = "" THEN UNION {SetToSeqs(T) : T \in kSubset(n, S)}
       ELSE {SubSeq(Sorted(req.order, S), 1, n)}

\* The positions in a batch of the rows that match.
Hits(req, batch) == {n \in DOMAIN batch : True(Match(req, batch[n]))}

\* The rows at some positions, in their order.
Picked(batch, P) ==
    [k \in 1..Cardinality(P) |->
        batch[CHOOSE n \in P : Cardinality({m \in P : m < n}) = k - 1]]

\* The rows of a batch that are looked at: up to the last one that is wanted.
Looked(req, batch) ==
    LET enough == {n \in DOMAIN batch :
                     Len(call.rec) + Cardinality({m \in Hits(req, batch) : m <= n}) >= BatchSize(req)}
    IN IF enough = {} THEN batch ELSE SubSeq(batch, 1, Min(enough))

\* The last one goes into the page token instead of the page; the next page
\* begins after it.
LogPage(req, rec) ==
    LET page == SubSeq(rec, 1, Min({Len(rec), PageSize(req)}))
    IN [NoAnswer EXCEPT !.code = "OK", !.scope = stored, !.rows = page,
            !.body = [k \in DOMAIN page |-> Masked(req, Message(Rows[page[k]]))],
            !.next = IF Len(rec) > PageSize(req) /\ Keeps(req, "next_page_token")
                     THEN Rows[Last(rec)].id ELSE 0]

\* ListLogs, with getFilteredPaginatedSortedLogRecords: batches of one more than
\* the page holds, until enough of them match or there are no more.
ListLogs ==
    /\ At("query") /\ call.req.kind = "logs"
    /\ LET req == call.req
       IN IF ~AcceptsForLogs(req.filter) \/ req.order \notin LogOrders \/ ~ValidPage(req)
          THEN Refused("InvalidArgument")
          ELSE \/ Refused("Internal")
               \/ \E batch \in Batches(req) :
                     LET seen == Looked(req, batch)
                         rec == call.rec \o Picked(seen, Hits(req, seen))
                     IN IF \E k \in DOMAIN seen : Match(req, seen[k]).t # "bool"
                        THEN Refused("InvalidArgument")
                        ELSE IF Len(rec) > PageSize(req) \/ Len(batch) < BatchSize(req)
                        THEN Answered(LogPage(req, rec))
                        ELSE call' = [call EXCEPT !.rec = rec, !.start = Rows[Last(batch)].id]
    /\ UNCHANGED <<stored, granted>>

\* A summary of some rows.
SummaryAnswer(req, S) ==
    [NoAnswer EXCEPT !.code = "OK", !.scope = stored, !.summary = Summary(req, S)]

\* GetRecordListSummary. The error of the statement is not looked at: a summary
\* of nothing is the answer.
GetRecordListSummary ==
    /\ At("query") /\ call.req.kind = "summary"
    /\ LET req == call.req
       IN IF ~Aggregates(req) \/ ~Accepts(req.filter) THEN Refused("InvalidArgument")
          ELSE \/ Answered([NoAnswer EXCEPT !.code = "OK", !.failed = TRUE])
               \/ /\ ~Quoted(req.filter) /\ ~Fails(req)
                  /\ Answered(SummaryAnswer(req, Matching(req)))
               \/ /\ Quoted(req.filter)
                  /\ \E S \in SUBSET TableRows(req) : Answered(SummaryAnswer(req, S))
    /\ UNCHANGED <<stored, granted>>

\* GetRecord, and GetLog of the log plugin, which finds the Record first.
GetRecord ==
    /\ At("query") /\ call.req.kind \in {"get", "log"}
    /\ LET req == call.req
           hits == {i \in stored : /\ Rows[i].table = "records"
                                   /\ <<req.parent, req.result, req.name>>
                                         = <<Rows[i].parent, Rows[i].result, Rows[i].name>>}
       IN \/ Refused("Internal")
          \/ hits = {} /\ Refused("NotFound")
          \/ \E i \in hits :
                Answered([NoAnswer EXCEPT !.code = "OK", !.rows = <<i>>, !.scope = stored,
                             !.body = IF req.kind = "log" THEN <<>>
                                      ELSE <<Masked(req, Message(Rows[i]))>>])
    /\ UNCHANGED <<stored, granted>>

----------------------------------------------------------------------------
(* The world around: rows are written and purged, permissions change.      *)

\* A new row is the newest one.
Write ==
    /\ \E i \in Volatile :
          /\ \A j \in stored : j < i
          /\ stored' = stored \cup {i}
    /\ UNCHANGED <<granted, call>>

Purge ==
    /\ \E i \in Volatile \cap stored : stored' = stored \ {i}
    /\ UNCHANGED <<granted, call>>

Grant ==
    /\ \E p \in Changing :
          granted' = IF p \in granted THEN granted \ {p} ELSE granted \cup {p}
    /\ call' = IF At("idle") THEN call ELSE [call EXCEPT !.held = @ \cup granted']
    /\ UNCHANGED stored

ApiInit ==
    /\ stored = Stored
    /\ granted = Granted
    /\ call = Idle

Serve ==
    \/ Check \/ ReviewToken \/ Impersonate \/ ReviewAccess
    \/ List \/ ListLogs \/ GetRecordListSummary \/ GetRecord

----------------------------------------------------------------------------
(* Properties                                                              *)

Ok(kinds) == At("answered") /\ call.req.kind \in kinds /\ call.answer.code = "OK"

\* The row i may be missing on the page with the rows: the page began after it, or
\* it is full of rows that come before it.
MayMiss(req, rows, i) ==
    \/ req.after # 0 /\ ~Earlier(req.order, req.after, i)
    \/ Cardinality(rows) = PageSize(req) /\ \A j \in rows : Earlier(req.order, j, i)

\* lister, order and limit: a list holds the rows that are in the parent and the
\* Result of the request and that its SQL condition is true of, and no others; one
\* is missing only because the page is full or began after it. A filter with a
\* quote in one of its texts is left out: its condition is another one.
PageExact ==
    Ok({"results", "records"}) /\ ~Quoted(call.req.filter) =>
        \A i \in call.answer.scope :
            LET req  == call.req
                rows == Range(call.answer.rows)
                hit  == InScope(req, Rows[i]) /\ True(Selects(req.filter, FilterRow(Rows[i])))
            IN /\ i \in rows => hit
               /\ hit => i \in rows \/ MayMiss(req, rows, i)

\* A list holds the rows that its filter is true of by the rules of CEL, and no
\* row that it is false of, whatever the conversion to SQL made of the filter. A
\* row may be missing only because the page is full or began after it. A list of
\* logs, for which the filter is not converted, holds none but such rows. A filter
\* with a quote in one of its texts, which cel2sql does not escape, is left out.
FilterMeans ==
    /\ Ok({"logs"}) => \A k \in DOMAIN call.answer.rows : True(Match(call.req, call.answer.rows[k]))
    /\ Ok({"results", "records"}) /\ ~Quoted(call.req.filter) =>
        \A i \in call.answer.scope :
            LET req  == call.req
                rows == Range(call.answer.rows)
                cel  == Means(req.filter, FilterRow(Rows[i]))
            IN InScope(req, Rows[i]) =>
                 /\ i \in rows => ~False(cel)
                 /\ True(cel) => i \in rows \/ MayMiss(req, rows, i)

\* The rows that an answer tells of.
Told == IF call.req.kind = "summary" THEN {i \in call.answer.scope : InScope(call.req, Rows[i])}
        ELSE Range(call.answer.rows)

\* Nothing is answered that was not granted: one of the tokens belongs to a user
\* who was allowed to impersonate all that the request impersonates, and the
\* identity that results had, at some time during the request, the permission for
\* the namespace of every row that the answer tells of. The last is not said of a
\* list or a summary whose filter has a quote in one of its texts: the text of the
\* filter may undo the clause for the parent.
NothingUngranted ==
    At("answered") /\ call.answer.code \in {"OK", "NotFound", "Internal"} =>
        \E k \in DOMAIN call.req.tokens :
            LET token == call.req.tokens[k]
                imp   == call.req.imp
            IN /\ token \in DOMAIN Users
               /\ AnyImpersonation(imp) =>
                     \A a \in {imp.user, imp.uid} \cup imp.groups \cup imp.extra :
                         a = "" \/ Allows(call.held, [Users[token] EXCEPT !.groups = {}],
                                          "impersonate", <<a>>)
               /\ Allows(call.held, Identity(call.req, Users[token]), Verb(call.req), call.req.parent)
               /\ Escapes(call.req) \/
                     \A i \in Told : Allows(call.held, Identity(call.req, Users[token]),
                                            Verb(call.req), Rows[i].parent)

\* The lines of a summary add up: the totals of the groups to the rows that the
\* SQL condition is true of, and the states of the runs to the total, but for the
\* runs that have no state yet. A filter with a quote in one of its texts is left
\* out.
SummaryAddsUp ==
    Ok({"summary"}) /\ ~call.answer.failed /\ ~Quoted(call.req.filter)
      /\ {"total"} \cup Range(Statuses) \subseteq Range(call.req.summary) =>
        LET lines == call.answer.summary
            rows == {i \in call.answer.scope :
                       /\ InScope(call.req, Rows[i])
                       /\ True(Selects(call.req.filter, FilterRow(Rows[i])))}
            \* what the lines say, each counted from one
            sum(f) == Cardinality(UNION {{l} \X (1..l.val[f].v) : l \in lines})
        IN /\ sum("total") = Cardinality(rows)
           /\ sum("total") = sum("succeeded") + sum("failed") + sum("cancelled") + sum("running")
                               + sum("others") + Cardinality({i \in rows : Reason(Rows[i]).t = "null"})

\* Of every row on a page that a field mask was given for, exactly those fields
\* are left that one of the paths leads to or through; what else there is is null.
MaskExact ==
    Ok({"records", "get"}) /\ PartialResponse /\ call.req.mask # {} =>
        \A k \in DOMAIN call.answer.rows :
            LET full == Message(Rows[call.answer.rows[k]])
                left == call.answer.body[k]
                path(p) == IF call.req.kind = "get" THEN p ELSE <<"records">> \o p
            IN /\ \A p \in DOMAIN full :
                    LET covered == \E m \in call.req.mask : StartsWith(path(p), m)
                    IN /\ covered => p \in DOMAIN left /\ left[p] = full[p]
                       /\ p \in DOMAIN left /\ ~covered =>
                             \E m \in call.req.mask : Longer(m, path(p))
               /\ \A p \in DOMAIN left \ DOMAIN full :
                    left[p] = <<"null">> /\ path(p) \in call.req.mask
=============================================================================
