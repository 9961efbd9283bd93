# Tekton Results: models, checks and proofs

Tekton Results archives the runs of a Tekton installation. Its *watcher* follows
the PipelineRuns, TaskRuns and CustomRuns of a cluster and writes them to an *API
server*, which keeps them in two database tables; runs may then be deleted from
the cluster. What must not go wrong is that a run is deleted and not archived,
archived in a state it has left, or archived under a Result that is gone; and that
the archive tells its readers something else than it holds. All of
this is decided by steps of several actors (two or more API requests on one row;
users, Tekton, an informer that lags, workers that retry), which is why it is
modelled here.

## Inventory

| Component | State | Operations | Hard part | What makes it correct |
|---|---|---|---|---|
| API server: Results and Records (`pkg/api/server/v1alpha2`, `db`) | tables `results`, `records`; per request what it read | Create, Update, Delete of each; Get | handlers are several SQL statements at READ COMMITTED; gorm's `Save` inserts what it cannot update | Records belong to existing Results; names, keys and identities are stable; etags guard updates |
| Watcher (`pkg/watcher`) | work queue, informer caches, the copy a worker holds; annotations and finalizers on runs | reconcile: ensure Result, upsert Record, events, annotations, delete; finalize | stale copies, lost patches, retries, restarts, deadlines | marks are truthful; no run is released before it is archived; deletions and archiving happen in the end |
| API server: lists (`lister`) | page token held by the client | List with filter, order, page size | rows change between two pages; NULL columns | each row that stays is listed exactly once |
| API server: logs (`logs.go`, `log/`, `pkg/logs`) | log Record status, stored bytes | UpdateLog stream, GetLog, DeleteLog, ListLogs | upload completes after the Record says so; streams break off | a log that is marked stored is there in full |
| Watcher: log streaming (`dynamic.go` sendLog) | a goroutine per reconciliation | create log Record, stream | shares the run with the reconciliation, outlives it | a log is streamed in the end |
| Retention agent (`pkg/retention`) | policy, cron | delete expired Results | races with the watcher, configuration changes | only expired Results go |
| Converter (`pkg/converter`) | Records of old types | convert batches | a Record that cannot be converted | it terminates, nothing is lost |
| API server: log plugin (`plugin/`) | none; Loki, a bucket or Splunk hold the lines | GetLog over gRPC and HTTP | lines arrive late, a search is polled, an answer breaks off half-way | only lines of the run, in order, all of them or an error |
| API server: authorization (`auth/`) | none; roles are in Kubernetes | Check for every request, impersonation | several tokens and several reviews, any of which may fail, while roles change | nothing is told that was not granted |
| API server: CEL filters and summaries (`cel`, `cel2sql`, `lister/aggregator.go`) | none | compile, convert to SQL, aggregate | NULL, JSON paths, coercions, types | SQL means what the CEL expression means; summaries add up |
| Field masks (`internal/fieldmask`) | none | select the fields of an answer | nested and overlapping paths, JSON inside a message | exactly the fields that were asked for |
| Command line client (`pkg/cli`) | address and token in the kubeconfig file | config set, reset, view; list, describe, logs | other tools write the file; several requests per command | the configuration persists; what is shown is what was asked for |
| Metrics, commands, leader election | counters, flags | | | |

The watcher calls the API server over gRPC, the API server calls PostgreSQL
through gorm, the retention agent and the converter work on the same tables
directly. Users, pruners, Tekton and the garbage collector act on the runs in
Kubernetes, and the watcher hears of it through informers.

`PROJECT.json` lists the components, the hazards at their lines, and for each
definition the lines it models.

## Modules

### `ResultsStore`: the CRUD handlers

One action per SQL statement. A handler is a chain of them: what it read stays in
`rpc[c]` and may be outdated when the next statement runs. `results` and
`records` are sets of rows.

| Code | Model |
|---|---|
| `CreateResult` | `CreateResult` (one INSERT) |
| `UpdateResult` | `UpdateResultRead` (SELECT, etag, new row), `UpdateResultSave` (UPDATE), `UpdateResultInsert` (gorm's fallback INSERT ... ON CONFLICT) |
| `DeleteResult` | `DeleteResultRead`, `DeleteResultExec` |
| `CreateRecord` | `CreateRecordLookup` (the Result's id), `CreateRecordInsert` |
| `UpdateRecord` | `UpdateRecordRead`, `UpdateRecordSave`, `UpdateRecordInsert` |
| `DeleteRecord` | `DeleteRecordRead`, `DeleteRecordExec` |
| a request that is cut off | `Abort` |

`Delete(&db.Result{}, r)` makes every non-zero column of `r` a condition, so
`Matching` compares the whole row. The unique indexes, the foreign key and its
cascade are `ResultNameFree`, `RecordNameFree`, `ResultExists` and `Cascade`. An
etag is made of the row's id and its update time in nanoseconds; the model's
clock advances with every reading, so the update time stands for the etag. Left
out: the parent (equal in all rows), validation and authorization of requests,
which reject without touching the tables, and reads (`Get...`).

### `Watcher`: archiving, deleting and finalizing runs

`obj` is the cluster, `feed` what the informer has not delivered, `cache` what the
listers answer, `queued` the work queue, `w[r]` the worker on run `r` with the copy
it reconciles; `record`, `result` and `events` are the archive as the watcher sees
it. One action per remote call:

| Code | Model |
|---|---|
| generated reconciler (knative) | `Start`, `SetFinalizer`, `EndReconcile`, `ClearFinalizer` |
| early returns of `ReconcileKind` | `Skipped` |
| `ensureResult` | `GetResult`, `CreateResult`, `UpdateResult`, and again `EnsureSummary` |
| `upsertRecord` | `UpsertRecord` |
| `storeEvents` | `GetEventListRecord`, `PutEventList`, `PatchEvents` |
| `addResultsAnnotations`, `addChildReadyForDeletionAnnotations`, `addStoredAnnotations` | `PatchIds`, `PatchReady`, `PatchStored`, all by `Patch` |
| `deleteUponCompletion` | `deleteUponCompletion`, `areAllChildRunsReadyForDeletion` |
| `finalize` of the three kinds | `finalize`, `Releasable` and its parts |
| error returns, restart, resync | `CallFails`, `Restart`, `Resync` |
| Kubernetes, Tekton, users | `Create`, `Finish`, `UserDelete`, `CascadeDelete`, `Annotate`, `Tick`, `Sync` |

`Patch` is a server-side apply of *all* managed annotations of the worker's copy:
what the copy lacks the server drops, which is how a stale copy can undo a mark.
The finalizer is set and cleared by server-side apply without a resource version;
setting it answers with the run as it is, which may be newer than the cache.

Abstractions. A Record's data is the state of the run it describes (`running`,
`done`, or done without a completion time). Time is counted in ticks after the
completion, up to `MaxAge`, which is beyond every duration configured. A requeue
after some time is a key back in the queue. A completed PipelineRun's status lists
all its children. The upsert of a Record is one step: only the one worker of a run
writes it, and Records are not deleted here. A failed call is one that had no
effect. Left out: the log goroutine, which is in `Logs` (with the logs API on,
`finalize` returns at once), the `managedBy` filter, the migration of finalizers
set by older versions, owners other than PipelineRuns, annotations that Tekton
copies from a PipelineRun to its children, and metrics.

### `Pagination`: ListResults and ListRecords

A client goes from page to page, each request on its own at the server, while
`Insert`, `Delete` and `Update` change `rows`. A page is the set `p` of the first
rows of the query (`IsPage`), and all the server knows of the earlier pages is in
`token`. `seen` and `steady` are what the properties speak of: the rows delivered,
and the rows that were there from the start and are unchanged.

| Code | Model |
|---|---|
| `newLister`, `List` without a token | `ListFirst` |
| `List` with a token | `ListNext`; `ListRefused` (`validateToken`), `ListFails` (`order_by` dropped: the SQL is malformed) |
| `filter`, `order`, `offset`, `limit` (`build`) | `Match`, `Before`, `Offset`, `IsPage` |
| `makePageTokenGenerator`, `getTimestamp` | `TokenAfter`, `TokenTime` |

A time is a number and NULL is `Null`; PostgreSQL sorts NULLs last (first when
descending) and no comparison with NULL is true. `Match` stands for the CEL filter
and for the parent, which the token carries likewise. The code accepts page sizes
from 5 to 10000; the model takes any, and the runs use small ones with as small
tables. Base64 and protobuf encoding of the token lose nothing and are left out.

### `ReadApi`, `FilterValues` and `CelFilter`: a read request

One request at a time is followed from its arrival to its answer (`call`), while
`Write`, `Purge` and `Grant` change the rows and the permissions between its steps.

| Code | Model |
|---|---|
| `RBAC.Check`, one step per remote review | `Check`, `ReviewToken`, `Impersonate`, `ReviewAccess` |
| `cel`, `cel2sql` | `Compiles`, `TypeOf`; `Interpret` makes a condition, `Sql` is what PostgreSQL makes of it |
| `ListResults`, `ListRecords` | `List` |
| `ListLogs`, which evaluates the filter itself, batch by batch | `ListLogs`, `Batches`, `Looked`, `LogPage` |
| `GetRecordListSummary`, `Aggregator` | `GetRecordListSummary`, `Summary`, `Aggregate`, `Counts` |
| `GetRecord`, `GetLog` (the Record) | `GetRecord` |
| `fieldmask` | `Normalize`, `MaskLeaves`, `Filter`, `Masked`, `Keeps` |

`ReadApi` takes the language of filters as a parameter: which filters it `Accepts`,
which ones the database `Typechecks`, what the condition `Selects`, which ones are
`Quoted` and what the filter `Means`. `CelFilter` defines that language and
`MCClient.cfg` gives it to the model; `FilterValues` has the values and expressions that
both use. Nothing that is proved about requests depends on the language.

`cel2sql` writes texts and keys of a filter between quotes as they are, and
`filter.build` joins its condition to the clauses for the parent and the Result as text.
A filter is `Quoted` if one of its texts or keys holds an apostrophe (`HoldsQuote`); its
statement fails or has some other condition, in which those clauses need not count. What
that is depends on the text, so that `List` and `GetRecordListSummary` fail then or take
any rows of the table, in any order (`TableRows`). For all other filters the conditions
stay apart, and `Matching` is their conjunction. A JSON text in a `@>` condition has the
same trouble with `"` and backslashes, which no filter of the model holds.

`Cel` is the reference: what an expression means by the rules of CEL, where a field
that is missing is an error. `Sql` has NULL there, and `FilterMeans` says that the two
never contradict each other in what a list holds; `PageExact` says of any condition that
a page is exactly the next rows it is true of. A text is a sequence of characters or parts, so that
`startsWith`, `+` and the comparison of names are computed; a timestamp is one digit.
Left out: regular expressions, parts of dates, numbers in JSON, `avg_duration`, groups
by minute, week, month and year, and the constructs listed under *Known
divergences*.

### `Client`: the command line client with the API server behind it

`Client` extends `ReadApi`: a command sends its requests to the same server as
`Other` clients do. `file` is the kubeconfig file, which `UseContext`, `SetContext`
and `Project` (kubectl and oc) write at any time; `cli` is the running command.

| Code | Model |
|---|---|
| `InitParams`, `NewConfig`, `LoadClientConfig`, `BuildDirectClientConfig` | `InitParams`, `Loaded`, `ClientConfig`, `Direct`: the file is read twice |
| `config set`, `reset`, `view` | `Set`, `Prompt`, `Persist`, `Reset`, `View` |
| `list` | `ListRuns`, `ShowPage`, `More` |
| `describe`, `logs` | `GetByUID` or `FindByName`, `GotRecord`, `Found`, `Show`, `CopyLog` |
| `BuildFilterString` | `BuildFilter`: the expression that `CelFilter` evaluates |
| `PreRunE` of `list`, which returns before the name when there is a label | `ListName` |

`Asks` is what a user asks for with arguments and flags, the name and the label both.
Of a list that has both (`DropsName`) the code heeds the label only. `ShownIsAsked`
makes this one exception and says that such a list shows runs with the label (`Heeded`);
without it the property is violated by the list by label and name of the run `client`.

`configured` is what was configured last for a cluster and a user; only the
properties use it. Left out: the older commands (`result`, `records`, `logs`),
formatting and completion.

### `Logs` and `LogArchive`: the log of a run

`Logs` has the goroutines that send the log (`sendLog`, `streamLogs`, `BufferedLog`),
the `UpdateLog` handlers with `handleReturn`, the file, S3 and GCS streams, `GetLog`
and `DeleteLog`. One action per remote call or message; the chunks in flight are the
difference of those sent and those received. A handler that gets an error and one
whose caller is gone still run `handleReturn` to its end. `Fault` is any call that
fails; `Timeout`, `WatcherCrash` and `ServerCrash` end a stream, a goroutine or a handler.

`LogArchive` is what readers and senders may rely on: the log becomes complete in
one step and stays so, a stream is confirmed only when the log is complete, a reader
is served the whole log or nothing. `Logs` implements it (`ArchiveSpec`), with two
excuses spelt out in `Excused`: a deletion or a failed AbortMultipartUpload, and GCS
with logs of more than one chunk, where the code keeps the last chunk only (run
`logs_gcs`).

### `Maintenance`: retention agent and converter

Both work on the tables without the API. `rec[r]` is the row of a run. A job is the
copy of the policies, then that of the default, then three DELETE statements, each of
which selects (`job[j].selected`) and then deletes what is still there. `ChangeConfig`
replaces the policy and the cron under a running job, so that jobs overlap. The
converter reads a batch and writes it back by an UPDATE per row; `Put` is the watcher.
A value in the ConfigMap that does not parse is `Bad`, one that is not set `Absent`.

### `LogPlugin`: logs from Loki, a bucket or Splunk

Containers write lines, the forwarder delivers them later (`Deliver`), the watcher
archives the run, and a request arrives at any moment, over gRPC or HTTP. `Handle` is
the handler, one action per remote call; `setup` is the configuration, which the start
of the server accepts, disables or dies of. In a bucket each delivery is an object,
and objects are merged by their times, which are whole seconds: `InsertionSort` is
the length up to which Go's sort keeps the order of equal elements (12).

## Runs

| Run | Instance | Shows |
|---|---|---|
| `store` | one Result name, one Record name, two payloads, two requests, four ids, five timestamps | integrity of the two tables under every interleaving of statements |
| `store_etag` | the same | *violated*: an update succeeds with an etag that another update, in the trace one without an etag, has made outdated since it was compared |
| `watcher_single` | a TaskRun; incomplete runs not stored, events, required annotation, grace period; informer up to 3 versions behind; one failure | the stored mark is truthful, the finalizer goes neither early nor never, a completed run is archived |
| `watcher_family` | a PipelineRun and a TaskRun; grace period; pruners delete both | the ready mark is truthful; a PipelineRun waits for the children its listers show |
| `watcher_summary` | a PipelineRun and a CustomRun; default storing, immediate deletion | the summary ends up right, completed runs are reclaimed |
| `watcher_lost_run` | a TaskRun, default storing | *violated*: a run that completes while being deleted is released unarchived |
| `pagination` | up to three rows, two keys, two tags, pages of one, two changes between pages | no row that stays is lost, pages continue each other, the list ends |
| `logs` | two goroutines, logs of 0 to 2 chunks, each storage type, S3 parts of two chunks, one fault, a reader and a deletion | what is served is the log, streams end, the log is stored in the end, the archive is implemented |
| `logs_gcs` | one goroutine, two chunks, GCS, no fault | *violated*: the stream is confirmed and only the second chunk is kept |
| `maintenance` | a PipelineRun with a child, a TaskRun and a CustomRun; two jobs, one change of the ConfigMap, one write, one failed statement, batches of two | a Result is condemned only by a policy in force, nothing deleted is revived, what has expired goes, old Records are converted |
| `log_plugin` | two containers, three lines, every back end and, between them, every type of Record (TaskRun of v1 and v1beta1, PipelineRun, CustomRun, Log), one fault | own lines only, in order, complete unless the answer shows that it is not; every request is answered |
| `client` | eleven rows of three namespaces, of which two come and go, two permissions that change, 56 requests, four of them with an apostrophe in the filter, 25 commands | pages, filters, permissions, summaries, masks, configuration and what commands show |

Bounds. In `store`, four ids let a Result and its Record be replaced once by
namesakes while old ids are in flight, and five timestamps let either be updated
in between; the hazards are about pairs of requests, so two suffice. In the watcher
runs, `MaxLag` lets a copy be older than a completion and a deletion request
together; `MaxAge` is one more than the longest duration, so that every comparison
has both outcomes; one fault is enough to interrupt any step, a second one only
repeats it. `Quiescent` marks the states in which nothing is left to do: a system
without runs in progress may rest. In `pagination` three rows of two keys make ties
and page boundaries inside them, and two changes can move a row there and back.

In `logs` two chunks are a part of S3 and one is less than a part, which are the
two ways a log ends; two goroutines are what two reconciliations of a completed run
start, and a third only finds what the second found. In `maintenance` two jobs
suffice for an overlap, and a change may come between any two of their steps; the
clock reaches every retention. A batch of two holds the Record that cannot be
converted and one that can. In `log_plugin` three lines of two containers give two of
one container, delivered together or apart, with one of the other in between. In
`client` rows, permissions and the kubeconfig file change one at a time (`Untouched`:
rows and permissions only while the file is as at first), since no property relates
the file to the rows; `MinLimit` and `SmallestPage` are 1 instead of 5 and
`LargestPage` is 50 instead of 10000, so that a small table has pages and a request can
ask for too many.

`EtagGuardsUpdate` is stated for Results; `UpdateRecord` has the same shape.
`StoredMeansArchived` is checked with incomplete runs not stored, `SummaryFollows`
with the default storing, `PagesContinue` without NULLs: see *Known divergences*.

Fairness (`FairSpec`): workers (`WorkerStep`), informers (`Sync`), the garbage
collector and the clock go on. The code justifies the first: a key that fails or
asks for it is put back into the rate-limited queue, and a queue hands its keys
out in turn. Faults are bounded and never forced; users, pruners and Tekton need
not act. In `Pagination` the client is assumed to ask for the next page as long as
it holds a token, which is what the CLI and any client that wants the whole list
do; nothing is assumed of the other requests but that they are finitely many. In
`Logs` every goroutine and every handler goes on, which the Go scheduler and gRPC
provide: calls have deadlines, so that none waits for ever. In `Maintenance` the
converter goes on, and the cron starts a job again and again and the job goes on. In
`LogPlugin` the handler goes on; nothing is assumed of Splunk, which may never finish a
search.

## Known divergences

Runs with *violated* above show where the code does not do what its documentation
says. Met while modelling, and not shown by a run of their own:

* Store: a DeleteRecord between the SELECT and the Save of an UpdateRecord is undone,
  gorm inserting the row again (`UpdateRecordInsert`). A DeleteResult or DeleteRecord
  whose row was updated since it was read deletes nothing and answers OK.
* Watcher: with the default storing, a stale copy of the running run may overwrite the
  Record of the completed one that is marked as stored. With incomplete runs not
  stored, a PipelineRun that loses the race for `CreateResult` leaves the Result
  without a summary, unless events are stored.
* Lists: ordered by `summary.start_time` or `summary.end_time`, a page that ends in a
  NULL is followed by rows already listed or none of the rest (`TokenTime`).
  `ListLogs` drops one row between two pages and, its batches beginning after an id
  while the rows are ordered by time, more than that.
* Logs: the size in the log Record is that of whole S3 parts; an empty log is never
  marked as stored; `Flush` comes after the mark.
* Retention: as long as its PipelineRun is stored as v1beta1, a Result goes when one of
  its TaskRuns has expired; a retention that does not parse keeps jobs from deleting anything, a schedule that does
  not parse ends the agent.
* Log plugin: over gRPC an error of the back end is logged and the stream ends well;
  lines later than the forwarder delay, and those beyond the query limit, are missing.
* Filters: `+` leaves out operands that are indexes or calls; an integer index as the
  last key is read as an empty key; `%` and `_` are wildcards in `startsWith` and
  `endsWith`, so that `startsWith("p_")` selects `pr`; unsigned constants become 0;
  `summary.annotations[k]` with another operator than `==` loses its key. Texts and
  keys are not escaped: an apostrophe in one makes the statement fail or gives it
  another condition, in which the clauses for the parent and the Result may not count,
  and a `"` or a backslash spoils the JSON of a `@>` condition. The model has the
  apostrophes (`Quoted`); `PageExact`, `FilterMeans`, `SummaryAddsUp` and what
  `NothingUngranted` says of the rows told except such filters, since they do not hold
  of them.
* Summaries: an empty `summary` is refused, although a comment says that it means
  `total`; a statement that fails gives an empty summary and OK.
* Client: `config set` writes the whole file as it was before the prompts, over what
  other tools wrote meanwhile; `logs --uid` of a PipelineRun outside the Result of its
  own UID finds nothing; a list with a label ignores the name argument, as `PreRunE`
  returns before it reads it, while `list_test.go` ("list with task name and label
  filter") and `labels_test.go` expect both in the filter; the timeout of the
  configuration is never used; a namespace whose name contains `records` breaks
  the request for a log.

## Proofs

`ResultsStoreProofs` proves for any sets of names, payloads and clients, and any
bounds, from `StoreAssumption` (the bounds are naturals, `NoData` is a payload):

* `StoreTypeCorrect`, `StoreReferentialIntegrity`, `StoreNamesUnique`,
  `StoreIdentitiesAgree`: the invariants of the `store` run;
* `StoreKeysUnique`: ids are unique in both tables;
* `StoreIdentityStable`: the action property of that run;
* `StoreInvariant`: the inductive invariant `StoreInv` they follow from.

Referential integrity is not inductive alone. `CreateRecordInsert` inserts a Record
with a Result id and a Result name that were read earlier; the foreign key
guarantees only that *some* Result has this id. That it still has this name follows
from `IdentitiesAgree`: all mentions of an id, in the tables and in requests in
flight, agree on what it names, and no id that was not handed out is mentioned.
The same conjunct covers the fallback INSERT of gorm's `Save`, which may put back a
row deleted long ago. `KeysUnique` is needed for an UPDATE to replace one row, and
`NamesUnique` because a deletion by name must find one. The proof first shows
which mentions a step can add (`GotoRefs`, `ReplyRefs`, `OwnRefs`), then that
`IdentitiesAgree` is kept (`NothingNewAgrees`, `FreshAgrees`, `StepAgree`), then that
the tables are (`SavedResult`, `SavedRecord`, `StepTables`).

`PaginationProofs` proves for any table, keys, tags, page size and number of
changes, from `PaginationAssumption` (ids are naturals, keys are positive or NULL)
and `NoNulls` (the order column has no NULL: `create_time`, `update_time` or no
`order_by`):

* `PaginationTypeCorrect`, `PaginationComplete`, `PaginationContinues`: the safety
  properties of the `pagination` run;
* `PaginationInvariant`: the inductive invariant `PInv` they follow from.

`Complete` speaks only of lists that have ended and is not inductive. `Separated`
adds what holds on the way: nothing delivered satisfies the WHERE clause of the
token, and every row that is still owed is in the table, matches the filter *of
the token* and satisfies the clause. `OffsetIsAfter` says that the clause of
`offset.build` agrees with the ORDER BY of `order.build`, and `OffsetSplits` that it
cuts the order in two. Both fail without `NoNulls`.

`WatcherProofs` proves from `WatcherAssumption` (the shape of a family of runs, the
ranges of the flags), for any runs, any lag of the informers and any number of failed
calls, restarts and resyncs:

* `WatcherTypeCorrect`, and `AnnotatedRunsAreStored`: a run that carries an annotation
  of the watcher has its Result, its Record and, if so annotated, its events. Both hold
  in every configuration.
* `StoredAnnotationIsTrue`, `ReadyAnnotationIsTrue`, `ReleasedOnceArchived`,
  `ParentsWait`: the safety properties of the runs `watcher_single` and
  `watcher_family`, from `DisableStoringIncompleteRuns`. With the default storing they
  are false (*Known divergences*), so that the flag is a hypothesis of these theorems
  and of no other.

That the annotations *of the cluster's object* are backed is not inductive: a patch
writes back all managed annotations of the worker's copy, and the copy comes from a
cache. `AnnotationsBacked` therefore speaks of every copy of a run: the object, the
versions the informer has not delivered, the cache and the worker's. `AnnotationOrigin`
says where an annotation of a copy may come from in a step, `EveryAdvance` what a step
may do to the archive; with them each conjunct needs a look at one or two actions.
`OnlyCompleted` is the same for the final state: a worker that gets as far as the
upsert holds a completed run, and the Record of a completed run is not overwritten by
an earlier state, since no worker with an earlier state gets that far.
`ReleaseJustified` carries the reason that `finalize` saw to the step that removes the
finalizer. `ParentsWait` then follows from the fact that a *cached* annotation, however
old, was true when it was written and has stayed true.

`MaintenanceProofs` proves from `MaintenanceAssumption`, for any runs, ConfigMaps and
number of overlapping jobs: `MaintenanceTypeCorrect`, `DeletedRowsStayDeleted`
(`OnlyPutCreates`) and `DeletionByPolicy` (`SelectedByPolicy`). The invariant is
`JobsInformed`: the policies and the default that a job works with were both in force
at some time since it started, and a job that selects has parsed all its retentions.

`LogsProofs` proves from `LogsAssumption`, for any number of goroutines, logs of any
length, S3 parts of any size from two chunks on and any number of faults:

* `LogsTypeCorrect`; `ServedIsTheLog` (`ServedExactly`);
* `LogsImplementArchive`: `Spec => ArchiveSpec`, the refinement of `LogArchive`.

The inductive invariant `LogInv` has four parts on top of the types, each of which needs
those before it. `StreamsWired` ties the program counters of a goroutine and of its
handler to what was sent and received, and says that a handler which returns with EOF has
received the whole log. `UploadsExact`: the parts and the buffer of an S3 upload are,
together, exactly the chunks written so far, unless the upload was aborted.
`StoreKept`: without an excuse the object is nothing or the whole log (S3), or contains
what each handler has written (file, GCS), and it contains all of the log from the moment
the Record says that it is stored. `SoleStream` sharpens this to equality when one goroutine has
streamed. The steps of a handler are first brought into eight normal forms (`HandlerForm`,
`StepForm`), and the lemmas on the invariant are by these forms. The refinement maps
the object to `complete` and the answers to those of the archive; `StaysComplete` (a
second stream of the same log cannot undo the first) and `StaysExcused` carry it.

`ClientProofs` proves from `ApiAssumption` (rows have distinct ids, paths are made of
field names) and `ClientAssumption` (the shapes of requests, commands and the kubeconfig
file at first), for any rows, users, permissions, requests and commands and any language
of filters:

* `ClientTypeCorrect`; `MasksAreExact` (`MaskExact`); `ConfigurationPersists`
  (`ConfigPersists`);
* `AnswersAreGranted` (`NothingUngranted`): of a list or a summary with a `Quoted` filter
  only that the request was granted for its namespace, not that the rows are of it;
* `PagesAreExact` (`PageExact`) and `SummariesAddUp` (`SummaryAddsUp`), but for `Quoted`
  filters;
* `CommandsShowWhatIsAsked` (`ShownIsAsked`), from `FiltersAsk` and `UIDsDistinct`.

The inductive invariant of all but the last is `Inv`. Its part `CallSound` says for every phase of a request
what the phases before it have established *of the current token*: `Authenticated`, then
`Vouched` for the first resources that are impersonated, then `Impersonates` for all of
them, then `Authorized`; all by permissions in `held`, which only grow while permissions
are revoked (`SeenRemains`). `NextToken` has to lose all of it, and does. `AnswerSound`
adds that the rows of an answer are in the scope of the request, which takes lemmas on
the sequences that the lists make of sets (`Ranks`, `SortedRows`, `PickedRows`,
`LookedAt`). `CliSound` ties a waiting command to its request, and `FileSound` says that
not only the file but also the copy that `config set` has loaded, and will write over the
file, holds every configuration that was set: no other tool writes those contexts, and
one command runs at a time. For `MaskExact` a mask has to be taken apart: `Leaves` (every
path of a mask leads through one of its leaves), `Filtered` (what a set of leaves keeps)
and `Below` (the paths below the name of the list).

`PageExact` and `SummaryAddsUp` speak of the SQL condition of a filter (`Selects`), not of
what the filter means: the theorems hold for any conditions, and that `CelFilter`'s
conditions mean what CEL says is `FilterMeans`, which is model-checked only. A page holds
no row that the condition is not true of and *misses none* that it is true of, although it
is cut off at a page size, begins after a token and is read while rows come and go
(`PageInOrder`, `PageMeans`). The lines of a summary, which are folded from groups, add up
to the rows selected, and the five states with the rest to the same (`CountedByLine` and
the lemmas on sums in `RankLemmas`; `LinesAddUp`, `OneState`, `StatesAddUp`).

What a command shows depends on what the conditions of its filters select, and
`CelFilter`'s operators on expressions are recursive. `CommandsShowWhatIsAsked` therefore
supposes two things, which the run `client` evaluates on all its rows and commands before
it starts (`Supposed` in `MCClient`):

* `FiltersAsk`: the conditions of `BuildFilterString` and of the search by UID select what
  arguments and flags ask for (`Asks`), except that a list by label and name is by label
  (`Heeded`) and that `logs --uid` of a PipelineRun may find nothing; and no text of a
  command holds an apostrophe.
* `UIDsDistinct`: a Record of a run has the UID of the run for its name. The watcher names
  Records so, and Kubernetes uses no UID twice.

`Uses` adds to `Inv` that what runs is one of the commands that `FiltersAsk` speaks of, and
`Shown` relates a command to the request that is under way for it. A
list that waits for a page has shown runs that it was asked for, the newest first, and all
of them are no older than the row in its page token; as the next page consists of rows
before that one, none is shown twice (`NextPage`). A command that searches by name takes the
first row of a list that is ordered by time and at least one row long, so that it is the
most recent run with the name in the scope *of that request* (`ListAnswered`,
`ShownFound`); it learns from a masked message which run it is and whether that has ended,
and the mask keeps these fields (`TitleLeaf`, `FoundTitle`). The request for the log names
the UID only, which is where `UIDsDistinct` is needed. `Asks` reads the flags like a user
does: namespace `-` means all of them, which a first form of the property had missed.

`LogPluginProofs` proves from `PluginAssumption` (the numbers are naturals, a configuration
has a type and a kind of Record that the server knows), for any containers, any number
of lines, any delay and limits and any number of faults:

* `PluginTypeCorrect`; `AnswersInOrder` (`OwnLinesInOrder`); `AnswersComplete`
  (`CompleteAnswer`).

Neither of the last two is inductive, as an answer is made in several steps while lines
arrive. `Delivered` says of the back end that the lines of a container are numbered in
the order of their arrival, without gaps, so that a line with a smaller number is not
younger. `OutSound` carries order and coverage of what is already written, `JobSound`
those of the rows of a Splunk search that is done, and `PartsSound` those of the objects
still to be read: that they follow what was written, and that a line the answer owes is
in one or the other unless a part was broken off. `MergedParts` and `HeadedRows` say
what the code makes of a listing and of the rows of a search, `ListedParts` what Go's
sort may do to the objects of a bucket: the order of equal elements is kept up to
`InsertionSort` elements only, so that lines that arrived in the same second are
excepted from the order, but none is lost.

Each of these inductive invariants was model-checked on the instances above before it was
proved, `LogInv` also on logs of up to three chunks, `Shown` on the whole of the run
`client`.

Proving also showed where the model was not what it seemed: a `CASE` whose guards overlap
has several values in TLA+ although TLC takes the first, and no theorem follows from such
a definition. The guards are disjoint now. `Maintenance`'s type invariant left the
contents of jobs and batches open and states them now. `Masked` took a mask with the one
path `records` for the whole message of a single Record, for which the interceptor clears
every field; the proof of `MaskExact` failed there, and the run had no such request.
`List` and `ListLogs` did not refuse a page size out of range (`ValidPage`); the proof of
`PageExact`, for which a page of a size below one would miss everything, asked for it. All are mended.

Only model-checked:

* liveness (`ListingEnds`, `DeletionCompletes`, `EventuallyArchived`, `StreamsEnd` and the
  others), which is out of the prover's reach;
* what `CelFilter` computes, that is `FilterMeans` and `FiltersAsk`: its operators on
  expressions are recursive, which the prover does not handle, so that these two are
  checked on the rows and filters of the run;
* the safety properties of configurations other than those that the theorems suppose:
  `PagesContinue` with NULLs and `StoredMeansArchived` with the default storing, which are
  false there.

Every other invariant of the passing runs is stated by a theorem.

## Plan

All components above are modelled and checked, and the safety properties of the store,
the watcher, the lists, the read requests, the logs and their plugin, the maintenance jobs
and the client are proved. What a next version would add: the annotations that the log
goroutine and the reconciliation share, that is a `Watcher` with the logs API on.

## Not modelled

Metrics feed nothing back. Start-up code, flags, TLS and credentials, and leader
election run once; the flags appear as constants. The older commands of the client
print what the API answers. The code generated from the protocol buffers and the
clients generated for Kubernetes have no logic of their own. The `managedBy` filter and
the migration of finalizers set by older versions decide which runs the watcher sees
at all.
