------------------------------ MODULE Watcher ------------------------------
(***************************************************************************)
(* The Results watcher: the controllers that archive PipelineRuns,         *)
(* TaskRuns and CustomRuns in the API server, delete completed runs and    *)
(* hold runs back by a finalizer until they are archived.                  *)
(*                                                                         *)
(* A worker reconciles a copy of a run that it took from its informer      *)
(* cache (or from the answer to the patch that sets the finalizer), one    *)
(* remote call per step, while the cluster goes on changing the run.       *)
(* The logs API is off: only then do finalizers coordinate the deletion.   *)
(* The only owners are PipelineRuns.                                       *)
(*                                                                         *)
(* obj[r]    the run in the Kubernetes API server                          *)
(* feed[r]   the versions of it the informer has not yet delivered         *)
(* cache[r]  the version in the informer's cache, what the listers answer  *)
(* queued[r] whether r's key is in the work queue                          *)
(* w[r]      the worker that reconciles r (the queue hands a key to one    *)
(*           worker at a time): where it is, its copy, whether it runs     *)
(*           FinalizeKind, and the error ReconcileKind returned there      *)
(* record[r] the state of r in r's Record, result[n] the Result n with the *)
(*           run and the state its summary describes, events[r] whether    *)
(*           r's EventList Record exists                                   *)
(* age[r]    the time since r's completion                                 *)
(* faults    failed calls, restarts and resyncs so far                     *)
(***************************************************************************)
EXTENDS Integers, Sequences

CONSTANTS
    Runs,                \* all runs
    PipelineRuns,        \* those that are PipelineRuns
    CustomRuns,          \* those that are CustomRuns; the others are TaskRuns
    Owner,               \* the PipelineRun that owns a run, or NoOwner
    NoOwner,
    ResultOf,            \* the name of a run's Result: trigger event, owner or own uid
    Selected,            \* the runs that match -label_selector
    GracePeriod,         \* -completed_run_grace_period
    StoreDeadline,       \* -store_deadline
    ForwardBuffer,       \* -forward_buffer
    StoreEvent,          \* -store_event
    DisableAnnotationUpdate,
    DisableStoringIncompleteRuns,
    RequireAnnotation,   \* -required_annotation names an annotation others write
    MaxAge,              \* bound: the clock stops that long after completion
    MaxLag,              \* bound: versions the informer may lag behind
    Prunable,            \* the runs that users or pruners may delete
    MaxFaults            \* bound: failed calls, restarts and resyncs

ASSUME WatcherAssumption ==
    /\ PipelineRuns \subseteq Runs /\ CustomRuns \subseteq Runs \ PipelineRuns
    /\ NoOwner \notin Runs
    /\ Owner \in [Runs -> PipelineRuns \cup {NoOwner}]
    /\ \A r \in Runs : Owner[r] # NoOwner => /\ Owner[Owner[r]] = NoOwner
                                             /\ ResultOf[r] = ResultOf[Owner[r]]
    /\ Selected \subseteq Runs /\ Prunable \subseteq Runs
    /\ GracePeriod \in Int
    /\ StoreDeadline \in Nat /\ ForwardBuffer \in Nat
    /\ {StoreEvent, DisableAnnotationUpdate,
        DisableStoringIncompleteRuns, RequireAnnotation} \subseteq BOOLEAN
    /\ MaxAge \in Nat /\ MaxLag \in Nat /\ MaxFaults \in Nat

VARIABLES obj, feed, cache, queued, w, record, result, events, age, faults

cluster == <<obj, feed>>
archive == <<record, result, events>>
vars == <<obj, feed, cache, queued, w, record, result, events, age, faults>>

----------------------------------------------------------------------------
(* Runs and workers                                                        *)

\* The annotations the watcher manages; "ids" stands for the Result and the
\* Record annotation, which are always patched together.
Keys == {"ids", "events", "ready", "stored"}

\* "untimed": done, but its controller set no completion time.
States == {"running", "done", "untimed"}

Objects == [phase: {"new", "live", "gone"}, st: States, deleting: BOOLEAN,
            fin: BOOLEAN, ann: [Keys -> {"", "false", "true"}], req: BOOLEAN]

Unborn == [phase |-> "new", st |-> "running", deleting |-> FALSE, fin |-> FALSE,
           ann |-> [k \in Keys |-> ""], req |-> FALSE]

Gone == [Unborn EXCEPT !.phase = "gone"]

IsDone(o) == o.st # "running"

Steps == {"idle", "setFinalizer", "getResult", "createResult", "updateResult",
          "upsertRecord", "getEvents", "storeEvents", "patchEvents", "patchIds", "patchReady",
          "deleteRun", "patchStored", "reconciled", "clearFinalizer"}

Workers == [pc: Steps, o: Objects, finalizing: BOOLEAN, err: BOOLEAN]

Idle == [pc |-> "idle", o |-> Unborn, finalizing |-> FALSE, err |-> FALSE]

NoSummary == [run |-> NoOwner, st |-> "running"]

Results == {ResultOf[r] : r \in Runs}

TypeOK ==
    /\ obj \in [Runs -> Objects]
    /\ feed \in [Runs -> Seq(Objects)]
    /\ cache \in [Runs -> Objects]
    /\ queued \in [Runs -> BOOLEAN]
    /\ w \in [Runs -> Workers]
    /\ record \in [Runs -> States \cup {"none"}]
    /\ result \in [Results -> [exists: BOOLEAN,
                               sum: [run: Runs \cup {NoOwner}, st: States]]]
    /\ events \in [Runs -> BOOLEAN]
    /\ age \in [Runs -> 0..MaxAge]
    /\ faults \in 0..MaxFaults

Init ==
    /\ obj = [r \in Runs |-> Unborn]
    /\ feed = [r \in Runs |-> <<>>]
    /\ cache = [r \in Runs |-> Unborn]
    /\ queued = [r \in Runs |-> FALSE]
    /\ w = [r \in Runs |-> Idle]
    /\ record = [r \in Runs |-> "none"]
    /\ result = [n \in Results |-> [exists |-> FALSE, sum |-> NoSummary]]
    /\ events = [r \in Runs |-> FALSE]
    /\ age = [r \in Runs |-> 0]
    /\ faults = 0

----------------------------------------------------------------------------
(* The cluster.  The API server drops a run that is marked for deletion    *)
(* once it has no finalizer, and queues every version for the informer.    *)

Live(r) == obj[r].phase = "live"

Settle(o) == IF o.deleting /\ ~o.fin THEN Gone ELSE o

Write(r, o) ==
    IF Settle(o) = obj[r]
    THEN UNCHANGED cluster
    ELSE /\ Len(feed[r]) < MaxLag
         /\ obj' = [obj EXCEPT ![r] = Settle(o)]
         /\ feed' = [feed EXCEPT ![r] = Append(@, Settle(o))]

watcherState == <<cache, queued, w, record, result, events>>

\* A user creates a run; Tekton creates those of a running PipelineRun.
Create(r) ==
    /\ obj[r].phase = "new"
    /\ Owner[r] # NoOwner => LET p == obj[Owner[r]] IN
            p.phase = "live" /\ ~IsDone(p) /\ ~p.deleting
    /\ Write(r, [obj[r] EXCEPT !.phase = "live"])
    /\ UNCHANGED <<watcherState, age, faults>>

\* The controller of the run records its completion, which may happen after
\* the run was marked for deletion.  A PipelineRun that is cancelled does not
\* wait for its children.  Only foreign controllers forget the time.
Finish(r, st) ==
    /\ Live(r) /\ ~IsDone(obj[r])
    /\ st = "done" \/ (st = "untimed" /\ r \in CustomRuns)
    /\ Write(r, [obj[r] EXCEPT !.st = st])
    /\ UNCHANGED <<watcherState, age, faults>>

\* A user or a pruner deletes the run.
UserDelete(r) ==
    /\ r \in Prunable
    /\ Live(r) /\ ~obj[r].deleting
    /\ Write(r, [obj[r] EXCEPT !.deleting = TRUE])
    /\ UNCHANGED <<watcherState, age, faults>>

\* The garbage collector deletes the children of a PipelineRun that is gone.
CascadeDelete(r) ==
    /\ Owner[r] # NoOwner /\ obj[Owner[r]].phase = "gone"
    /\ Live(r) /\ ~obj[r].deleting
    /\ Write(r, [obj[r] EXCEPT !.deleting = TRUE])
    /\ UNCHANGED <<watcherState, age, faults>>

\* Another controller writes the required annotation on a completed run.
Annotate(r) ==
    /\ RequireAnnotation
    /\ Live(r) /\ IsDone(obj[r]) /\ ~obj[r].req
    /\ Write(r, [obj[r] EXCEPT !.req = TRUE])
    /\ UNCHANGED <<watcherState, age, faults>>

Aging == {r \in Runs : IsDone(obj[r]) /\ age[r] < MaxAge}

Tick ==
    /\ Aging # {}
    /\ age' = [r \in Runs |-> IF r \in Aging THEN age[r] + 1 ELSE age[r]]
    /\ UNCHANGED <<cluster, watcherState, faults>>

\* The informer delivers the next version, whose handler enqueues the key.
Sync(r) ==
    /\ feed[r] # <<>>
    /\ cache' = [cache EXCEPT ![r] = Head(feed[r])]
    /\ feed' = [feed EXCEPT ![r] = Tail(@)]
    /\ queued' = [queued EXCEPT ![r] = TRUE]
    /\ UNCHANGED <<obj, w, archive, age, faults>>

\* The periodic resync enqueues what is in the cache.
Resync(r) ==
    /\ faults < MaxFaults
    /\ faults' = faults + 1
    /\ cache[r].phase = "live" /\ ~queued[r]
    /\ queued' = [queued EXCEPT ![r] = TRUE]
    /\ UNCHANGED <<cluster, cache, w, archive, age>>

----------------------------------------------------------------------------
(* Reconcile of the generated reconciler                                   *)

\* ReconcileKind's early returns.
Skipped(o) ==
    DisableStoringIncompleteRuns /\ (~IsDone(o) \/ o.ann["stored"] = "true")

\* The state of a worker that calls ReconcileKind, by itself or on behalf of
\* FinalizeKind, with the copy o.
Reconciling(o, finalizing) ==
    [pc |-> IF Skipped(o) THEN "reconciled" ELSE "getResult",
     o |-> o, finalizing |-> finalizing, err |-> FALSE]

\* The worker takes the key and a copy of the cached run.
Start(r) ==
    /\ queued[r] /\ w[r].pc = "idle"
    /\ queued' = [queued EXCEPT ![r] = FALSE]
    /\ LET o == cache[r] IN
       \/ /\ o.phase # "live"
          /\ UNCHANGED w
       \/ /\ o.phase = "live" /\ (o.deleting \/ o.fin)
          /\ w' = [w EXCEPT ![r] = Reconciling(o, o.deleting)]
       \/ /\ o.phase = "live" /\ ~o.deleting /\ ~o.fin
          /\ w' = [w EXCEPT ![r] = [Idle EXCEPT !.pc = "setFinalizer", !.o = o]]
    /\ UNCHANGED <<cluster, cache, archive, age, faults>>

At(r, pc) == w[r].pc = pc

Goto(r, pc) == /\ w' = [w EXCEPT ![r].pc = pc]
               /\ UNCHANGED queued

\* ReconcileKind returns nil, or an error or requeue request.
Return(r, err) == /\ w' = [w EXCEPT ![r].pc = "reconciled", ![r].err = err]
                  /\ UNCHANGED queued

\* Mutant: a failed key is not put back.
LeaveForGood(r, again) == /\ w' = [w EXCEPT ![r] = Idle]
                          /\ UNCHANGED queued

\* The whole reconciliation ends; the key is put back if again.
Leave(r, again) ==
    /\ w' = [w EXCEPT ![r] = Idle]
    /\ queued' = [queued EXCEPT ![r] = @ \/ again]

\* Server-side apply of the finalizer.  It carries no resource version and
\* answers with the current run, which the worker goes on with.  The API
\* server refuses new finalizers on a run that is being deleted.
SetFinalizer(r) ==
    /\ At(r, "setFinalizer")
    /\ \/ /\ Live(r) /\ (~obj[r].deleting \/ obj[r].fin)
          /\ LET o == [obj[r] EXCEPT !.fin = TRUE] IN
                /\ Write(r, o)
                /\ w' = [w EXCEPT ![r] = Reconciling(o, FALSE)]
          /\ UNCHANGED queued
       \/ /\ ~(Live(r) /\ (~obj[r].deleting \/ obj[r].fin))
          /\ Leave(r, TRUE)
          /\ UNCHANGED cluster
    /\ UNCHANGED <<cache, archive, age, faults>>

----------------------------------------------------------------------------
(* Put: ensureResult and upsertRecord                                      *)

isTopLevelRecord(r) == Owner[r] = NoOwner

\* The summary that r's copy asks for.
Summary(r) == IF isTopLevelRecord(r) THEN [run |-> r, st |-> w[r].o.st] ELSE NoSummary

\* Mutant: an existing summary is never updated.
GetResultKeepingSummary(r) ==
    /\ At(r, "getResult")
    /\ Goto(r, IF result[ResultOf[r]].exists THEN "upsertRecord" ELSE "createResult")
    /\ UNCHANGED <<cluster, cache, archive, age, faults>>

GetResult(r) ==
    /\ At(r, "getResult")
    /\ LET curr == result[ResultOf[r]] IN
       \/ ~curr.exists /\ Goto(r, "createResult")
       \/ /\ curr.exists /\ isTopLevelRecord(r) /\ curr.sum # Summary(r)
          /\ Goto(r, "updateResult")
       \/ /\ curr.exists /\ ~(isTopLevelRecord(r) /\ curr.sum # Summary(r))
          /\ Goto(r, "upsertRecord")
    /\ UNCHANGED <<cluster, cache, archive, age, faults>>

\* AlreadyExists: another worker was faster; its Result is used as it is.
CreateResult(r) ==
    /\ At(r, "createResult")
    /\ \/ /\ ~result[ResultOf[r]].exists
          /\ result' = [result EXCEPT ![ResultOf[r]] = [exists |-> TRUE, sum |-> Summary(r)]]
       \/ /\ result[ResultOf[r]].exists
          /\ UNCHANGED result
    /\ Goto(r, "upsertRecord")
    /\ UNCHANGED <<cluster, cache, record, events, age, faults>>

UpdateResult(r) ==
    /\ At(r, "updateResult")
    /\ result' = [result EXCEPT ![ResultOf[r]] = [exists |-> TRUE, sum |-> Summary(r)]]
    /\ Goto(r, "upsertRecord")
    /\ UNCHANGED <<cluster, cache, record, events, age, faults>>

\* Mutant: the Record is taken to be up to date.
UpsertRecordSkipped(r) ==
    /\ At(r, "upsertRecord")
    /\ Goto(r, "patchIds")
    /\ UNCHANGED <<cluster, cache, archive, age, faults>>

UpsertRecord(r) ==
    /\ At(r, "upsertRecord")
    /\ record' = [record EXCEPT ![r] = w[r].o.st]
    /\ Goto(r, IF StoreEvent /\ IsDone(w[r].o) THEN "getEvents" ELSE "patchIds")
    /\ UNCHANGED <<cluster, cache, result, events, age, faults>>

----------------------------------------------------------------------------
(* The rest of dynamic.Reconcile: events, annotations, deletion            *)

\* annotation.Patch: server-side apply of all managed annotations of the
\* copy with key set to val; the server drops those the copy lacks.  It is
\* skipped when the copy already has the value.
Patch(r, key, val, next) ==
    LET o == w[r].o
        ann == [o.ann EXCEPT ![key] = val]
    IN  \/ /\ DisableAnnotationUpdate \/ ann = o.ann
           /\ Goto(r, next)
           /\ UNCHANGED cluster
        \/ /\ ~DisableAnnotationUpdate /\ ann # o.ann /\ Live(r)
           /\ Write(r, [obj[r] EXCEPT !.ann = ann])
           /\ w' = [w EXCEPT ![r].o.ann = ann, ![r].pc = next]
           /\ UNCHANGED queued
        \/ /\ ~DisableAnnotationUpdate /\ ann # o.ann /\ ~Live(r)
           /\ Return(r, TRUE)
           /\ UNCHANGED cluster

\* ensureResult once more; by now the Result exists.
EnsureSummary(r) ==
    result' = IF isTopLevelRecord(r)
              THEN [result EXCEPT ![ResultOf[r]].sum = Summary(r)]
              ELSE result

GetEventListRecord(r) ==
    /\ At(r, "getEvents")
    /\ EnsureSummary(r)
    /\ Goto(r, IF events[r] THEN "patchEvents" ELSE "storeEvents")
    /\ UNCHANGED <<cluster, cache, record, events, age, faults>>

PutEventList(r) ==
    /\ At(r, "storeEvents")
    /\ EnsureSummary(r)
    /\ events' = [events EXCEPT ![r] = TRUE]
    /\ Goto(r, "patchEvents")
    /\ UNCHANGED <<cluster, cache, record, age, faults>>

PatchEvents(r) ==
    /\ At(r, "patchEvents")
    /\ Patch(r, "events", "true", "patchIds")
    /\ UNCHANGED <<cache, archive, age, faults>>

PatchIds(r) ==
    /\ At(r, "patchIds")
    /\ Patch(r, "ids", "true",
             IF Owner[r] # NoOwner /\ IsDone(w[r].o) THEN "patchReady" ELSE "deleteRun")
    /\ UNCHANGED <<cache, archive, age, faults>>

\* addChildReadyForDeletionAnnotations, on a completed child.
PatchReady(r) ==
    /\ At(r, "patchReady")
    /\ Patch(r, "ready", "true", "deleteRun")
    /\ UNCHANGED <<cache, archive, age, faults>>

Children(p) == {c \in Runs : Owner[c] = p}

\* Mutant: completed children need not be archived.
areAllChildRunsDone(p) ==
    \A c \in Children(p) : cache[c].phase = "live" => IsDone(cache[c])

\* The children are looked up in the listers; one that is not there is
\* taken to be gone.
areAllChildRunsReadyForDeletion(p) ==
    \A c \in Children(p) : cache[c].phase = "live" => cache[c].ann["ready"] # ""

\* Nothing to delete: deleteUponCompletion returns nil.
DeletionSkipped(r) ==
    GracePeriod = 0 \/ ~IsDone(w[r].o) \/ Owner[r] # NoOwner

DeletionDue(r) ==
    /\ w[r].o.st = "done" /\ age[r] >= GracePeriod
    /\ r \in Selected
    /\ areAllChildRunsReadyForDeletion(r)

deleteUponCompletion(r) ==
    /\ At(r, "deleteRun")
    /\ \/ /\ DeletionSkipped(r)
          /\ Goto(r, "patchStored")
          /\ UNCHANGED cluster
       \/ /\ ~DeletionSkipped(r) /\ ~DeletionDue(r)
          /\ Return(r, TRUE)
          /\ UNCHANGED cluster
       \/ /\ ~DeletionSkipped(r) /\ DeletionDue(r)
          /\ IF Live(r) THEN Write(r, [obj[r] EXCEPT !.deleting = TRUE])
                        ELSE UNCHANGED cluster
          /\ Goto(r, "patchStored")
    /\ UNCHANGED <<cache, archive, age, faults>>

\* Mutant: the value is formatted as other tools do.
StoredValueCapital(o) == IF IsDone(o) THEN "True" ELSE "false"

StoredValue(o) == IF IsDone(o) THEN "true" ELSE "false"

PatchStored(r) ==
    /\ At(r, "patchStored")
    /\ Patch(r, "stored", StoredValue(w[r].o), "reconciled")
    /\ UNCHANGED <<cache, archive, age, faults>>

----------------------------------------------------------------------------
(* The end of a reconciliation                                             *)

\* The controller puts the key back when ReconcileKind asks for it.
EndReconcile(r) ==
    /\ At(r, "reconciled") /\ ~w[r].finalizing
    /\ Leave(r, w[r].err)
    /\ UNCHANGED <<cluster, cache, archive, age, faults>>

\* finalize cannot coordinate the deletion, or there is nothing to wait for.
FinalizerUnused(r) ==
    \/ DisableAnnotationUpdate
    \/ w[r].o.st # "done"

IsTaskRun(r) == r \notin PipelineRuns \cup CustomRuns

\* A TaskRun waits for the log forwarder, whatever else holds.
Buffering(r) == IsTaskRun(r) /\ age[r] <= ForwardBuffer

\* Mutant: the deadline is counted from the deletion request on.
DeadlineNeverPasses(r) == age[r] > StoreDeadline + MaxAge

DeadlinePassed(r) == age[r] > StoreDeadline

\* Mutant: only the annotations of others are waited for.
ConfirmedByOthers(r) == r \in CustomRuns \/ ~RequireAnnotation \/ w[r].o.req

\* The copy shows that the run is archived and nobody else needs it.
Confirmed(r) ==
    /\ w[r].o.ann["stored"] = "true" /\ ~w[r].err
    /\ r \in CustomRuns \/ ~RequireAnnotation \/ w[r].o.req

Releasable(r) ==
    \/ FinalizerUnused(r)
    \/ ~Buffering(r) /\ (DeadlinePassed(r) \/ Confirmed(r))

\* finalize lets the generated reconciler remove the finalizer, or asks to
\* be called again.
finalize(r) ==
    /\ At(r, "reconciled") /\ w[r].finalizing
    /\ \/ Releasable(r) /\ Goto(r, "clearFinalizer")
       \/ ~Releasable(r) /\ Leave(r, TRUE)
    /\ UNCHANGED <<cluster, cache, archive, age, faults>>

\* Server-side apply again: whatever the run looks like by now.
ClearFinalizer(r) ==
    /\ At(r, "clearFinalizer")
    /\ IF Live(r) THEN Write(r, [obj[r] EXCEPT !.fin = FALSE]) ELSE UNCHANGED cluster
    /\ Leave(r, FALSE)
    /\ UNCHANGED <<cache, archive, age, faults>>

----------------------------------------------------------------------------
(* Failures                                                                *)

\* A call to the API server or to Kubernetes fails.
CallFails(r) ==
    /\ faults < MaxFaults
    /\ faults' = faults + 1
    /\ \/ /\ w[r].pc \notin {"idle", "reconciled", "setFinalizer", "clearFinalizer"}
          /\ Return(r, TRUE)
       \/ /\ w[r].pc \in {"setFinalizer", "clearFinalizer"}
          /\ Leave(r, TRUE)
    /\ UNCHANGED <<cluster, cache, archive, age>>

\* The watcher restarts: it lists every run and enqueues it.
Restart ==
    /\ faults < MaxFaults
    /\ faults' = faults + 1
    /\ cache' = obj
    /\ feed' = [r \in Runs |-> <<>>]
    /\ queued' = [r \in Runs |-> Live(r)]
    /\ w' = [r \in Runs |-> Idle]
    /\ UNCHANGED <<obj, archive, age>>

----------------------------------------------------------------------------
WorkerStep(r) ==
    \/ Start(r) \/ SetFinalizer(r)
    \/ GetResult(r) \/ CreateResult(r) \/ UpdateResult(r) \/ UpsertRecord(r)
    \/ GetEventListRecord(r) \/ PutEventList(r) \/ PatchEvents(r)
    \/ PatchIds(r) \/ PatchReady(r)
    \/ deleteUponCompletion(r) \/ PatchStored(r)
    \/ EndReconcile(r) \/ finalize(r) \/ ClearFinalizer(r)

ClusterStep(r) ==
    \/ Create(r)
    \/ \E st \in States : Finish(r, st)
    \/ UserDelete(r) \/ CascadeDelete(r) \/ Annotate(r)
    \/ Sync(r) \/ Resync(r)

\* Everything is delivered and reconciled; runs may stay in the cluster.
Quiescent ==
    /\ \A r \in Runs : feed[r] = <<>> /\ ~queued[r] /\ w[r] = Idle
    /\ UNCHANGED vars

Next ==
    \/ \E r \in Runs : WorkerStep(r) \/ ClusterStep(r) \/ CallFails(r)
    \/ Tick
    \/ Restart
    \/ Quiescent

\* Workers, informers, the garbage collector and time do not stop; users and
\* other controllers may.
Fairness ==
    /\ \A r \in Runs : WF_vars(WorkerStep(r)) /\ WF_vars(Sync(r))
    /\ \A r \in Runs : WF_vars(CascadeDelete(r))
    /\ WF_vars(Tick)

Spec == Init /\ [][Next]_vars

FairSpec == Spec /\ Fairness
----------------------------------------------------------------------------
(* Properties                                                              *)

\* The completed run is in the archive.
Archived(r) == record[r] \in {"done", "untimed"}

\* The annotation that the finalizer waits for tells the truth: a run that
\* is marked as stored "has been stored by the Results API" in its final
\* state, however the informer lags and calls fail.
StoredMeansArchived ==
    \A r \in Runs : obj[r].ann["stored"] = "true" => Archived(r)

\* The annotation that a PipelineRun's deletion waits for: a child so marked
\* "is done and up to date in the API server".
ReadyMeansArchived ==
    \A r \in Runs : obj[r].ann["ready"] = "true" => Archived(r)

\* The finalizer of a run that its worker knows to be completed is not
\* removed before the run is archived, unless the deadline has passed or the
\* configuration gives up on the finalizer.
ReleasedWhenArchived ==
    \A r \in Runs :
        (At(r, "clearFinalizer") /\ ~FinalizerUnused(r) /\ ~DeadlinePassed(r))
        => Archived(r)

\* The watcher deletes a PipelineRun, which deletes its children, only when
\* every child the listers know is archived.
ParentWaitsForChildren ==
    [][\A p \in PipelineRuns :
          (At(p, "deleteRun") /\ ~At(p, "deleteRun")' /\ obj'[p] # obj[p])
          => \A c \in Children(p) : cache[c].phase = "live" => Archived(c)]_vars

\* A deletion that was asked for is carried out: no requeue, lost annotation
\* or stale copy keeps the finalizer for ever.
DeletionCompletes ==
    \A r \in Runs : obj[r].deleting ~> obj[r].phase = "gone"

\* A completed run that stays in the cluster ends up in the archive.
EventuallyArchived ==
    \A r \in Runs : (Live(r) /\ IsDone(obj[r])) ~> (Archived(r) \/ ~Live(r))

\* The summary of a Result ends up describing the completed run it is about.
SummaryFollows ==
    \A r \in Runs : (Live(r) /\ IsDone(obj[r]) /\ isTopLevelRecord(r)) ~>
        (~Live(r) \/ result[ResultOf[r]].sum = [run |-> r, st |-> obj[r].st])

\* "resources will be deleted after the specified duration": a completed
\* run that matches the selector goes away once its children are completed.
Reclaimed ==
    \A r \in Selected :
        (/\ GracePeriod # 0 /\ Owner[r] = NoOwner
         /\ Live(r) /\ obj[r].st = "done"
         /\ \A c \in Children(r) : obj[c].phase # "live" \/ IsDone(obj[c]))
        ~> obj[r].phase = "gone"

\* "We utilize finalizers to ensure that we get a crack at storing every
\* pipelinerun": a completed run that carries the finalizer is not released
\* before it is archived, as long as the deadline has not passed.
NoRunLost ==
    [][\A r \in Runs :
          (/\ Live(r) /\ obj[r].fin /\ ~obj'[r].fin
           /\ obj[r].st = "done" /\ ~DeadlinePassed(r))
          => Archived(r)]_vars
=============================================================================
