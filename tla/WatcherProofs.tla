--------------------------- MODULE WatcherProofs ---------------------------
(***************************************************************************)
(* Proofs about the watcher, for any number of runs, any lag of the        *)
(* informers and any number of failed calls, restarts and resyncs.         *)
(***************************************************************************)
EXTENDS Watcher, TLAPS

----------------------------------------------------------------------------
(* Type correctness                                                        *)

\* The edits of a run that the cluster and the watcher make leave a run.
LEMMA EditedRuns ==
    /\ Unborn \in Objects /\ Gone \in Objects /\ Idle \in Workers
    /\ \A o \in Objects :
          /\ Settle(o) \in Objects
          /\ [o EXCEPT !.phase = "live"] \in Objects
          /\ \A st \in States : [o EXCEPT !.st = st] \in Objects
          /\ \A b \in BOOLEAN : /\ [o EXCEPT !.deleting = b] \in Objects
                                /\ [o EXCEPT !.fin = b] \in Objects
                                /\ [o EXCEPT !.req = b] \in Objects
          /\ \A ann \in [Keys -> {"", "false", "true"}] : [o EXCEPT !.ann = ann] \in Objects
          /\ Idle.pc = "idle" /\ [Idle EXCEPT !.pc = "setFinalizer", !.o = o] \in Workers
          /\ \A b \in BOOLEAN : Reconciling(o, b) \in Workers
  <1>1. Unborn \in Objects
    BY DEF Unborn, Objects, States, Keys
  <1>2. Gone \in Objects
    BY <1>1 DEF Gone, Objects
  <1>3. Idle \in Workers
    BY <1>1 DEF Idle, Workers, Steps
  <1>4. ASSUME NEW o \in Objects
        PROVE  /\ [o EXCEPT !.phase = "live"] \in Objects
               /\ \A st \in States : [o EXCEPT !.st = st] \in Objects
               /\ \A b \in BOOLEAN : /\ [o EXCEPT !.deleting = b] \in Objects
                                     /\ [o EXCEPT !.fin = b] \in Objects
                                     /\ [o EXCEPT !.req = b] \in Objects
               /\ \A ann \in [Keys -> {"", "false", "true"}] :
                        [o EXCEPT !.ann = ann] \in Objects
    BY <1>4 DEF Objects
  <1>5. ASSUME NEW o \in Objects PROVE Settle(o) \in Objects
    BY <1>2 DEF Settle
  <1>6. ASSUME NEW o \in Objects
        PROVE  /\ [Idle EXCEPT !.pc = "setFinalizer", !.o = o] \in Workers
               /\ \A b \in BOOLEAN : Reconciling(o, b) \in Workers
    BY <1>3 DEF Workers, Steps, Reconciling
  <1>7. Idle.pc = "idle"
    BY DEF Idle
  <1> QED BY <1>1, <1>2, <1>3, <1>4, <1>5, <1>6, <1>7

\* The API server stores a run and announces it to the informer.
LEMMA WriteType ==
    ASSUME TypeOK, NEW r \in Runs, NEW o \in Objects, Write(r, o)
    PROVE  obj' \in [Runs -> Objects] /\ feed' \in [Runs -> Seq(Objects)]
  <1>1. Settle(o) \in Objects
    BY EditedRuns
  <1>2. Append(feed[r], Settle(o)) \in Seq(Objects)
    BY <1>1 DEF TypeOK
  <1> QED BY <1>1, <1>2, ZenonT(60) DEF TypeOK, Write, cluster

\* The ways a worker goes on leave a worker.
LEMMA MoveType ==
    ASSUME TypeOK, NEW r \in Runs
    PROVE  /\ \A p \in Steps : Goto(r, p) =>
                    w' \in [Runs -> Workers] /\ queued' \in [Runs -> BOOLEAN]
           /\ Return(r, TRUE) =>
                    w' \in [Runs -> Workers] /\ queued' \in [Runs -> BOOLEAN]
           /\ \A e \in BOOLEAN : Leave(r, e) =>
                    w' \in [Runs -> Workers] /\ queued' \in [Runs -> BOOLEAN]
  <1>1. ASSUME NEW p \in Steps, Goto(r, p)
        PROVE  w' \in [Runs -> Workers] /\ queued' \in [Runs -> BOOLEAN]
    BY <1>1, ZenonT(60) DEF TypeOK, Goto, Workers
  <1>2. ASSUME Return(r, TRUE)
        PROVE  w' \in [Runs -> Workers] /\ queued' \in [Runs -> BOOLEAN]
    <2>1. w[r] \in Workers
      BY DEF TypeOK
    <2>2. [w[r] EXCEPT !.pc = "reconciled", !.err = TRUE] \in Workers
      BY <2>1 DEF Workers, Steps
    <2>3. w' = [w EXCEPT ![r] = [w[r] EXCEPT !.pc = "reconciled", !.err = TRUE]]
      BY <1>2 DEF TypeOK, Return
    <2> QED BY <1>2, <2>2, <2>3 DEF TypeOK, Return
  <1>3. ASSUME NEW e \in BOOLEAN, Leave(r, e)
        PROVE  w' \in [Runs -> Workers] /\ queued' \in [Runs -> BOOLEAN]
    <2>1. (queued[r] \/ e) \in BOOLEAN
      OBVIOUS
    <2> QED BY <1>3, <2>1, EditedRuns DEF TypeOK, Leave
  <1> QED BY <1>1, <1>2, <1>3

\* annotation.Patch leaves runs and workers.
LEMMA PatchType ==
    ASSUME TypeOK, NEW r \in Runs, NEW key \in Keys, NEW val \in {"", "false", "true"},
           NEW next \in Steps, Patch(r, key, val, next)
    PROVE  /\ obj' \in [Runs -> Objects] /\ feed' \in [Runs -> Seq(Objects)]
           /\ w' \in [Runs -> Workers] /\ queued' \in [Runs -> BOOLEAN]
  <1> DEFINE ann == [w[r].o.ann EXCEPT ![key] = val]
  <1>1. ann \in [Keys -> {"", "false", "true"}]
    BY DEF TypeOK, Workers, Objects
  <1>2. CASE Live(r) /\ Write(r, [obj[r] EXCEPT !.ann = ann])
             /\ w' = [w EXCEPT ![r].o.ann = ann, ![r].pc = next] /\ UNCHANGED queued
    <2>1. [obj[r] EXCEPT !.ann = ann] \in Objects
      BY <1>1, EditedRuns DEF TypeOK
    <2>2. w' \in [Runs -> Workers]
      <3>1. w[r] \in Workers /\ w[r].o \in Objects
        BY DEF TypeOK, Workers
      <3>2. [w[r].o EXCEPT !.ann = ann] \in Objects
        BY <1>1, <3>1, EditedRuns
      <3>3. [w[r] EXCEPT !.o.ann = ann, !.pc = next] \in Workers
        BY <3>1, <3>2 DEF Workers
      <3> QED BY <1>2, <3>3 DEF TypeOK
    <2>3. obj' \in [Runs -> Objects] /\ feed' \in [Runs -> Seq(Objects)]
      BY <1>2, <2>1, WriteType
    <2> QED BY <1>2, <2>2, <2>3 DEF TypeOK
  <1>3. CASE Goto(r, next) /\ UNCHANGED cluster
    BY <1>3, MoveType DEF TypeOK, cluster
  <1>4. CASE Return(r, TRUE) /\ UNCHANGED cluster
    BY <1>4, MoveType DEF TypeOK, cluster
  <1> QED BY <1>2, <1>3, <1>4 DEF Patch

\* What the cluster does to a run leaves runs.
LEMMA ClusterType ==
    ASSUME TypeOK, NEW r \in Runs, ClusterStep(r)
    PROVE  TypeOK'
  <1> USE DEF cluster, archive, watcherState
  <1>w. ASSUME NEW o \in Objects, Write(r, o), UNCHANGED <<watcherState, age, faults>>
        PROVE  TypeOK'
    BY <1>w, WriteType DEF TypeOK
  <1>o. obj[r] \in Objects
    BY DEF TypeOK
  <1>1. CASE Create(r)
    BY <1>1, <1>w, <1>o, EditedRuns DEF Create
  <1>2. ASSUME NEW st \in States, Finish(r, st)
        PROVE  TypeOK'
    BY <1>2, <1>w, <1>o, EditedRuns DEF Finish
  <1>3. CASE UserDelete(r)
    BY <1>3, <1>w, <1>o, EditedRuns DEF UserDelete
  <1>4. CASE CascadeDelete(r)
    BY <1>4, <1>w, <1>o, EditedRuns DEF CascadeDelete
  <1>5. CASE Annotate(r)
    BY <1>5, <1>w, <1>o, EditedRuns DEF Annotate
  <1>6. CASE Sync(r)
    <2>1. feed[r] \in Seq(Objects) /\ feed[r] # <<>>
      BY <1>6 DEF TypeOK, Sync
    <2>2. Head(feed[r]) \in Objects /\ Tail(feed[r]) \in Seq(Objects)
      BY <2>1
    <2> QED BY <1>6, <2>2 DEF TypeOK, Sync
  <1>7. CASE Resync(r)
    <2>1. faults' \in 0..MaxFaults
      BY <1>7, WatcherAssumption DEF TypeOK, Resync
    <2> QED BY <1>7, <2>1 DEF TypeOK, Resync
  <1> QED BY <1>1, <1>2, <1>3, <1>4, <1>5, <1>6, <1>7 DEF ClusterStep

\* The summary a worker asks for is one.
LEMMA SummaryType ==
    ASSUME TypeOK, NEW r \in Runs
    PROVE  /\ ResultOf[r] \in Results
           /\ Summary(r) \in [run: Runs \cup {NoOwner}, st: States]
           /\ EnsureSummary(r) => result' \in [Results ->
                [exists: BOOLEAN, sum: [run: Runs \cup {NoOwner}, st: States]]]
  <1>1. ResultOf[r] \in Results
    BY DEF Results
  <1>2. w[r].o.st \in States
    BY DEF TypeOK, Workers, Objects
  <1>3. Summary(r) \in [run: Runs \cup {NoOwner}, st: States]
    BY <1>2 DEF Summary, NoSummary, States
  <1>4. ASSUME EnsureSummary(r)
        PROVE  result' \in [Results ->
                [exists: BOOLEAN, sum: [run: Runs \cup {NoOwner}, st: States]]]
    BY <1>1, <1>3, <1>4, ZenonT(60) DEF TypeOK, EnsureSummary
  <1> QED BY <1>1, <1>3, <1>4

\* What a worker does leaves runs, workers and the archive.
LEMMA WorkerType ==
    ASSUME TypeOK, NEW r \in Runs, WorkerStep(r)
    PROVE  TypeOK'
  <1> USE DEF cluster, archive
  <1> DEFINE WQ == w' \in [Runs -> Workers] /\ queued' \in [Runs -> BOOLEAN]
             ResultType == [exists: BOOLEAN, sum: [run: Runs \cup {NoOwner}, st: States]]
  <1>o. obj[r] \in Objects /\ cache[r] \in Objects /\ w[r] \in Workers /\ w[r].o \in Objects
        /\ w[r].err \in BOOLEAN
    BY DEF TypeOK, Workers
  <1>s. /\ {"createResult", "updateResult", "upsertRecord", "getEvents", "storeEvents",
            "patchEvents", "patchIds", "patchReady", "deleteRun", "patchStored",
            "reconciled", "clearFinalizer"} \subseteq Steps
        /\ {"ids", "events", "ready", "stored"} \subseteq Keys
    BY DEF Steps, Keys
  <1>1. CASE Start(r)
    <2>1. w' \in [Runs -> Workers]
      <3>1. cache[r].deleting \in BOOLEAN
        BY <1>o DEF Objects
      <3>2. /\ Reconciling(cache[r], cache[r].deleting) \in Workers
            /\ [Idle EXCEPT !.pc = "setFinalizer", !.o = cache[r]] \in Workers
        BY <1>o, <3>1, EditedRuns
      <3> QED BY <1>1, <3>2 DEF TypeOK, Start
    <2> QED BY <1>1, <2>1 DEF TypeOK, Start
  <1>2. CASE SetFinalizer(r)
    <2> DEFINE o == [obj[r] EXCEPT !.fin = TRUE]
    <2>1. o \in Objects
      BY <1>o, EditedRuns
    <2>2. CASE Write(r, o) /\ w' = [w EXCEPT ![r] = Reconciling(o, FALSE)] /\ UNCHANGED queued
      <3>1. Reconciling(o, FALSE) \in Workers
        BY <2>1, EditedRuns
      <3>2. w' \in [Runs -> Workers]
        BY <2>2, <3>1 DEF TypeOK
      <3>3. obj' \in [Runs -> Objects] /\ feed' \in [Runs -> Seq(Objects)]
        BY <2>1, <2>2, WriteType
      <3> QED BY <1>2, <2>2, <3>2, <3>3 DEF TypeOK, SetFinalizer
    <2>3. CASE Leave(r, TRUE) /\ UNCHANGED cluster
      BY <1>2, <2>3, MoveType DEF TypeOK, SetFinalizer
    <2> QED BY <1>2, <2>2, <2>3 DEF SetFinalizer
  <1>3. CASE GetResult(r)
    <2>1. WQ
      BY <1>3, <1>s, MoveType DEF GetResult
    <2> QED BY <1>3, <2>1 DEF TypeOK, GetResult
  <1>4. CASE CreateResult(r)
    <2>1. WQ
      BY <1>4, <1>s, MoveType DEF CreateResult
    <2>2. [exists |-> TRUE, sum |-> Summary(r)] \in ResultType /\ ResultOf[r] \in Results
      BY SummaryType
    <2>3. result' \in [Results -> ResultType]
      BY <1>4, <2>2 DEF CreateResult, TypeOK
    <2> QED BY <1>4, <2>1, <2>3 DEF TypeOK, CreateResult
  <1>5. CASE UpdateResult(r)
    <2>1. WQ
      BY <1>5, <1>s, MoveType DEF UpdateResult
    <2>2. [exists |-> TRUE, sum |-> Summary(r)] \in ResultType /\ ResultOf[r] \in Results
      BY SummaryType
    <2>3. result' \in [Results -> ResultType]
      BY <1>5, <2>2 DEF UpdateResult, TypeOK
    <2> QED BY <1>5, <2>1, <2>3 DEF TypeOK, UpdateResult
  <1>6. CASE UpsertRecord(r)
    <2>1. WQ
      BY <1>6, <1>s, MoveType DEF UpsertRecord
    <2>2. w[r].o.st \in States
      BY <1>o DEF Objects
    <2> QED BY <1>6, <2>1, <2>2 DEF TypeOK, UpsertRecord
  <1>7. CASE GetEventListRecord(r)
    <2>1. WQ
      BY <1>7, <1>s, MoveType DEF GetEventListRecord
    <2> QED BY <1>7, <2>1, SummaryType DEF TypeOK, GetEventListRecord
  <1>8. CASE PutEventList(r)
    <2>1. WQ
      BY <1>8, <1>s, MoveType DEF PutEventList
    <2>2. events' \in [Runs -> BOOLEAN]
      BY <1>8 DEF TypeOK, PutEventList
    <2> QED BY <1>8, <2>1, <2>2, SummaryType DEF TypeOK, PutEventList
  <1>9. CASE PatchEvents(r)
    BY <1>9, <1>s, PatchType DEF TypeOK, PatchEvents
  <1>10. CASE PatchIds(r)
    <2>1. PICK next \in Steps : Patch(r, "ids", "true", next)
      BY <1>10, <1>s DEF PatchIds
    <2> QED BY <1>10, <1>s, <2>1, PatchType DEF TypeOK, PatchIds
  <1>11. CASE PatchReady(r)
    BY <1>11, <1>s, PatchType DEF TypeOK, PatchReady
  <1>12. CASE deleteUponCompletion(r)
    <2>1. WQ
      BY <1>12, <1>s, MoveType DEF deleteUponCompletion
    <2>2. [obj[r] EXCEPT !.deleting = TRUE] \in Objects
      BY <1>o, EditedRuns
    <2>3. obj' \in [Runs -> Objects] /\ feed' \in [Runs -> Seq(Objects)]
      BY <1>12, <2>2, WriteType DEF TypeOK, deleteUponCompletion
    <2> QED BY <1>12, <2>1, <2>3 DEF TypeOK, deleteUponCompletion
  <1>13. CASE PatchStored(r)
    <2>1. StoredValue(w[r].o) \in {"", "false", "true"}
      BY DEF StoredValue
    <2>2. /\ obj' \in [Runs -> Objects] /\ feed' \in [Runs -> Seq(Objects)]
          /\ WQ
      BY <1>13, <1>s, <2>1, PatchType DEF PatchStored
    <2> QED BY <1>13, <2>2 DEF TypeOK, PatchStored
  <1>14. CASE EndReconcile(r)
    <2>1. WQ
      BY <1>14, <1>o, MoveType DEF EndReconcile
    <2> QED BY <1>14, <2>1 DEF TypeOK, EndReconcile
  <1>15. CASE finalize(r)
    <2>1. WQ
      BY <1>15, <1>s, MoveType DEF finalize
    <2> QED BY <1>15, <2>1 DEF TypeOK, finalize
  <1>16. CASE ClearFinalizer(r)
    <2>1. WQ
      BY <1>16, MoveType DEF ClearFinalizer
    <2>2. [obj[r] EXCEPT !.fin = FALSE] \in Objects
      BY <1>o, EditedRuns
    <2>3. obj' \in [Runs -> Objects] /\ feed' \in [Runs -> Seq(Objects)]
      BY <1>16, <2>2, WriteType DEF TypeOK, ClearFinalizer
    <2> QED BY <1>16, <2>1, <2>3 DEF TypeOK, ClearFinalizer
  <1> QED
    BY <1>1, <1>2, <1>3, <1>4, <1>5, <1>6, <1>7, <1>8, <1>9, <1>10, <1>11, <1>12,
       <1>13, <1>14, <1>15, <1>16 DEF WorkerStep

\* The whole of the state stays well formed.
LEMMA StepType == TypeOK /\ [Next]_vars => TypeOK'
  <1> SUFFICES ASSUME TypeOK, [Next]_vars
               PROVE  TypeOK'
    OBVIOUS
  <1> USE DEF cluster, archive, watcherState
  <1>1. ASSUME NEW r \in Runs, WorkerStep(r) PROVE TypeOK'
    BY <1>1, WorkerType
  <1>2. ASSUME NEW r \in Runs, ClusterStep(r) PROVE TypeOK'
    BY <1>2, ClusterType
  <1>3. ASSUME NEW r \in Runs, CallFails(r) PROVE TypeOK'
    <2>1. w' \in [Runs -> Workers] /\ queued' \in [Runs -> BOOLEAN]
      BY <1>3, MoveType DEF CallFails
    <2>2. faults' \in 0..MaxFaults
      BY <1>3, WatcherAssumption DEF TypeOK, CallFails
    <2> QED BY <1>3, <2>1, <2>2 DEF TypeOK, CallFails
  <1>4. CASE Tick
    <2>1. age' \in [Runs -> 0..MaxAge]
      BY <1>4, WatcherAssumption DEF TypeOK, Tick, Aging
    <2> QED BY <1>4, <2>1 DEF TypeOK, Tick
  <1>5. CASE Restart
    <2>1. w' \in [Runs -> Workers] /\ queued' \in [Runs -> BOOLEAN]
      BY <1>5, EditedRuns DEF Restart, Live
    <2>2. faults' \in 0..MaxFaults
      BY <1>5, WatcherAssumption DEF TypeOK, Restart
    <2>3. feed' \in [Runs -> Seq(Objects)]
      BY <1>5 DEF Restart
    <2> QED BY <1>5, <2>1, <2>2, <2>3 DEF TypeOK, Restart
  <1>6. CASE UNCHANGED vars
    BY <1>6 DEF TypeOK, vars
  <1> QED BY <1>1, <1>2, <1>3, <1>4, <1>5, <1>6 DEF Next, Quiescent

\* Runs, workers, the archive and the counters have their types, in every
\* configuration of the watcher.
THEOREM WatcherTypeCorrect == Spec => []TypeOK
  <1>1. Init => TypeOK
    <2> SUFFICES ASSUME Init PROVE TypeOK
      OBVIOUS
    <2>1. NoSummary \in [run: Runs \cup {NoOwner}, st: States]
      BY DEF NoSummary, States
    <2>2. result \in [Results -> [exists: BOOLEAN,
                                  sum: [run: Runs \cup {NoOwner}, st: States]]]
      BY <2>1 DEF Init
    <2>3. age \in [Runs -> 0..MaxAge] /\ faults \in 0..MaxFaults
      BY WatcherAssumption DEF Init
    <2>4. feed \in [Runs -> Seq(Objects)] /\ record \in [Runs -> States \cup {"none"}]
      BY DEF Init
    <2>5. /\ obj \in [Runs -> Objects] /\ cache \in [Runs -> Objects]
          /\ w \in [Runs -> Workers]
      BY EditedRuns DEF Init
    <2>6. queued \in [Runs -> BOOLEAN] /\ events \in [Runs -> BOOLEAN]
      BY DEF Init
    <2> QED BY <2>2, <2>3, <2>4, <2>5, <2>6 DEF TypeOK
  <1> QED BY <1>1, StepType, PTL DEF Spec

----------------------------------------------------------------------------
(* Where annotations come from                                             *)

NoAnnotations == [k \in Keys |-> ""]

\* Every copy of r there is: in the cluster, on its way to the informer, in
\* its cache, in the hands of the worker.
Copies(r) == {obj[r], cache[r], w[r].o} \cup {feed[r][i] : i \in 1..Len(feed[r])}

Annotations(r) == {o.ann : o \in Copies(r)}

PatchSteps == {"patchEvents", "patchIds", "patchReady", "patchStored"}

\* The annotation that the worker sets at a step.
KeyAt(pc) == CASE pc = "patchEvents" -> "events"
               [] pc = "patchIds"    -> "ids"
               [] pc = "patchReady"  -> "ready"
               [] pc = "patchStored" -> "stored"

\* The annotations that the next patch of r's worker leaves.
Patched(r) ==
    IF w[r].pc \in PatchSteps
    THEN {[w[r].o.ann EXCEPT ![KeyAt(w[r].pc)] = v] : v \in {"true", "false"}}
    ELSE {}

\* What is delivered to the informer was written to the cluster before.
LEMMA WriteCopies ==
    ASSUME TypeOK, NEW r \in Runs, NEW o \in Objects, Write(r, o)
    PROVE  \A q \in Runs :
              /\ q # r => obj'[q] = obj[q] /\ feed'[q] = feed[q]
              /\ obj'[q].ann \in Annotations(q) \cup {NoAnnotations, o.ann}
              /\ \A i \in 1..Len(feed'[q]) :
                    feed'[q][i].ann \in Annotations(q) \cup {NoAnnotations, o.ann}
  <1>1. Settle(o).ann \in {NoAnnotations, o.ann}
    BY DEF Settle, Gone, Unborn, NoAnnotations
  <1>2. \A q \in Runs : /\ obj[q].ann \in Annotations(q)
                        /\ \A i \in 1..Len(feed[q]) : feed[q][i].ann \in Annotations(q)
    BY DEF Annotations, Copies
  <1>3. CASE UNCHANGED cluster
    BY <1>2, <1>3 DEF cluster
  <1>4. CASE obj' = [obj EXCEPT ![r] = Settle(o)]
             /\ feed' = [feed EXCEPT ![r] = Append(@, Settle(o))]
    <2>1. obj'[r] = Settle(o) /\ \A q \in Runs : q # r => obj'[q] = obj[q]
      BY <1>4 DEF TypeOK
    <2>2. feed'[r] = Append(feed[r], Settle(o)) /\ \A q \in Runs : q # r => feed'[q] = feed[q]
      BY <1>4 DEF TypeOK
    <2>3. feed[r] \in Seq(Objects)
      BY DEF TypeOK
    <2>4. \A i \in 1..Len(feed'[r]) :
             feed'[r][i] = Settle(o) \/ (i \in 1..Len(feed[r]) /\ feed'[r][i] = feed[r][i])
      BY <2>2, <2>3
    <2> QED BY <1>1, <1>2, <2>1, <2>2, <2>4
  <1> QED BY <1>3, <1>4 DEF Write

\* The annotations of the copies after a step, variable by variable.
LEMMA CopiesAfter ==
    ASSUME NEW S, NEW r \in Runs,
           obj'[r].ann \in S, cache'[r].ann \in S, w'[r].o.ann \in S,
           \A i \in 1..Len(feed'[r]) : feed'[r][i].ann \in S
    PROVE  Annotations(r)' \subseteq S
  BY DEF Annotations, Copies

\* A worker that goes on, returns or leaves keeps its copy or drops it.
LEMMA MoveCopies ==
    ASSUME TypeOK, NEW r \in Runs, NEW q \in Runs
    PROVE  /\ w[q].o.ann \in Annotations(q)
           /\ \A p : Goto(r, p) => w'[q].o = w[q].o
           /\ Return(r, TRUE) => w'[q].o = w[q].o
           /\ \A e : Leave(r, e) => w'[q].o.ann \in Annotations(q) \cup {NoAnnotations}
  <1>1. w[q].o.ann \in Annotations(q)
    BY DEF Annotations, Copies
  <1>2. ASSUME NEW p, Goto(r, p) PROVE w'[q].o = w[q].o
    BY <1>2 DEF TypeOK, Goto, Workers
  <1>3. ASSUME Return(r, TRUE) PROVE w'[q].o = w[q].o
    BY <1>3 DEF TypeOK, Return, Workers
  <1>4. ASSUME NEW e, Leave(r, e)
        PROVE  w'[q].o.ann \in Annotations(q) \cup {NoAnnotations}
    BY <1>1, <1>4 DEF TypeOK, Leave, Idle, Unborn, NoAnnotations
  <1> QED BY <1>1, <1>2, <1>3, <1>4

\* The annotations that copies of q may have after the next step.
Reachable(q) == Annotations(q) \cup {NoAnnotations} \cup Patched(q)

\* A run that is written with reachable annotations is announced with them.
LEMMA WriteReachable ==
    ASSUME TypeOK, NEW r \in Runs, NEW o \in Objects, Write(r, o),
           o.ann \in Reachable(r), NEW q \in Runs
    PROVE  /\ obj'[q].ann \in Reachable(q)
           /\ \A i \in 1..Len(feed'[q]) : feed'[q][i].ann \in Reachable(q)
  <1>1. Annotations(q) \cup {NoAnnotations} \subseteq Reachable(q)
    BY DEF Reachable
  <1>2. CASE q = r
    BY <1>1, <1>2, WriteCopies
  <1>3. CASE q # r
    <2>1. /\ obj[q].ann \in Annotations(q)
          /\ \A i \in 1..Len(feed[q]) : feed[q][i].ann \in Annotations(q)
      BY DEF Annotations, Copies
    <2> QED BY <1>1, <1>3, <2>1, WriteCopies
  <1> QED BY <1>2, <1>3

\* So is what annotation.Patch writes and keeps.
LEMMA PatchReachable ==
    ASSUME TypeOK, NEW r \in Runs, w[r].pc \in PatchSteps, NEW v \in {"true", "false"},
           NEW next \in Steps, Patch(r, KeyAt(w[r].pc), v, next), NEW q \in Runs
    PROVE  /\ obj'[q].ann \in Reachable(q) /\ w'[q].o.ann \in Reachable(q)
           /\ \A i \in 1..Len(feed'[q]) : feed'[q][i].ann \in Reachable(q)
  <1> DEFINE ann == [w[r].o.ann EXCEPT ![KeyAt(w[r].pc)] = v]
  <1>1. /\ obj[q].ann \in Reachable(q) /\ w[q].o.ann \in Reachable(q)
        /\ \A i \in 1..Len(feed[q]) : feed[q][i].ann \in Reachable(q)
    BY DEF Reachable, Annotations, Copies
  <1>2. ann \in Reachable(r) /\ ann \in [Keys -> {"", "false", "true"}]
    <2>1. ann \in Patched(r)
      BY DEF Patched
    <2>2. KeyAt(w[r].pc) \in Keys
      BY DEF KeyAt, Keys, PatchSteps
    <2>3. w[r].o.ann \in [Keys -> {"", "false", "true"}]
      BY DEF TypeOK, Workers, Objects
    <2> QED BY <2>1, <2>2, <2>3 DEF Reachable
  <1>3. CASE Write(r, [obj[r] EXCEPT !.ann = ann])
             /\ w' = [w EXCEPT ![r].o.ann = ann, ![r].pc = next]
    <2>1. obj[r] \in Objects /\ w[r] \in Workers /\ w[r].o \in Objects
      BY DEF TypeOK, Workers
    <2>2. [obj[r] EXCEPT !.ann = ann] \in Objects /\ [obj[r] EXCEPT !.ann = ann].ann = ann
      BY <1>2, <2>1 DEF Objects
    <2>3. w'[q].o.ann \in Reachable(q)
      <3>1. CASE q # r
        BY <1>1, <1>3, <3>1 DEF TypeOK
      <3>2. CASE q = r
        <4>1. w'[r].o.ann = ann
          BY <1>3, <2>1 DEF TypeOK, Workers, Objects
        <4> QED BY <1>2, <3>2, <4>1
      <3> QED BY <3>1, <3>2
    <2> QED BY <1>2, <1>3, <2>2, <2>3, WriteReachable
  <1>4. CASE Goto(r, next) /\ UNCHANGED cluster
    BY <1>1, <1>4, MoveCopies DEF cluster
  <1>5. CASE Return(r, TRUE) /\ UNCHANGED cluster
    BY <1>1, <1>5, MoveCopies DEF cluster
  <1> QED BY <1>3, <1>4, <1>5 DEF Patch

\* A step makes no annotation up: every copy afterwards has the annotations
\* of an earlier copy, none, or those of an earlier copy with the one that the
\* worker sets at its patch step.
LEMMA AnnotationOrigin ==
    ASSUME TypeOK, [Next]_vars, NEW q \in Runs
    PROVE  Annotations(q)' \subseteq Reachable(q)
  <1> USE DEF cluster, archive, watcherState
  <1>a. /\ obj[q].ann \in Reachable(q) /\ cache[q].ann \in Reachable(q)
        /\ w[q].o.ann \in Reachable(q) /\ NoAnnotations \in Reachable(q)
        /\ \A i \in 1..Len(feed[q]) : feed[q][i].ann \in Reachable(q)
    BY DEF Reachable, Annotations, Copies
  <1>b. ASSUME UNCHANGED <<obj, feed, cache, w>>
        PROVE  Annotations(q)' \subseteq Reachable(q)
    BY <1>a, <1>b, CopiesAfter
  <1>c. ASSUME UNCHANGED <<obj, feed, cache>>, w'[q].o.ann \in Reachable(q)
        PROVE  Annotations(q)' \subseteq Reachable(q)
    BY <1>a, <1>c, CopiesAfter
  <1>d. ASSUME NEW r \in Runs, NEW o \in Objects, Write(r, o), o.ann = obj[r].ann,
               UNCHANGED cache, w'[q].o.ann \in Reachable(q)
        PROVE  Annotations(q)' \subseteq Reachable(q)
    <2>1. o.ann \in Reachable(r)
      BY <1>d DEF Reachable, Annotations, Copies
    <2> QED BY <1>a, <1>d, <2>1, WriteReachable, CopiesAfter
  <1>e. \A r \in Runs : obj[r] \in Objects /\ cache[r] \in Objects /\ feed[r] \in Seq(Objects)
    BY DEF TypeOK
  <1>f. ASSUME NEW o \in Objects
        PROVE  /\ [o EXCEPT !.phase = "live"].ann = o.ann
               /\ \A st \in States : [o EXCEPT !.st = st].ann = o.ann
               /\ [o EXCEPT !.deleting = TRUE].ann = o.ann
               /\ \A b \in BOOLEAN : [o EXCEPT !.fin = b].ann = o.ann
               /\ [o EXCEPT !.req = TRUE].ann = o.ann
               /\ [Idle EXCEPT !.pc = "setFinalizer", !.o = o].o = o
               /\ \A b : Reconciling(o, b).o = o
    BY DEF Objects, Idle, Reconciling
  <1>1. ASSUME NEW r \in Runs, WorkerStep(r)
        PROVE  Annotations(q)' \subseteq Reachable(q)
    <2>1. CASE Start(r)
      <3>1. w'[q].o.ann \in {w[q].o.ann, cache[q].ann}
        <4>1. CASE UNCHANGED w
          BY <4>1
        <4>2. CASE w' = [w EXCEPT ![r] = Reconciling(cache[r], cache[r].deleting)]
          <5>1. Reconciling(cache[r], cache[r].deleting).o = cache[r]
            BY <1>e, <1>f
          <5> QED BY <4>2, <5>1 DEF TypeOK
        <4>3. CASE w' = [w EXCEPT ![r] = [Idle EXCEPT !.pc = "setFinalizer", !.o = cache[r]]]
          <5>1. [Idle EXCEPT !.pc = "setFinalizer", !.o = cache[r]].o = cache[r]
            BY <1>e, <1>f
          <5> QED BY <4>3, <5>1 DEF TypeOK
        <4> QED BY <2>1, <4>1, <4>2, <4>3 DEF Start
      <3> QED BY <1>a, <1>c, <2>1, <3>1 DEF Start
    <2>2. CASE SetFinalizer(r)
      <3> DEFINE o == [obj[r] EXCEPT !.fin = TRUE]
      <3>1. o \in Objects /\ o.ann = obj[r].ann
        BY <1>e, <1>f, EditedRuns
      <3>2. CASE Write(r, o) /\ w' = [w EXCEPT ![r] = Reconciling(o, FALSE)]
        <4>1. w'[q].o.ann \in {w[q].o.ann, obj[q].ann}
          BY <1>f, <3>1, <3>2, ZenonT(60) DEF TypeOK
        <4> QED BY <1>a, <1>d, <2>2, <3>1, <3>2, <4>1 DEF SetFinalizer
      <3>3. CASE Leave(r, TRUE) /\ UNCHANGED cluster
        <4>1. w'[q].o.ann \in Reachable(q)
          BY <3>3, MoveCopies DEF Reachable
        <4> QED BY <1>c, <2>2, <3>3, <4>1 DEF SetFinalizer
      <3> QED BY <2>2, <3>2, <3>3 DEF SetFinalizer
    <2>3. CASE \/ GetResult(r) \/ CreateResult(r) \/ UpdateResult(r) \/ UpsertRecord(r)
               \/ GetEventListRecord(r) \/ PutEventList(r)
      <3>1. \E p : Goto(r, p)
        BY <2>3 DEF GetResult, CreateResult, UpdateResult, UpsertRecord,
                    GetEventListRecord, PutEventList
      <3>2. w'[q].o.ann \in Reachable(q)
        BY <1>a, <3>1, MoveCopies
      <3> QED BY <1>c, <2>3, <3>2 DEF GetResult, CreateResult, UpdateResult, UpsertRecord,
                    GetEventListRecord, PutEventList
    <2>4. CASE PatchEvents(r) \/ PatchIds(r) \/ PatchReady(r) \/ PatchStored(r)
      <3>1. w[r].pc \in PatchSteps /\ UNCHANGED cache
        BY <2>4 DEF PatchEvents, PatchIds, PatchReady, PatchStored, At, PatchSteps
      <3>2. PICK v \in {"true", "false"}, next \in Steps : Patch(r, KeyAt(w[r].pc), v, next)
        <4>1. {"patchIds", "patchReady", "deleteRun", "reconciled"} \subseteq Steps
          BY DEF Steps
        <4>2. CASE PatchEvents(r)
          BY <4>1, <4>2 DEF PatchEvents, At, KeyAt
        <4>3. CASE PatchIds(r)
          BY <4>1, <4>3 DEF PatchIds, At, KeyAt
        <4>4. CASE PatchReady(r)
          BY <4>1, <4>4 DEF PatchReady, At, KeyAt
        <4>5. CASE PatchStored(r)
          <5>1. StoredValue(w[r].o) \in {"true", "false"}
            BY DEF StoredValue
          <5> QED BY <4>1, <4>5, <5>1 DEF PatchStored, At, KeyAt
        <4> QED BY <2>4, <4>2, <4>3, <4>4, <4>5
      <3> QED BY <1>a, <3>1, <3>2, PatchReachable, CopiesAfter
    <2>5. CASE deleteUponCompletion(r)
      <3>1. \/ \E p : Goto(r, p)
            \/ Return(r, TRUE)
        BY <2>5 DEF deleteUponCompletion
      <3>2. w'[q].o.ann \in Reachable(q)
        BY <1>a, <3>1, MoveCopies
      <3>3. CASE UNCHANGED cluster
        BY <1>c, <2>5, <3>2, <3>3 DEF deleteUponCompletion
      <3>4. CASE Write(r, [obj[r] EXCEPT !.deleting = TRUE])
        BY <1>d, <1>e, <1>f, <2>5, <3>2, <3>4, EditedRuns DEF deleteUponCompletion
      <3> QED BY <2>5, <3>3, <3>4 DEF deleteUponCompletion
    <2>6. CASE EndReconcile(r) \/ finalize(r)
      <3>1. (\E p : Goto(r, p)) \/ \E e : Leave(r, e)
        BY <2>6 DEF EndReconcile, finalize
      <3>2. w'[q].o.ann \in Reachable(q)
        BY <1>a, <3>1, MoveCopies DEF Reachable
      <3> QED BY <1>c, <2>6, <3>2 DEF EndReconcile, finalize
    <2>7. CASE ClearFinalizer(r)
      <3>1. w'[q].o.ann \in Reachable(q)
        BY <2>7, MoveCopies DEF ClearFinalizer, Reachable
      <3>2. CASE UNCHANGED cluster
        BY <1>c, <2>7, <3>1, <3>2 DEF ClearFinalizer
      <3>3. CASE Write(r, [obj[r] EXCEPT !.fin = FALSE])
        BY <1>d, <1>e, <1>f, <2>7, <3>1, <3>3, EditedRuns DEF ClearFinalizer
      <3> QED BY <2>7, <3>2, <3>3 DEF ClearFinalizer
    <2> QED BY <1>1, <2>1, <2>2, <2>3, <2>4, <2>5, <2>6, <2>7 DEF WorkerStep
  <1>2. ASSUME NEW r \in Runs, ClusterStep(r)
        PROVE  Annotations(q)' \subseteq Reachable(q)
    <2>1. CASE Create(r)
      BY <1>a, <1>d, <1>e, <1>f, <2>1, EditedRuns DEF Create
    <2>2. ASSUME NEW st \in States, Finish(r, st)
          PROVE  Annotations(q)' \subseteq Reachable(q)
      BY <1>a, <1>d, <1>e, <1>f, <2>2, EditedRuns, ZenonT(60) DEF Finish
    <2>3. CASE UserDelete(r) \/ CascadeDelete(r)
      BY <1>a, <1>d, <1>e, <1>f, <2>3, EditedRuns, ZenonT(60) DEF UserDelete, CascadeDelete
    <2>4. CASE Annotate(r)
      BY <1>a, <1>d, <1>e, <1>f, <2>4, EditedRuns DEF Annotate
    <2>5. CASE Sync(r)
      <3>1. feed[r] \in Seq(Objects) /\ feed[r] # <<>>
        BY <2>5, <1>e DEF Sync
      <3>2. /\ Head(feed[r]) = feed[r][1] /\ 1 \in 1..Len(feed[r])
            /\ Len(Tail(feed[r])) = Len(feed[r]) - 1
            /\ \A i \in 1..Len(Tail(feed[r])) :
                  Tail(feed[r])[i] = feed[r][i + 1] /\ i + 1 \in 1..Len(feed[r])
        BY <3>1
      <3>3. cache'[q].ann \in Reachable(q)
        BY <1>a, <2>5, <3>2 DEF Sync, TypeOK
      <3>4. \A i \in 1..Len(feed'[q]) : feed'[q][i].ann \in Reachable(q)
        BY <1>a, <2>5, <3>2 DEF Sync, TypeOK
      <3> QED BY <1>a, <2>5, <3>3, <3>4, CopiesAfter DEF Sync
    <2>6. CASE Resync(r)
      BY <1>b, <2>6 DEF Resync
    <2> QED BY <1>2, <2>1, <2>2, <2>3, <2>4, <2>5, <2>6 DEF ClusterStep
  <1>3. ASSUME NEW r \in Runs, CallFails(r)
        PROVE  Annotations(q)' \subseteq Reachable(q)
    <2>1. w'[q].o.ann \in Reachable(q)
      BY <1>3, <1>a, MoveCopies DEF CallFails, Reachable
    <2> QED BY <1>3, <1>c, <2>1 DEF CallFails
  <1>4. CASE Restart
    <2>1. w'[q].o.ann = NoAnnotations /\ cache'[q] = obj[q] /\ feed'[q] = <<>>
      BY <1>4 DEF Restart, Idle, Unborn, NoAnnotations
    <2> QED BY <1>a, <1>4, <2>1, CopiesAfter DEF Restart
  <1>5. CASE Tick \/ Quiescent \/ UNCHANGED vars
    BY <1>b, <1>5 DEF Tick, Quiescent, vars
  <1> QED BY <1>1, <1>2, <1>3, <1>4, <1>5 DEF Next

----------------------------------------------------------------------------
(* How a worker goes through the archive                                   *)

\* Before and after the Record is written.
BeforeUpsert == {"getResult", "createResult", "updateResult", "upsertRecord"}
AfterUpsert == {"getEvents", "storeEvents"} \cup PatchSteps \cup {"deleteRun"}

\* What a step does for the worker of q and for what q has in the archive.
Advance(q) ==
    /\ record'[q] = record[q] \/ (At(q, "upsertRecord") /\ record'[q] = w[q].o.st)
    /\ events[q] => events'[q]
    /\ w'[q].pc \in BeforeUpsert =>
          \/ w[q].pc \in BeforeUpsert /\ w'[q].o.st = w[q].o.st
          \/ ~Skipped(w'[q].o)
    /\ w'[q].pc \in AfterUpsert =>
          \/ w[q].pc \in AfterUpsert /\ record'[q] = record[q]
          \/ At(q, "upsertRecord") /\ record'[q] = w[q].o.st
    /\ w'[q].pc = "upsertRecord" =>
          At(q, "upsertRecord") \/ result'[ResultOf[q]].exists
    /\ w'[q].pc = "patchEvents" => At(q, "patchEvents") \/ events'[q]
    /\ w'[q].pc = "clearFinalizer" =>
          w'[q].o = w[q].o /\ (At(q, "clearFinalizer") \/ Releasable(q))
    /\ age[q] <= age'[q]

\* Results are not lost, whoever works on them.
ResultsKept == \A n \in Results : result[n].exists => result'[n].exists

\* A step of a worker touches its own run only, apart from the Result.
LEMMA OtherRuns ==
    ASSUME TypeOK, NEW r \in Runs, WorkerStep(r), NEW q \in Runs, q # r
    PROVE  UNCHANGED <<w[q], record[q], events[q], age[q]>>
  <1> USE DEF archive, TypeOK
  <1>1. w'[q] = w[q]
    BY DEF WorkerStep, Start, SetFinalizer, GetResult, CreateResult, UpdateResult,
           UpsertRecord, GetEventListRecord, PutEventList, PatchEvents, PatchIds, PatchReady,
           deleteUponCompletion, PatchStored, EndReconcile, finalize, ClearFinalizer,
           Goto, Return, Leave, Patch
  <1>2. record'[q] = record[q] /\ events'[q] = events[q] /\ age'[q] = age[q]
    BY DEF WorkerStep, Start, SetFinalizer, GetResult, CreateResult, UpdateResult,
           UpsertRecord, GetEventListRecord, PutEventList, PatchEvents, PatchIds, PatchReady,
           deleteUponCompletion, PatchStored, EndReconcile, finalize, ClearFinalizer
  <1> QED BY <1>1, <1>2

\* A worker goes on with its copy, or returns with it, or leaves.
LEMMA Moves ==
    ASSUME TypeOK, NEW r \in Runs
    PROVE  /\ \A p : Goto(r, p) => w'[r].pc = p /\ w'[r].o = w[r].o
           /\ Return(r, TRUE) => w'[r].pc = "reconciled"
           /\ \A e : Leave(r, e) => w'[r].pc = "idle"
           /\ \A key, val, next : Patch(r, key, val, next) =>
                 \/ w'[r].pc = "reconciled"
                 \/ w'[r].pc = next
  <1>0. w \in [Runs -> Workers] /\ w[r] \in Workers
    BY DEF TypeOK
  <1>1. ASSUME NEW p, Goto(r, p) PROVE w'[r].pc = p /\ w'[r].o = w[r].o
    BY <1>0, <1>1 DEF Goto, Workers
  <1>2. ASSUME Return(r, TRUE) PROVE w'[r].pc = "reconciled"
    BY <1>0, <1>2 DEF Return, Workers
  <1>3. ASSUME NEW e, Leave(r, e) PROVE w'[r].pc = "idle"
    BY <1>0, <1>3 DEF Leave, Idle
  <1>4. ASSUME NEW key, NEW val, NEW next, Patch(r, key, val, next)
        PROVE  w'[r].pc = "reconciled" \/ w'[r].pc = next
    BY <1>0, <1>1, <1>2, <1>4, ZenonT(60) DEF Patch, Workers
  <1> QED BY <1>1, <1>2, <1>3, <1>4

\* A worker's own step.
LEMMA OwnAdvance ==
    ASSUME TypeOK, NEW r \in Runs, WorkerStep(r)
    PROVE  Advance(r) /\ ResultsKept
  <1> USE DEF archive, At
  <1>0. /\ age[r] \in Int
        /\ ResultOf[r] \in Results /\ result \in [Results -> [exists: BOOLEAN,
                               sum: [run: Runs \cup {NoOwner}, st: States]]]
        /\ w \in [Runs -> Workers] /\ w[r] \in Workers
        /\ record \in [Runs -> States \cup {"none"}] /\ events \in [Runs -> BOOLEAN]
    BY DEF TypeOK, Results
  <1>s. ASSUME EnsureSummary(r) PROVE ResultsKept
    BY <1>0, <1>s DEF EnsureSummary, ResultsKept
  <1>1. CASE Start(r)
    <2>1. \/ w'[r] = w[r] \/ w'[r].pc \in {"setFinalizer", "reconciled"}
          \/ w'[r].pc = "getResult" /\ ~Skipped(w'[r].o)
      <3>1. CASE UNCHANGED w
        BY <3>1
      <3>2. CASE w' = [w EXCEPT ![r] = Reconciling(cache[r], cache[r].deleting)]
        <4>1. w'[r] = Reconciling(cache[r], cache[r].deleting)
          BY <1>0, <3>2
        <4> QED BY <4>1 DEF Reconciling
      <3>3. CASE w' = [w EXCEPT ![r] = [Idle EXCEPT !.pc = "setFinalizer", !.o = cache[r]]]
        BY <1>0, <3>3 DEF Idle
      <3> QED BY <1>1, <3>1, <3>2, <3>3 DEF Start
    <2> QED BY <1>0, <1>1, <2>1
            DEF Start, Advance, ResultsKept, BeforeUpsert, AfterUpsert, PatchSteps
  <1>2. CASE SetFinalizer(r)
    <2>1. w'[r].pc = "idle" \/ w'[r].pc = "reconciled"
          \/ (w'[r].pc = "getResult" /\ ~Skipped(w'[r].o))
      <3>1. CASE Leave(r, TRUE)
        BY <3>1, Moves
      <3>2. CASE w' = [w EXCEPT ![r] = Reconciling([obj[r] EXCEPT !.fin = TRUE], FALSE)]
        BY <1>0, <3>2 DEF Reconciling
      <3> QED BY <1>2, <3>1, <3>2 DEF SetFinalizer
    <2> QED BY <1>0, <1>2, <2>1
            DEF SetFinalizer, Advance, ResultsKept, BeforeUpsert, AfterUpsert, PatchSteps
  <1>3. CASE GetResult(r)
    <2>1. /\ w'[r].o = w[r].o
          /\ \/ w'[r].pc \in {"createResult", "updateResult"}
             \/ w'[r].pc = "upsertRecord" /\ result[ResultOf[r]].exists
      BY <1>3, Moves DEF GetResult
    <2> QED BY <1>0, <1>3, <2>1
            DEF GetResult, Advance, ResultsKept, BeforeUpsert, AfterUpsert, PatchSteps
  <1>4. CASE CreateResult(r) \/ UpdateResult(r)
    <2>1. w'[r].o = w[r].o /\ w'[r].pc = "upsertRecord"
      BY <1>4, Moves DEF CreateResult, UpdateResult
    <2>2. result'[ResultOf[r]].exists /\ ResultsKept
      BY <1>0, <1>4 DEF CreateResult, UpdateResult, ResultsKept
    <2> QED BY <1>0, <1>4, <2>1, <2>2
            DEF CreateResult, UpdateResult, Advance, BeforeUpsert, AfterUpsert, PatchSteps
  <1>5. CASE UpsertRecord(r)
    <2>1. w'[r].pc \in {"getEvents", "patchIds"}
      BY <1>5, Moves DEF UpsertRecord
    <2>2. record'[r] = w[r].o.st
      BY <1>0, <1>5 DEF UpsertRecord
    <2> QED BY <1>0, <1>5, <2>1, <2>2
            DEF UpsertRecord, Advance, ResultsKept, BeforeUpsert, AfterUpsert, PatchSteps
  <1>6. CASE GetEventListRecord(r)
    <2>1. w'[r].pc = "storeEvents" \/ (w'[r].pc = "patchEvents" /\ events[r])
      BY <1>6, Moves DEF GetEventListRecord
    <2> QED BY <1>0, <1>6, <1>s, <2>1
            DEF GetEventListRecord, Advance, BeforeUpsert, AfterUpsert, PatchSteps
  <1>7. CASE PutEventList(r)
    <2>1. w'[r].pc = "patchEvents" /\ events'[r]
      BY <1>0, <1>7, Moves DEF PutEventList
    <2> QED BY <1>0, <1>7, <1>s, <2>1
            DEF PutEventList, Advance, BeforeUpsert, AfterUpsert, PatchSteps
  <1>8. CASE PatchEvents(r) \/ PatchIds(r) \/ PatchReady(r) \/ PatchStored(r)
    <2>1. w'[r].pc \in {"reconciled", "patchIds", "patchReady", "deleteRun"}
      BY <1>8, Moves DEF PatchEvents, PatchIds, PatchReady, PatchStored
    <2>2. w[r].pc \in PatchSteps /\ UNCHANGED <<archive, age>>
      BY <1>8 DEF PatchEvents, PatchIds, PatchReady, PatchStored, PatchSteps
    <2> QED BY <1>0, <2>1, <2>2
            DEF Advance, ResultsKept, BeforeUpsert, AfterUpsert, PatchSteps
  <1>9. CASE deleteUponCompletion(r)
    <2>1. w'[r].pc \in {"reconciled", "patchStored"}
      BY <1>9, Moves DEF deleteUponCompletion
    <2> QED BY <1>0, <1>9, <2>1
            DEF deleteUponCompletion, Advance, ResultsKept, BeforeUpsert, AfterUpsert,
                PatchSteps
  <1>10. CASE EndReconcile(r) \/ finalize(r) \/ ClearFinalizer(r)
    <2>1. \/ w'[r].pc = "idle"
          \/ w'[r].pc = "clearFinalizer" /\ w'[r].o = w[r].o /\ Releasable(r)
      BY <1>10, Moves DEF EndReconcile, finalize, ClearFinalizer
    <2>2. UNCHANGED <<archive, age>>
      BY <1>10 DEF EndReconcile, finalize, ClearFinalizer
    <2> QED BY <1>0, <2>1, <2>2 DEF Advance, ResultsKept, BeforeUpsert, AfterUpsert, PatchSteps
  <1> QED
    BY <1>1, <1>2, <1>3, <1>4, <1>5, <1>6, <1>7, <1>8, <1>9, <1>10 DEF WorkerStep

\* Any step: workers advance one at a time, and only a restart takes a worker
\* from the archive with its work half done.
LEMMA EveryAdvance ==
    ASSUME TypeOK, [Next]_vars, NEW q \in Runs
    PROVE  Advance(q) /\ ResultsKept
  <1> USE DEF archive, cluster, watcherState, At
  <1>0. age \in [Runs -> 0..MaxAge] /\ age[q] \in Int /\ w \in [Runs -> Workers]
    BY WatcherAssumption DEF TypeOK
  <1>a. ASSUME UNCHANGED <<w[q], record[q], events[q], age[q]>> PROVE Advance(q)
    BY <1>0, <1>a DEF Advance
  <1>b. ASSUME UNCHANGED archive, age[q] <= age'[q],
               w'[q].pc \in {"idle", "reconciled"}
        PROVE  Advance(q) /\ ResultsKept
    BY <1>b DEF Advance, ResultsKept, BeforeUpsert, AfterUpsert, PatchSteps
  <1>1. ASSUME NEW r \in Runs, WorkerStep(r) PROVE Advance(q) /\ ResultsKept
    BY <1>1, <1>a, OwnAdvance, OtherRuns
  <1>2. ASSUME NEW r \in Runs, ClusterStep(r) PROVE Advance(q) /\ ResultsKept
    <2>1. UNCHANGED <<w, archive, age>>
      BY <1>2 DEF ClusterStep, Create, Finish, UserDelete, CascadeDelete, Annotate, Sync, Resync
    <2> QED BY <1>a, <2>1 DEF ResultsKept
  <1>3. ASSUME NEW r \in Runs, CallFails(r) PROVE Advance(q) /\ ResultsKept
    <2>1. UNCHANGED <<archive, age>>
      BY <1>3 DEF CallFails
    <2>2. q # r => w'[q] = w[q]
      BY <1>0, <1>3 DEF CallFails, Return, Leave
    <2>3. q = r => w'[q].pc \in {"idle", "reconciled"}
      BY <1>3, Moves DEF CallFails
    <2> QED BY <1>0, <1>a, <1>b, <2>1, <2>2, <2>3 DEF ResultsKept
  <1>4. CASE Restart
    BY <1>0, <1>4, <1>b DEF Restart, Idle
  <1>5. CASE Tick
    <2>1. age[q] <= age'[q] /\ UNCHANGED <<w, archive>>
      BY <1>0, <1>5 DEF Tick
    <2> QED BY <2>1 DEF Advance, ResultsKept
  <1>6. CASE Quiescent \/ UNCHANGED vars
    BY <1>6, <1>a DEF Quiescent, vars, ResultsKept
  <1> QED BY <1>1, <1>2, <1>3, <1>4, <1>5, <1>6 DEF Next

----------------------------------------------------------------------------
(* Annotations and the archive, in every configuration                     *)

InArchive(r) == record[r] # "none" /\ result[ResultOf[r]].exists

\* An annotated run has its Result and its Record, and its EventList when it
\* carries that annotation; and so has every outdated copy of it, which a
\* patch may write back. The worker knows what it has stored.
AnnotationsBacked ==
    \A r \in Runs :
        /\ At(r, "upsertRecord") => result[ResultOf[r]].exists
        /\ w[r].pc \in AfterUpsert => InArchive(r)
        /\ At(r, "patchEvents") => events[r]
        /\ \A a \in Annotations(r) : /\ a # NoAnnotations => InArchive(r)
                                     /\ a["events"] # "" => events[r]

\* At the step that removes the finalizer, finalize's reason to do so holds
\* still: a copy does not change in the worker's hands, and time passes.
ReleaseJustified ==
    \A r \in Runs :
        At(r, "clearFinalizer") => \/ FinalizerUnused(r) \/ DeadlinePassed(r)
                                   \/ w[r].o.ann["stored"] = "true"

\* With -disable_storing_incomplete_runs, only completed runs are stored: once
\* a worker has written the Record, and as soon as there is an annotation on
\* any copy of the run, the Record has the final state and keeps it.
OnlyCompleted ==
    \A r \in Runs :
        /\ w[r].pc \in BeforeUpsert => IsDone(w[r].o)
        /\ w[r].pc \in AfterUpsert => Archived(r)
        /\ \A a \in Annotations(r) : a # NoAnnotations => Archived(r)

\* An annotation that a worker is about to set is set after the upsert.
LEMMA ReachableAnnotations ==
    ASSUME NEW r \in Runs, NEW a \in Reachable(r)
    PROVE  \/ a \in Annotations(r) \/ a = NoAnnotations
           \/ /\ w[r].pc \in AfterUpsert
              /\ \E b \in Annotations(r), k \in Keys, v \in {"true", "false"} :
                    a = [b EXCEPT ![k] = v] /\ (k = "events" <=> At(r, "patchEvents"))
  <1> SUFFICES ASSUME a \in Patched(r)
               PROVE  /\ w[r].pc \in AfterUpsert
                      /\ \E b \in Annotations(r), k \in Keys, v \in {"true", "false"} :
                            a = [b EXCEPT ![k] = v] /\ (k = "events" <=> At(r, "patchEvents"))
    BY DEF Reachable
  <1>1. w[r].pc \in PatchSteps
    BY DEF Patched
  <1>2. PICK v \in {"true", "false"} : a = [w[r].o.ann EXCEPT ![KeyAt(w[r].pc)] = v]
    BY <1>1 DEF Patched
  <1>3. w[r].o.ann \in Annotations(r)
    BY DEF Annotations, Copies
  <1>4. KeyAt(w[r].pc) \in Keys /\ (KeyAt(w[r].pc) = "events" <=> At(r, "patchEvents"))
    BY <1>1 DEF KeyAt, Keys, PatchSteps, At
  <1> QED BY <1>1, <1>2, <1>3, <1>4 DEF AfterUpsert

\* The copies that are looked at, and what tells that they are annotated.
LEMMA OwnAnnotations ==
    ASSUME NEW r \in Runs
    PROVE  /\ {obj[r].ann, cache[r].ann, w[r].o.ann} \subseteq Annotations(r)
           /\ \A a \in Annotations(r), k \in Keys : a[k] # "" => a # NoAnnotations
  BY DEF Annotations, Copies, NoAnnotations

\* Copies carry functions from the managed keys.
LEMMA AnnotationsType ==
    ASSUME TypeOK, NEW r \in Runs, NEW a \in Annotations(r)
    PROVE  a \in [Keys -> {"", "false", "true"}]
  <1>1. PICK o \in Copies(r) : a = o.ann
    BY DEF Annotations
  <1>2. o \in Objects
    BY <1>1 DEF Copies, TypeOK, Workers
  <1> QED BY <1>1, <1>2 DEF Objects

\* Every step keeps annotations and archive together.
LEMMA BackedStep == TypeOK /\ AnnotationsBacked /\ [Next]_vars => AnnotationsBacked'
  <1> SUFFICES ASSUME TypeOK, AnnotationsBacked, [Next]_vars, NEW r \in Runs
               PROVE  /\ At(r, "upsertRecord")' => result'[ResultOf[r]].exists
                      /\ w'[r].pc \in AfterUpsert => InArchive(r)'
                      /\ At(r, "patchEvents")' => events'[r]
                      /\ \A a \in Annotations(r)' : /\ a # NoAnnotations => InArchive(r)'
                                                    /\ a["events"] # "" => events'[r]
    BY DEF AnnotationsBacked, At, AfterUpsert, PatchSteps, NoAnnotations, Keys
  <1>1. Advance(r) /\ ResultsKept
    BY EveryAdvance
  <1>2. ResultOf[r] \in Results
    BY DEF Results
  <1>3. w[r].o.st # "none"
    BY DEF TypeOK, Workers, Objects, States
  <1>4. At(r, "upsertRecord")' => result'[ResultOf[r]].exists
    BY <1>1, <1>2 DEF AnnotationsBacked, Advance, ResultsKept, At
  <1>5. InArchive(r) => InArchive(r)'
    BY <1>1, <1>2, <1>3 DEF InArchive, Advance, ResultsKept
  <1>e. events[r] => events'[r]
    BY <1>1 DEF Advance
  <1>6. w'[r].pc \in AfterUpsert => InArchive(r)'
    <2>1. CASE w[r].pc \in AfterUpsert
      BY <1>5, <2>1 DEF AnnotationsBacked
    <2>2. CASE At(r, "upsertRecord") /\ record'[r] = w[r].o.st
      BY <1>1, <1>2, <1>3, <2>2 DEF AnnotationsBacked, ResultsKept, InArchive
    <2> QED BY <1>1, <2>1, <2>2 DEF Advance
  <1>7. At(r, "patchEvents")' => events'[r]
    BY <1>1 DEF AnnotationsBacked, Advance, At
  <1>8. ASSUME NEW a \in Annotations(r)'
        PROVE  (a # NoAnnotations => InArchive(r)') /\ (a["events"] # "" => events'[r])
    <2>1. a \in Reachable(r)
      BY <1>8, AnnotationOrigin
    <2>2. CASE a \in Annotations(r)
      BY <1>1, <1>5, <2>2 DEF AnnotationsBacked, Advance
    <2>3. CASE a = NoAnnotations
      BY <2>3 DEF NoAnnotations, Keys
    <2>4. CASE /\ w[r].pc \in AfterUpsert
               /\ \E b \in Annotations(r), k \in Keys, v \in {"true", "false"} :
                    a = [b EXCEPT ![k] = v] /\ (k = "events" <=> At(r, "patchEvents"))
      <3>1. InArchive(r)'
        BY <1>5, <2>4 DEF AnnotationsBacked
      <3>2. PICK b \in Annotations(r), k \in Keys, v \in {"true", "false"} :
                    a = [b EXCEPT ![k] = v] /\ (k = "events" <=> At(r, "patchEvents"))
        BY <2>4
      <3>3. b \in [Keys -> {"", "false", "true"}] /\ "events" \in Keys
        BY AnnotationsType DEF Keys
      <3>4. CASE k = "events"
        <4>1. events[r]
          BY <3>2, <3>4 DEF AnnotationsBacked
        <4> QED BY <1>e, <3>1, <4>1
      <3>5. CASE k # "events"
        <4>1. a["events"] = b["events"]
          BY <3>2, <3>3, <3>5
        <4>2. b["events"] # "" => events[r]
          BY DEF AnnotationsBacked
        <4> QED BY <1>e, <3>1, <4>1, <4>2
      <3> QED BY <3>4, <3>5
    <2> QED BY <2>1, <2>2, <2>3, <2>4, ReachableAnnotations, ZenonT(60)
  <1> QED BY <1>4, <1>6, <1>7, <1>8

\* In the beginning there are no annotations and no workers.
LEMMA InitAnnotations ==
    ASSUME Init, NEW r \in Runs
    PROVE  Annotations(r) = {NoAnnotations} /\ w[r].pc = "idle"
  <1>1. /\ obj[r] = Unborn /\ cache[r] = Unborn /\ w[r] = Idle /\ feed[r] = <<>>
        /\ Idle.o = Unborn /\ Idle.pc = "idle" /\ Unborn.ann = NoAnnotations
    BY DEF Init, Idle, Unborn, NoAnnotations
  <1>2. Copies(r) = {Unborn}
    BY <1>1 DEF Copies
  <1> QED BY <1>1, <1>2 DEF Annotations

\* In every configuration, whatever the informers' lag, restarts and failed
\* calls: a run with an annotation of the watcher is in the archive, with its
\* Result, its Record and, if so annotated, its events.
THEOREM AnnotatedRunsAreStored == Spec => []AnnotationsBacked
  <1>1. Init => AnnotationsBacked
    BY InitAnnotations DEF AnnotationsBacked, At, AfterUpsert, PatchSteps, NoAnnotations, Keys
  <1> QED BY <1>1, BackedStep, WatcherTypeCorrect, PTL DEF Spec

----------------------------------------------------------------------------
(* The finalizer and the final state                                       *)

\* Between finalize and the patch that removes the finalizer nothing takes the
\* reason away.
LEMMA JustifiedStep == TypeOK /\ ReleaseJustified /\ [Next]_vars => ReleaseJustified'
  <1> SUFFICES ASSUME TypeOK, ReleaseJustified, [Next]_vars, NEW r \in Runs,
                      At(r, "clearFinalizer")'
               PROVE  \/ FinalizerUnused(r)' \/ DeadlinePassed(r)'
                      \/ w'[r].o.ann["stored"] = "true"
    BY DEF ReleaseJustified
  <1>1. Advance(r)
    BY EveryAdvance
  <1>2. w'[r].o = w[r].o /\ (At(r, "clearFinalizer") \/ Releasable(r)) /\ age[r] <= age'[r]
    BY <1>1 DEF Advance, At
  <1>3. \/ FinalizerUnused(r) \/ DeadlinePassed(r)
        \/ w[r].o.ann["stored"] = "true"
    BY <1>2 DEF ReleaseJustified, Releasable, Confirmed
  <1>4. age[r] \in Int /\ age'[r] \in Int /\ StoreDeadline \in Int
    BY StepType, WatcherAssumption DEF TypeOK
  <1> QED BY <1>2, <1>3, <1>4 DEF FinalizerUnused, DeadlinePassed

\* Every step keeps annotations and final states together.
LEMMA CompletedStep ==
    ASSUME DisableStoringIncompleteRuns
    PROVE  TypeOK /\ OnlyCompleted /\ [Next]_vars => OnlyCompleted'
  <1> SUFFICES ASSUME TypeOK, OnlyCompleted, [Next]_vars, NEW r \in Runs
               PROVE  /\ w'[r].pc \in BeforeUpsert => IsDone(w'[r].o)
                      /\ w'[r].pc \in AfterUpsert => Archived(r)'
                      /\ \A a \in Annotations(r)' : a # NoAnnotations => Archived(r)'
    BY DEF OnlyCompleted, IsDone, AfterUpsert, BeforeUpsert, PatchSteps, NoAnnotations, Keys
  <1>1. Advance(r)
    BY EveryAdvance
  <1>2. w'[r].pc \in BeforeUpsert => IsDone(w'[r].o)
    BY <1>1 DEF OnlyCompleted, Advance, Skipped, IsDone
  <1>3. At(r, "upsertRecord") => w[r].o.st \in {"done", "untimed"}
    BY DEF OnlyCompleted, At, BeforeUpsert, IsDone, TypeOK, Workers, Objects, States
  <1>4. Archived(r) => Archived(r)'
    BY <1>1, <1>3 DEF Advance, Archived
  <1>5. w'[r].pc \in AfterUpsert => Archived(r)'
    BY <1>1, <1>3, <1>4 DEF Advance, Archived, OnlyCompleted
  <1>6. ASSUME NEW a \in Annotations(r)', a # NoAnnotations PROVE Archived(r)'
    <2>1. a \in Annotations(r) \/ w[r].pc \in AfterUpsert
      BY <1>6, AnnotationOrigin, ReachableAnnotations
    <2> QED BY <1>4, <1>6, <2>1 DEF OnlyCompleted
  <1> QED BY <1>2, <1>5, <1>6

\* With -disable_storing_incomplete_runs, what is annotated has its final
\* state in the archive.
LEMMA CompletedInvariant ==
    ASSUME DisableStoringIncompleteRuns
    PROVE  Spec => []OnlyCompleted
  <1>1. Init => OnlyCompleted
    <2> SUFFICES ASSUME Init, NEW r \in Runs
                 PROVE  /\ w[r].pc \notin BeforeUpsert /\ w[r].pc \notin AfterUpsert
                        /\ \A a \in Annotations(r) : a = NoAnnotations
      BY DEF OnlyCompleted
    <2> QED BY InitAnnotations DEF AfterUpsert, BeforeUpsert, PatchSteps
  <1>2. TypeOK /\ OnlyCompleted /\ [Next]_vars => OnlyCompleted'
    BY CompletedStep
  <1> QED BY <1>1, <1>2, WatcherTypeCorrect, PTL DEF Spec

\* A run marked as stored is archived in its final state, for any number of
\* runs, workers, restarts and failed calls and any lag of the informers, if
\* incomplete runs are not stored.
THEOREM StoredAnnotationIsTrue ==
    ASSUME DisableStoringIncompleteRuns
    PROVE  Spec => []StoredMeansArchived
  <1>1. OnlyCompleted => StoredMeansArchived
    BY OwnAnnotations DEF OnlyCompleted, StoredMeansArchived, Keys
  <1> QED BY <1>1, CompletedInvariant, PTL

\* Likewise for a child marked as ready for deletion.
THEOREM ReadyAnnotationIsTrue ==
    ASSUME DisableStoringIncompleteRuns
    PROVE  Spec => []ReadyMeansArchived
  <1>1. OnlyCompleted => ReadyMeansArchived
    BY OwnAnnotations DEF OnlyCompleted, ReadyMeansArchived, Keys
  <1> QED BY <1>1, CompletedInvariant, PTL

\* The finalizer of a run known to be completed is removed only after the run
\* is archived, unless the deadline has passed.
THEOREM ReleasedOnceArchived ==
    ASSUME DisableStoringIncompleteRuns
    PROVE  Spec => []ReleasedWhenArchived
  <1>1. Init => ReleaseJustified
    BY InitAnnotations DEF ReleaseJustified, At
  <1>2. OnlyCompleted /\ ReleaseJustified => ReleasedWhenArchived
    BY OwnAnnotations DEF OnlyCompleted, ReleaseJustified, ReleasedWhenArchived, Keys
  <1> QED BY <1>1, <1>2, JustifiedStep, WatcherTypeCorrect, CompletedInvariant, PTL DEF Spec

\* The watcher deletes a PipelineRun only when every child that the listers
\* know is archived: the annotation it looks for in a cache that may be
\* outdated is one that was true when it was written, and stays true.
THEOREM ParentsWait ==
    ASSUME DisableStoringIncompleteRuns
    PROVE  Spec => ParentWaitsForChildren
  <1> DEFINE Waits(p) ==
        (At(p, "deleteRun") /\ ~At(p, "deleteRun")' /\ obj'[p] # obj[p])
        => \A c \in Children(p) : cache[c].phase = "live" => Archived(c)
  <1>1. ASSUME TypeOK, OnlyCompleted, [Next]_vars, NEW p \in PipelineRuns
        PROVE  Waits(p)
    <2> SUFFICES ASSUME At(p, "deleteRun"), ~At(p, "deleteRun")', obj'[p] # obj[p],
                        NEW c \in Children(p), cache[c].phase = "live"
                 PROVE  Archived(c)
      OBVIOUS
    <2> USE DEF cluster, archive, watcherState
    <2>1. p \in Runs /\ c \in Runs
      BY WatcherAssumption DEF Children
    <2>2. w' # w /\ obj' # obj
      BY DEF At
    <2>3. PICK r \in Runs : WorkerStep(r)
      <3>1. ASSUME NEW r \in Runs, ClusterStep(r) PROVE w' = w
        BY <3>1 DEF ClusterStep, Create, Finish, UserDelete, CascadeDelete, Annotate, Sync,
                    Resync
      <3>2. ASSUME NEW r \in Runs, CallFails(r) PROVE obj' = obj
        BY <3>2 DEF CallFails
      <3>3. Tick \/ Restart \/ Quiescent \/ UNCHANGED vars => obj' = obj
        BY DEF Tick, Restart, Quiescent, vars
      <3> QED BY <1>1, <2>2, <3>1, <3>2, <3>3 DEF Next
    <2>4. r = p
      BY <1>1, <2>1, <2>3, OtherRuns DEF At
    <2>5. deleteUponCompletion(p)
      BY <2>3, <2>4 DEF WorkerStep, At, Start, SetFinalizer, GetResult, CreateResult,
         UpdateResult, UpsertRecord, GetEventListRecord, PutEventList, PatchEvents, PatchIds,
         PatchReady, PatchStored, EndReconcile, finalize, ClearFinalizer
    <2>6. areAllChildRunsReadyForDeletion(p)
      BY <2>5 DEF deleteUponCompletion, DeletionDue
    <2>7. cache[c].ann["ready"] # "" /\ cache[c].ann \in Annotations(c)
      BY <2>1, <2>6, OwnAnnotations DEF areAllChildRunsReadyForDeletion
    <2>8. cache[c].ann # NoAnnotations
      BY <2>1, <2>7, OwnAnnotations DEF Keys
    <2> QED BY <1>1, <2>1, <2>7, <2>8 DEF OnlyCompleted
  <1>2. TypeOK /\ OnlyCompleted /\ [Next]_vars => [\A p \in PipelineRuns : Waits(p)]_vars
    BY <1>1
  <1> QED BY <1>2, WatcherTypeCorrect, CompletedInvariant, PTL
          DEF Spec, ParentWaitsForChildren
============================================================================
