---------------------------- MODULE ResultsStore ----------------------------
(***************************************************************************)
(* The CRUD handlers of the Results API server over the two tables of its  *)
(* database.  Every SQL statement is one step: the handlers run on several *)
(* connections (and several API server replicas) at READ COMMITTED, so     *)
(* statements of different requests interleave freely.                     *)
(*                                                                         *)
(* results, records  the rows of the two tables.  The parent (namespace)   *)
(*                   is the same for every row and left out.               *)
(* rpc[c]            the request client c has in flight: where its handler *)
(*                   is and what it read, or the reply of the last request *)
(* nextUid           the next UUID that uid() returns                      *)
(* clock             the last timestamp clock.Now() returned               *)
(*                                                                         *)
(* An etag is "<id>-<updated time in ns>"; ids and times are numbers, so   *)
(* the update time alone tells two etags apart.                            *)
(***************************************************************************)
EXTENDS Naturals

CONSTANTS
    ResultNames,   \* names of Results
    RecordNames,   \* names of Records within a Result
    Values,        \* payloads: a Result's summary and annotations, a Record's data
    NoData,        \* the payload of a request that leaves the field unset
    Clients,       \* the requests that may be in flight at the same time
    MaxUid,        \* bound: UUIDs handed out
    MaxClock       \* bound: timestamps handed out

ASSUME StoreAssumption ==
    /\ NoData \in Values
    /\ MaxUid \in Nat
    /\ MaxClock \in Nat

VARIABLES results, records, rpc, nextUid, clock

vars == <<results, records, rpc, nextUid, clock>>

----------------------------------------------------------------------------
(* Rows, and the state of a handler between two statements.                *)

ResultRow == [id: Nat, name: ResultNames, val: Values, etag: Nat]

RecordRow == [id: Nat, resultId: Nat, resultName: ResultNames,
              name: RecordNames, data: Values, etag: Nat]

\* The gRPC codes errors.Wrap and the handlers answer with.
Codes == {"None", "OK", "NotFound", "AlreadyExists", "FailedPrecondition",
          "Unavailable"}

\* No etag in the request: the string "".
NoEtag == 0

Idle           == [pc: {"idle"}, reply: Codes]
SavingResult   == [pc: {"saveResult", "insertResult"}, etag: Nat, row: ResultRow]
DeletingResult == [pc: {"deleteResult"}, row: ResultRow]
CreatingRecord == [pc: {"createRecord"}, resultId: Nat, resultName: ResultNames,
                   name: RecordNames, data: Values]
SavingRecord   == [pc: {"saveRecord", "insertRecord"}, etag: Nat, row: RecordRow]
DeletingRecord == [pc: {"deleteRecord"}, row: RecordRow]

Rpc == Idle \cup SavingResult \cup DeletingResult
            \cup CreatingRecord \cup SavingRecord \cup DeletingRecord

TypeOK ==
    /\ results \subseteq ResultRow
    /\ records \subseteq RecordRow
    /\ rpc \in [Clients -> Rpc]
    /\ nextUid \in Nat
    /\ clock \in Nat

Init ==
    /\ results = {}
    /\ records = {}
    /\ rpc = [c \in Clients |-> [pc |-> "idle", reply |-> "None"]]
    /\ nextUid = 1
    /\ clock = 0

At(c, pc) == rpc[c].pc = pc

Goto(c, st) == rpc' = [rpc EXCEPT ![c] = st]

Reply(c, code) == Goto(c, [pc |-> "idle", reply |-> code])

----------------------------------------------------------------------------
(* What the schema enforces, and the statements gorm issues.               *)

\* The unique index results_by_name (parent, name).
ResultNameFree(name) == \A r \in results : r.name # name

\* Mutant: the unique index is missing.
AnyNameFree(resultName, name) == TRUE

\* The unique index records_by_name (parent, result_name, name).
RecordNameFree(resultName, name) ==
    \A x \in records : ~(x.resultName = resultName /\ x.name = name)

\* The foreign key (parent, result_id) of a Record.
ResultExists(id) == \E r \in results : r.id = id

\* Mutant: the foreign key lacks ON DELETE CASCADE.
CascadeNothing(id) == records

\* ON DELETE CASCADE: the Records that go with the Result id.
Cascade(id) == {x \in records : x.resultId # id}

\* UPDATE ... WHERE <primary key>: the row with row's key becomes row.
Updated(table, row) == {r \in table : r.id # row.id} \cup {row}

Present(table, row) == \E r \in table : r.id = row.id

\* Delete(&db.X{}, r): gorm turns every non-zero column of r, its etag and
\* update time among them, into a condition of the WHERE clause.
Matching(table, row) == {r \in table : r = row}

----------------------------------------------------------------------------
(* Results                                                                 *)

CreateResult(c, name, val) ==
    /\ At(c, "idle")
    /\ nextUid <= MaxUid /\ clock < MaxClock
    /\ nextUid' = nextUid + 1
    /\ clock' = clock + 1
    /\ \/ /\ ResultNameFree(name)
          /\ results' = results \cup {[id |-> nextUid, name |-> name,
                                       val |-> val, etag |-> clock + 1]}
          /\ Reply(c, "OK")
       \/ /\ ~ResultNameFree(name)
          /\ UNCHANGED results
          /\ Reply(c, "AlreadyExists")
    /\ UNCHANGED records

\* Mutant: the name is lost on the way to the database.
ResultVersionUnnamed(r, val, etag) ==
    [id |-> r.id, name |-> "", val |-> val, etag |-> etag]

\* The next version of a Result's row: its identity does not change.
ResultVersion(r, val, etag) ==
    [id |-> r.id, name |-> r.name, val |-> val, etag |-> etag]

\* First half of the UpdateResult transaction: read the row, compare the
\* etag, replace the annotations and the summary by those of the request
\* (unset ones too), take a new update time.
UpdateResultRead(c, name, val, etag) ==
    /\ At(c, "idle")
    /\ \/ /\ ResultNameFree(name)
          /\ Reply(c, "NotFound")
          /\ UNCHANGED clock
       \/ \E r \in results :
            /\ r.name = name
            /\ etag \notin {NoEtag, r.etag}
            /\ Reply(c, "FailedPrecondition")
            /\ UNCHANGED clock
       \/ \E r \in results :
            /\ r.name = name
            /\ etag \in {NoEtag, r.etag}
            /\ clock < MaxClock
            /\ clock' = clock + 1
            /\ Goto(c, [pc |-> "saveResult", etag |-> etag,
                        row |-> ResultVersion(r, val, clock + 1)])
    /\ UNCHANGED <<results, records, nextUid>>

\* tx.Save: the UPDATE statement; when it affects no row, gorm goes on with
\* an INSERT ... ON CONFLICT DO UPDATE.
UpdateResultSave(c) ==
    /\ At(c, "saveResult")
    /\ \/ /\ Present(results, rpc[c].row)
          /\ results' = Updated(results, rpc[c].row)
          /\ Reply(c, "OK")
       \/ /\ ~Present(results, rpc[c].row)
          /\ Goto(c, [pc |-> "insertResult", etag |-> rpc[c].etag, row |-> rpc[c].row])
          /\ UNCHANGED results
    /\ UNCHANGED <<records, nextUid, clock>>

UpdateResultInsert(c) ==
    /\ At(c, "insertResult")
    /\ \/ /\ Present(results, rpc[c].row) \/ ResultNameFree(rpc[c].row.name)
          /\ results' = Updated(results, rpc[c].row)
          /\ Reply(c, "OK")
       \/ /\ ~Present(results, rpc[c].row) /\ ~ResultNameFree(rpc[c].row.name)
          /\ UNCHANGED results
          /\ Reply(c, "AlreadyExists")
    /\ UNCHANGED <<records, nextUid, clock>>

DeleteResultRead(c, name) ==
    /\ At(c, "idle")
    /\ \/ ResultNameFree(name) /\ Reply(c, "NotFound")
       \/ \E r \in results : /\ r.name = name
                             /\ Goto(c, [pc |-> "deleteResult", row |-> r])
    /\ UNCHANGED <<results, records, nextUid, clock>>

\* The DELETE statement: zero affected rows are no error.
DeleteResultExec(c) ==
    /\ At(c, "deleteResult")
    /\ LET gone == Matching(results, rpc[c].row)
       IN  /\ results' = results \ gone
           /\ records' = IF gone = {} THEN records ELSE Cascade(rpc[c].row.id)
    /\ Reply(c, "OK")
    /\ UNCHANGED <<nextUid, clock>>

----------------------------------------------------------------------------
(* Records                                                                 *)

\* CreateRecord looks the Result's id up in a statement of its own.
CreateRecordLookup(c, resultName, name, data) ==
    /\ At(c, "idle")
    /\ \/ ResultNameFree(resultName) /\ Reply(c, "NotFound")
       \/ \E r \in results :
            /\ r.name = resultName
            /\ Goto(c, [pc |-> "createRecord", resultId |-> r.id,
                        resultName |-> resultName, name |-> name, data |-> data])
    /\ UNCHANGED <<results, records, nextUid, clock>>

CreateRecordInsert(c) ==
    /\ At(c, "createRecord")
    /\ nextUid <= MaxUid /\ clock < MaxClock
    /\ nextUid' = nextUid + 1
    /\ clock' = clock + 1
    /\ LET req == rpc[c]
           row == [id |-> nextUid, resultId |-> req.resultId,
                   resultName |-> req.resultName, name |-> req.name,
                   data |-> req.data, etag |-> clock + 1]
       IN  \/ /\ ~RecordNameFree(req.resultName, req.name)
              /\ UNCHANGED records
              /\ Reply(c, "AlreadyExists")
           \/ /\ RecordNameFree(req.resultName, req.name)
              /\ ~ResultExists(req.resultId)
              /\ UNCHANGED records
              /\ Reply(c, "FailedPrecondition")
           \/ /\ RecordNameFree(req.resultName, req.name)
              /\ ResultExists(req.resultId)
              /\ records' = records \cup {row}
              /\ Reply(c, "OK")
    /\ UNCHANGED results

\* proto.Merge: an unset field of the request leaves the stored one alone.
Merge(old, new) == IF new = NoData THEN old ELSE new

\* Mutant: the wrong column is copied into result_id.
RecordVersionMoved(x, data, etag) ==
    [id |-> x.id, resultId |-> x.id, resultName |-> x.resultName,
     name |-> x.name, data |-> data, etag |-> etag]

\* The next version of a Record's row: its identity does not change.
RecordVersion(x, data, etag) ==
    [id |-> x.id, resultId |-> x.resultId, resultName |-> x.resultName,
     name |-> x.name, data |-> data, etag |-> etag]

UpdateRecordRead(c, resultName, name, data, etag) ==
    /\ At(c, "idle")
    /\ \/ /\ RecordNameFree(resultName, name)
          /\ Reply(c, "NotFound")
          /\ UNCHANGED clock
       \/ \E x \in records :
            /\ x.resultName = resultName /\ x.name = name
            /\ etag \notin {NoEtag, x.etag}
            /\ Reply(c, "FailedPrecondition")
            /\ UNCHANGED clock
       \/ \E x \in records :
            /\ x.resultName = resultName /\ x.name = name
            /\ etag \in {NoEtag, x.etag}
            /\ clock < MaxClock
            /\ clock' = clock + 1
            /\ Goto(c, [pc |-> "saveRecord", etag |-> etag,
                        row |-> RecordVersion(x, Merge(x.data, data), clock + 1)])
    /\ UNCHANGED <<results, records, nextUid>>

UpdateRecordSave(c) ==
    /\ At(c, "saveRecord")
    /\ \/ /\ Present(records, rpc[c].row)
          /\ records' = Updated(records, rpc[c].row)
          /\ Reply(c, "OK")
       \/ /\ ~Present(records, rpc[c].row)
          /\ Goto(c, [pc |-> "insertRecord", etag |-> rpc[c].etag, row |-> rpc[c].row])
          /\ UNCHANGED records
    /\ UNCHANGED <<results, nextUid, clock>>

\* The fallback INSERT meets the unique index and the foreign key.
UpdateRecordInsert(c) ==
    /\ At(c, "insertRecord")
    /\ LET row == rpc[c].row
           free == Present(records, row) \/ RecordNameFree(row.resultName, row.name)
       IN  \/ /\ free /\ ResultExists(row.resultId)
              /\ records' = Updated(records, row)
              /\ Reply(c, "OK")
           \/ /\ ~free
              /\ UNCHANGED records
              /\ Reply(c, "AlreadyExists")
           \/ /\ free /\ ~ResultExists(row.resultId)
              /\ UNCHANGED records
              /\ Reply(c, "FailedPrecondition")
    /\ UNCHANGED <<results, nextUid, clock>>

DeleteRecordRead(c, resultName, name) ==
    /\ At(c, "idle")
    /\ \/ RecordNameFree(resultName, name) /\ Reply(c, "NotFound")
       \/ \E x \in records :
            /\ x.resultName = resultName /\ x.name = name
            /\ Goto(c, [pc |-> "deleteRecord", row |-> x])
    /\ UNCHANGED <<results, records, nextUid, clock>>

DeleteRecordExec(c) ==
    /\ At(c, "deleteRecord")
    /\ records' = records \ Matching(records, rpc[c].row)
    /\ Reply(c, "OK")
    /\ UNCHANGED <<results, nextUid, clock>>

----------------------------------------------------------------------------
\* The client goes away, the database connection drops or the server crashes
\* between two statements: the open transaction is rolled back.
Abort(c) ==
    /\ ~At(c, "idle")
    /\ Reply(c, "Unavailable")
    /\ UNCHANGED <<results, records, nextUid, clock>>

\* A client may send any etag the server ever handed out, or none.
Etags == 0..clock

ResultStep(c) ==
    \/ \E n \in ResultNames, v \in Values : CreateResult(c, n, v)
    \/ \E n \in ResultNames, v \in Values, e \in Etags : UpdateResultRead(c, n, v, e)
    \/ UpdateResultSave(c)
    \/ UpdateResultInsert(c)
    \/ \E n \in ResultNames : DeleteResultRead(c, n)
    \/ DeleteResultExec(c)

RecordStep(c) ==
    \/ \E n \in ResultNames, m \in RecordNames, v \in Values :
            CreateRecordLookup(c, n, m, v)
    \/ CreateRecordInsert(c)
    \/ \E n \in ResultNames, m \in RecordNames, v \in Values, e \in Etags :
            UpdateRecordRead(c, n, m, v, e)
    \/ UpdateRecordSave(c)
    \/ UpdateRecordInsert(c)
    \/ \E n \in ResultNames, m \in RecordNames : DeleteRecordRead(c, n, m)
    \/ DeleteRecordExec(c)

Next == \E c \in Clients : ResultStep(c) \/ RecordStep(c) \/ Abort(c)

Spec == Init /\ [][Next]_vars
----------------------------------------------------------------------------
(* Properties                                                              *)

\* Every Record belongs to an existing Result, and its denormalised
\* result_name is the name of that Result: CreateRecord looks the id up
\* outside the insert, and the Result may be deleted, created again under
\* the same name, or resurrected by a Save in between.
ReferentialIntegrity ==
    \A x \in records : \E r \in results : r.id = x.resultId /\ r.name = x.resultName

\* A name designates at most one row, so that First in getRecord and
\* getResultByParentName has one answer, whatever fallback inserts ran.
NamesUnique ==
    /\ \A r, q \in results : r.name = q.name => r = q
    /\ \A x, y \in records :
            (x.resultName = y.resultName /\ x.name = y.name) => x = y

\* No id that is in a table before and after a step changed what it names.
SameIdentities ==
    /\ \A r \in results, q \in results' : r.id = q.id => r.name = q.name
    /\ \A x \in records, y \in records' : x.id = y.id =>
            /\ x.name = y.name
            /\ x.resultId = y.resultId /\ x.resultName = y.resultName

\* "name<->ID mappings are immutable" (records.go:55): no step gives an id
\* that is in a table another name, or moves a Record to another Result.
IdentityStable == [][SameIdentities]_vars

\* "If set, then the request will succeed if and only if the provided etag
\* matches the server-computed value": an UpdateResult that carried an etag
\* and answers OK replaced the version with that etag.
EtagGuardsUpdate ==
    [][\A c \in Clients :
          (/\ At(c, "saveResult") /\ rpc[c].etag # NoEtag
           /\ rpc'[c].pc = "idle" /\ rpc'[c].reply = "OK")
          => \E r \in results : r.id = rpc[c].row.id /\ r.etag = rpc[c].etag]_vars

----------------------------------------------------------------------------
(* The inductive invariant behind the integrity properties.  What a handler *)
(* read in an earlier statement may be long outdated when it is used; what  *)
(* never becomes outdated is which identity an id stands for.               *)

\* The (Result id, Result name) pair a request in flight carries.
ResultRefOf(q) ==
    IF q.pc \in {"saveResult", "insertResult", "deleteResult"}
    THEN <<q.row.id, q.row.name>>
    ELSE IF q.pc = "createRecord" THEN <<q.resultId, q.resultName>>
                                  ELSE <<q.row.resultId, q.row.resultName>>

InFlight == {c \in Clients : rpc[c].pc # "idle"}

PendingResultRefs == {ResultRefOf(rpc[c]) : c \in InFlight}

ResultRefs ==
    {<<r.id, r.name>> : r \in results}
        \cup {<<x.resultId, x.resultName>> : x \in records}
        \cup PendingResultRefs

RecordRef(x) == <<x.id, <<x.resultId, x.resultName, x.name>>>>

InFlightOnRecord ==
    {c \in Clients : rpc[c].pc \in {"saveRecord", "insertRecord", "deleteRecord"}}

PendingRecordRefs == {RecordRef(rpc[c].row) : c \in InFlightOnRecord}

RecordRefs == {RecordRef(x) : x \in records} \cup PendingRecordRefs

Functional(refs) == \A p, q \in refs : p[1] = q[1] => p[2] = q[2]

\* All mentions of an id, in the tables and in requests in flight, agree on
\* what it identifies, and only ids uid() has handed out are mentioned: this
\* is what makes it safe that CreateRecord and the delete handlers use an id
\* they read in an earlier statement.
IdentitiesAgree ==
    /\ Functional(ResultRefs)
    /\ Functional(RecordRefs)
    /\ \A p \in ResultRefs \cup RecordRefs : p[1] < nextUid

\* The primary keys.
KeysUnique ==
    /\ \A r, q \in results : r.id = q.id => r = q
    /\ \A x, y \in records : x.id = y.id => x = y

StoreInv ==
    /\ TypeOK
    /\ IdentitiesAgree
    /\ KeysUnique
    /\ NamesUnique
    /\ ReferentialIntegrity
=============================================================================
