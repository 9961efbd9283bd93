------------------------ MODULE ResultsStoreProofs ------------------------
(***************************************************************************)
(* The store keeps its tables consistent whatever the number of clients,   *)
(* names, payloads and requests: every step adds at most one identity, the *)
(* one of a fresh id, to those already mentioned.                          *)
(***************************************************************************)
EXTENDS ResultsStore, TLAPS

\* The initial tables are empty and no request is in flight.
LEMMA InitInv == Init => StoreInv
  BY DEF Init, StoreInv, TypeOK, IdentitiesAgree, Functional, ResultRefs,
         RecordRefs, PendingResultRefs, PendingRecordRefs, InFlight, InFlightOnRecord, KeysUnique, NamesUnique,
         ReferentialIntegrity, Rpc, Idle, Codes

\* Adding the identity of a fresh id to identities of older ids keeps every
\* id's identity unambiguous.
LEMMA FreshKeepsFunctional ==
    ASSUME NEW refs, NEW new, NEW uid \in Nat, NEW what,
           Functional(refs),
           \A p \in refs : p[1] < uid,
           \A p \in refs : p[1] \in Nat,
           \A p \in new : p \in refs \/ p = <<uid, what>>
    PROVE  Functional(new)
  <1> SUFFICES ASSUME NEW p \in new, NEW q \in new, p[1] = q[1]
               PROVE  p[2] = q[2]
    BY DEF Functional
  <1>1. CASE p \in refs /\ q \in refs
    BY <1>1 DEF Functional
  <1>2. CASE p = <<uid, what>> /\ q = <<uid, what>>
    BY <1>2
  <1>3. CASE p \in refs /\ q = <<uid, what>>
    BY <1>3
  <1>4. CASE p = <<uid, what>> /\ q \in refs
    BY <1>4
  <1> QED BY <1>1, <1>2, <1>3, <1>4

\* A request in flight has the shape its program counter says.
LEMMA RpcShape ==
    ASSUME TypeOK, NEW c \in Clients
    PROVE  /\ rpc[c].pc \in {"saveResult", "insertResult"} => rpc[c] \in SavingResult
           /\ rpc[c].pc = "deleteResult" => rpc[c] \in DeletingResult
           /\ rpc[c].pc = "createRecord" => rpc[c] \in CreatingRecord
           /\ rpc[c].pc \in {"saveRecord", "insertRecord"} => rpc[c] \in SavingRecord
           /\ rpc[c].pc = "deleteRecord" => rpc[c] \in DeletingRecord
           /\ rpc[c].pc \in {"idle", "saveResult", "insertResult", "deleteResult",
                             "createRecord", "saveRecord", "insertRecord",
                             "deleteRecord"}
  BY DEF TypeOK, Rpc, Idle, SavingResult, DeletingResult, CreatingRecord,
         SavingRecord, DeletingRecord

\* Moving one request replaces what that request mentions and nothing else.
LEMMA GotoRefs ==
    ASSUME TypeOK, NEW c \in Clients, NEW st, Goto(c, st)
    PROVE  /\ PendingResultRefs' \subseteq PendingResultRefs \cup
                (IF st.pc = "idle" THEN {} ELSE {ResultRefOf(st)})
           /\ PendingRecordRefs' \subseteq PendingRecordRefs \cup
                (IF st.pc \in {"saveRecord", "insertRecord", "deleteRecord"}
                 THEN {RecordRef(st.row)} ELSE {})
  <1>1. rpc'[c] = st /\ \A d \in Clients : d # c => rpc'[d] = rpc[d]
    BY DEF TypeOK, Goto
  <1>2. ASSUME NEW d \in InFlight'
        PROVE  ResultRefOf(rpc'[d]) \in PendingResultRefs \cup
                    (IF st.pc = "idle" THEN {} ELSE {ResultRefOf(st)})
    <2>1. d \in Clients /\ rpc'[d].pc # "idle"
      BY <1>2 DEF InFlight
    <2>2. CASE d = c
      BY <1>1, <2>1, <2>2
    <2>3. CASE d # c
      BY <1>1, <2>1, <2>3 DEF PendingResultRefs, InFlight
    <2> QED BY <2>2, <2>3
  <1>3. ASSUME NEW d \in InFlightOnRecord'
        PROVE  RecordRef(rpc'[d].row) \in PendingRecordRefs \cup
                    (IF st.pc \in {"saveRecord", "insertRecord", "deleteRecord"}
                     THEN {RecordRef(st.row)} ELSE {})
    <2>1. d \in Clients /\ rpc'[d].pc \in {"saveRecord", "insertRecord", "deleteRecord"}
      BY <1>3 DEF InFlightOnRecord
    <2>2. CASE d = c
      BY <1>1, <2>1, <2>2
    <2>3. CASE d # c
      BY <1>1, <2>1, <2>3 DEF PendingRecordRefs, InFlightOnRecord
    <2> QED BY <2>2, <2>3
  <1>4. PendingResultRefs' = {ResultRefOf(rpc'[d]) : d \in InFlight'}
    BY DEF PendingResultRefs, ResultRefOf
  <1>5. PendingRecordRefs' = {RecordRef(rpc'[d].row) : d \in InFlightOnRecord'}
    BY DEF PendingRecordRefs, RecordRef
  <1> QED BY <1>2, <1>3, <1>4, <1>5

\* A reply ends the request, so it only removes mentions.
LEMMA ReplyRefs ==
    ASSUME TypeOK, NEW c \in Clients, NEW code, Reply(c, code)
    PROVE  /\ PendingResultRefs' \subseteq PendingResultRefs
           /\ PendingRecordRefs' \subseteq PendingRecordRefs
  <1> DEFINE st == [pc |-> "idle", reply |-> code]
  <1>1. Goto(c, st)
    BY DEF Reply
  <1>2. st.pc = "idle"
    OBVIOUS
  <1> HIDE DEF st
  <1> QED BY <1>1, <1>2, GotoRefs

\* What the request of client c mentions is among the mentioned identities.
LEMMA OwnRefs ==
    ASSUME TypeOK, NEW c \in Clients
    PROVE  /\ rpc[c].pc # "idle" => ResultRefOf(rpc[c]) \in ResultRefs
           /\ rpc[c].pc \in {"saveRecord", "insertRecord", "deleteRecord"} =>
                RecordRef(rpc[c].row) \in RecordRefs
  BY DEF ResultRefs, RecordRefs, PendingResultRefs, PendingRecordRefs,
         InFlight, InFlightOnRecord

----------------------------------------------------------------------------
(* Type correctness *)

\* A request that moves to a well-formed state keeps rpc well typed.
LEMMA GotoType ==
    ASSUME TypeOK, NEW c \in Clients, NEW st \in Rpc, Goto(c, st)
    PROVE  rpc' \in [Clients -> Rpc]
  BY DEF TypeOK, Goto

\* A reply leaves the client idle, which is well formed.
LEMMA ReplyType ==
    ASSUME TypeOK, NEW c \in Clients, NEW code \in Codes, Reply(c, code)
    PROVE  rpc' \in [Clients -> Rpc]
  <1>1. [pc |-> "idle", reply |-> code] \in Rpc
    BY DEF Rpc, Idle
  <1> QED BY <1>1, GotoType DEF Reply

\* Every handler step, of any client, leaves rows and requests well formed.
LEMMA StepType == TypeOK /\ [Next]_vars => TypeOK'
  <1> SUFFICES ASSUME TypeOK, [Next]_vars
               PROVE  TypeOK'
    OBVIOUS
  <1> USE StoreAssumption
  <1>c. {"OK", "NotFound", "AlreadyExists", "FailedPrecondition", "Unavailable"}
            \subseteq Codes
    BY DEF Codes
  <1>1. ASSUME NEW c \in Clients, NEW n \in ResultNames, NEW v \in Values,
               CreateResult(c, n, v)
        PROVE  TypeOK'
    <2>1. rpc' \in [Clients -> Rpc]
      BY <1>1, <1>c, ReplyType DEF CreateResult
    <2> QED BY <1>1, <2>1 DEF TypeOK, CreateResult, ResultRow
  <1>2. ASSUME NEW c \in Clients, NEW n \in ResultNames, NEW v \in Values,
               NEW e \in Etags, UpdateResultRead(c, n, v, e)
        PROVE  TypeOK'
    <2>1. clock' \in Nat /\ e \in Nat
      <3>1. clock' = clock \/ clock' = clock + 1
        BY <1>2 DEF UpdateResultRead
      <3>2. e \in 0..clock
        BY DEF Etags
      <3> QED BY <3>1, <3>2 DEF TypeOK
    <2>2. rpc' \in [Clients -> Rpc]
      <3>1. ASSUME NEW r \in results
            PROVE  [pc |-> "saveResult", etag |-> e,
                    row |-> ResultVersion(r, v, clock + 1)] \in Rpc
        BY <2>1 DEF TypeOK, ResultRow, ResultVersion, Rpc, SavingResult
      <3>2. CASE Reply(c, "NotFound") \/ Reply(c, "FailedPrecondition")
        BY <3>2, <1>c, ReplyType
      <3>3. CASE \E r \in results : Goto(c, [pc |-> "saveResult", etag |-> e,
                                      row |-> ResultVersion(r, v, clock + 1)])
        <4>1. PICK r \in results : Goto(c, [pc |-> "saveResult", etag |-> e,
                                      row |-> ResultVersion(r, v, clock + 1)])
          BY <3>3
        <4> QED BY <4>1, <3>1, GotoType
      <3> QED BY <1>2, <3>2, <3>3 DEF UpdateResultRead
    <2> QED BY <1>2, <2>1, <2>2 DEF TypeOK, UpdateResultRead
  <1>3. ASSUME NEW c \in Clients, UpdateResultSave(c)
        PROVE  TypeOK'
    <2>1. rpc[c] \in SavingResult /\ rpc[c].row \in ResultRow
      BY <1>3, RpcShape DEF UpdateResultSave, At, SavingResult
    <2>2. [pc |-> "insertResult", etag |-> rpc[c].etag, row |-> rpc[c].row] \in Rpc
      BY <2>1 DEF Rpc, SavingResult
    <2>3. rpc' \in [Clients -> Rpc]
      BY <1>3, <1>c, <2>2, ReplyType, GotoType DEF UpdateResultSave
    <2> QED BY <1>3, <2>1, <2>3 DEF TypeOK, UpdateResultSave, Updated
  <1>4. ASSUME NEW c \in Clients, UpdateResultInsert(c)
        PROVE  TypeOK'
    <2>1. rpc[c] \in SavingResult /\ rpc[c].row \in ResultRow
      BY <1>4, RpcShape DEF UpdateResultInsert, At, SavingResult
    <2>2. rpc' \in [Clients -> Rpc]
      BY <1>4, <1>c, ReplyType DEF UpdateResultInsert
    <2> QED BY <1>4, <2>1, <2>2 DEF TypeOK, UpdateResultInsert, Updated
  <1>5. ASSUME NEW c \in Clients, NEW n \in ResultNames, DeleteResultRead(c, n)
        PROVE  TypeOK'
    <2>1. \A r \in results : [pc |-> "deleteResult", row |-> r] \in Rpc
      BY DEF TypeOK, Rpc, DeletingResult
    <2>2. rpc' \in [Clients -> Rpc]
      BY <1>5, <1>c, <2>1, ReplyType, GotoType DEF DeleteResultRead
    <2> QED BY <1>5, <2>2 DEF TypeOK, DeleteResultRead
  <1>6. ASSUME NEW c \in Clients, DeleteResultExec(c)
        PROVE  TypeOK'
    <2>1. rpc' \in [Clients -> Rpc]
      BY <1>6, <1>c, ReplyType DEF DeleteResultExec
    <2> QED BY <1>6, <2>1 DEF TypeOK, DeleteResultExec, Cascade
  <1>7. ASSUME NEW c \in Clients, NEW n \in ResultNames, NEW m \in RecordNames,
               NEW v \in Values, CreateRecordLookup(c, n, m, v)
        PROVE  TypeOK'
    <2>1. \A r \in results : [pc |-> "createRecord", resultId |-> r.id,
                resultName |-> n, name |-> m, data |-> v] \in Rpc
      BY DEF TypeOK, ResultRow, Rpc, CreatingRecord
    <2>2. rpc' \in [Clients -> Rpc]
      BY <1>7, <1>c, <2>1, ReplyType, GotoType DEF CreateRecordLookup
    <2> QED BY <1>7, <2>2 DEF TypeOK, CreateRecordLookup
  <1>8. ASSUME NEW c \in Clients, CreateRecordInsert(c)
        PROVE  TypeOK'
    <2>1. rpc[c] \in CreatingRecord
      BY <1>8, RpcShape DEF CreateRecordInsert, At
    <2>2. rpc' \in [Clients -> Rpc]
      BY <1>8, <1>c, ReplyType DEF CreateRecordInsert
    <2>3. [id |-> nextUid, resultId |-> rpc[c].resultId,
           resultName |-> rpc[c].resultName, name |-> rpc[c].name,
           data |-> rpc[c].data, etag |-> clock + 1] \in RecordRow
      BY <2>1 DEF TypeOK, CreatingRecord, RecordRow
    <2> QED BY <1>8, <2>2, <2>3 DEF TypeOK, CreateRecordInsert
  <1>9. ASSUME NEW c \in Clients, NEW n \in ResultNames, NEW m \in RecordNames,
               NEW v \in Values, NEW e \in Etags, UpdateRecordRead(c, n, m, v, e)
        PROVE  TypeOK'
    <2>1. clock' \in Nat /\ e \in Nat
      <3>1. clock' = clock \/ clock' = clock + 1
        BY <1>9 DEF UpdateRecordRead
      <3>2. e \in 0..clock
        BY DEF Etags
      <3> QED BY <3>1, <3>2 DEF TypeOK
    <2>2. rpc' \in [Clients -> Rpc]
      <3>1. ASSUME NEW x \in records
            PROVE  [pc |-> "saveRecord", etag |-> e,
                    row |-> RecordVersion(x, Merge(x.data, v), clock + 1)] \in Rpc
        BY <2>1 DEF TypeOK, RecordRow, RecordVersion, Rpc, SavingRecord, Merge
      <3>2. CASE Reply(c, "NotFound") \/ Reply(c, "FailedPrecondition")
        BY <3>2, <1>c, ReplyType
      <3>3. CASE \E x \in records : Goto(c, [pc |-> "saveRecord", etag |-> e,
                        row |-> RecordVersion(x, Merge(x.data, v), clock + 1)])
        <4>1. PICK x \in records : Goto(c, [pc |-> "saveRecord", etag |-> e,
                        row |-> RecordVersion(x, Merge(x.data, v), clock + 1)])
          BY <3>3
        <4> QED BY <4>1, <3>1, GotoType
      <3> QED BY <1>9, <3>2, <3>3 DEF UpdateRecordRead
    <2> QED BY <1>9, <2>1, <2>2 DEF TypeOK, UpdateRecordRead
  <1>10. ASSUME NEW c \in Clients, UpdateRecordSave(c)
         PROVE  TypeOK'
    <2>1. rpc[c] \in SavingRecord /\ rpc[c].row \in RecordRow
      BY <1>10, RpcShape DEF UpdateRecordSave, At, SavingRecord
    <2>2. [pc |-> "insertRecord", etag |-> rpc[c].etag, row |-> rpc[c].row] \in Rpc
      BY <2>1 DEF Rpc, SavingRecord
    <2>3. rpc' \in [Clients -> Rpc]
      BY <1>10, <1>c, <2>2, ReplyType, GotoType DEF UpdateRecordSave
    <2> QED BY <1>10, <2>1, <2>3 DEF TypeOK, UpdateRecordSave, Updated
  <1>11. ASSUME NEW c \in Clients, UpdateRecordInsert(c)
         PROVE  TypeOK'
    <2>1. rpc[c] \in SavingRecord /\ rpc[c].row \in RecordRow
      BY <1>11, RpcShape DEF UpdateRecordInsert, At, SavingRecord
    <2>2. rpc' \in [Clients -> Rpc]
      BY <1>11, <1>c, ReplyType DEF UpdateRecordInsert
    <2> QED BY <1>11, <2>1, <2>2 DEF TypeOK, UpdateRecordInsert, Updated
  <1>12. ASSUME NEW c \in Clients, NEW n \in ResultNames, NEW m \in RecordNames,
                DeleteRecordRead(c, n, m)
         PROVE  TypeOK'
    <2>1. \A x \in records : [pc |-> "deleteRecord", row |-> x] \in Rpc
      BY DEF TypeOK, Rpc, DeletingRecord
    <2>2. rpc' \in [Clients -> Rpc]
      BY <1>12, <1>c, <2>1, ReplyType, GotoType DEF DeleteRecordRead
    <2> QED BY <1>12, <2>2 DEF TypeOK, DeleteRecordRead
  <1>13. ASSUME NEW c \in Clients, DeleteRecordExec(c)
         PROVE  TypeOK'
    <2>1. rpc' \in [Clients -> Rpc]
      BY <1>13, <1>c, ReplyType DEF DeleteRecordExec
    <2> QED BY <1>13, <2>1 DEF TypeOK, DeleteRecordExec
  <1>14. ASSUME NEW c \in Clients, Abort(c)
         PROVE  TypeOK'
    <2>1. rpc' \in [Clients -> Rpc]
      BY <1>14, <1>c, ReplyType DEF Abort
    <2> QED BY <1>14, <2>1 DEF TypeOK, Abort
  <1>15. CASE UNCHANGED vars
    BY <1>15 DEF TypeOK, vars
  <1> QED
    BY <1>1, <1>2, <1>3, <1>4, <1>5, <1>6, <1>7, <1>8, <1>9, <1>10, <1>11,
       <1>12, <1>13, <1>14, <1>15 DEF Next, ResultStep, RecordStep

\* Rows and requests stay well formed, for any number of clients and rows.
THEOREM StoreTypeCorrect == Spec => []TypeOK
  <1>1. Init => TypeOK
    BY InitInv DEF StoreInv
  <1> QED BY <1>1, StepType, PTL DEF Spec

----------------------------------------------------------------------------
(* Identities *)

\* A step after which everything mentioned was mentioned before.
MentionsNothingNew ==
    /\ nextUid' = nextUid
    /\ \A r \in results' : <<r.id, r.name>> \in ResultRefs
    /\ \A x \in records' : /\ <<x.resultId, x.resultName>> \in ResultRefs
                           /\ RecordRef(x) \in RecordRefs
    /\ PendingResultRefs' \subseteq ResultRefs
    /\ PendingRecordRefs' \subseteq RecordRefs

\* What is in the tables is mentioned.
LEMMA RowsMentioned ==
    /\ \A r \in results : <<r.id, r.name>> \in ResultRefs
    /\ \A x \in records : /\ <<x.resultId, x.resultName>> \in ResultRefs
                          /\ RecordRef(x) \in RecordRefs
    /\ PendingResultRefs \subseteq ResultRefs
    /\ PendingRecordRefs \subseteq RecordRefs
  BY DEF ResultRefs, RecordRefs

\* Such a step keeps the identities unambiguous.
LEMMA NothingNewAgrees ==
    ASSUME IdentitiesAgree, MentionsNothingNew
    PROVE  IdentitiesAgree'
  <1>1. ResultRefs' = {<<r.id, r.name>> : r \in results'}
            \cup {<<x.resultId, x.resultName>> : x \in records'}
            \cup PendingResultRefs'
    BY DEF ResultRefs
  <1>2. RecordRefs' = {RecordRef(x) : x \in records'} \cup PendingRecordRefs'
    BY DEF RecordRefs, RecordRef
  <1>3. ResultRefs' \subseteq ResultRefs /\ RecordRefs' \subseteq RecordRefs
    BY <1>1, <1>2 DEF MentionsNothingNew
  <1>4. Functional(ResultRefs') /\ Functional(RecordRefs')
    BY <1>3 DEF IdentitiesAgree, Functional
  <1>5. \A q \in ResultRefs' \cup RecordRefs' : q[1] < nextUid'
    BY <1>3 DEF IdentitiesAgree, MentionsNothingNew
  <1> QED BY <1>4, <1>5 DEF IdentitiesAgree, Functional

\* Every id that is mentioned is a number.
LEMMA IdsAreNumbers ==
    ASSUME TypeOK
    PROVE  \A p \in ResultRefs \cup RecordRefs : p[1] \in Nat
  <1>1. \A r \in results : r.id \in Nat
    BY DEF TypeOK, ResultRow
  <1>2. \A x \in records : x.id \in Nat /\ x.resultId \in Nat
    BY DEF TypeOK, RecordRow
  <1>3. ASSUME NEW c \in InFlight PROVE ResultRefOf(rpc[c])[1] \in Nat
    <2>1. c \in Clients /\ rpc[c].pc # "idle"
      BY <1>3 DEF InFlight
    <2> QED BY <2>1, RpcShape DEF ResultRefOf, SavingResult, DeletingResult,
               CreatingRecord, SavingRecord, DeletingRecord, ResultRow, RecordRow
  <1>4. ASSUME NEW c \in InFlightOnRecord PROVE RecordRef(rpc[c].row)[1] \in Nat
    <2>1. /\ c \in Clients
          /\ rpc[c].pc \in {"saveRecord", "insertRecord", "deleteRecord"}
      BY <1>4 DEF InFlightOnRecord
    <2> QED BY <2>1, RpcShape DEF RecordRef, SavingRecord, DeletingRecord, RecordRow
  <1>5. \A p \in ResultRefs : p[1] \in Nat
    BY <1>1, <1>2, <1>3 DEF ResultRefs, PendingResultRefs
  <1>6. \A p \in RecordRefs : p[1] \in Nat
    BY <1>2, <1>4 DEF RecordRefs, PendingRecordRefs, RecordRef
  <1> QED BY <1>5, <1>6

\* A step that mentions one identity more, that of the id uid() hands out.
LEMMA FreshAgrees ==
    ASSUME TypeOK, IdentitiesAgree, NEW name, NEW place,
           nextUid' = nextUid + 1,
           \A r \in results' : <<r.id, r.name>> \in ResultRefs \cup {<<nextUid, name>>},
           \A x \in records' :
                /\ <<x.resultId, x.resultName>> \in ResultRefs
                /\ RecordRef(x) \in RecordRefs \cup {<<nextUid, place>>},
           PendingResultRefs' \subseteq ResultRefs,
           PendingRecordRefs' \subseteq RecordRefs
    PROVE  IdentitiesAgree'
  <1>1. ResultRefs' = {<<r.id, r.name>> : r \in results'}
            \cup {<<x.resultId, x.resultName>> : x \in records'}
            \cup PendingResultRefs'
    BY DEF ResultRefs
  <1>2. RecordRefs' = {RecordRef(x) : x \in records'} \cup PendingRecordRefs'
    BY DEF RecordRefs, RecordRef
  <1>3. \A p \in ResultRefs' : p \in ResultRefs \/ p = <<nextUid, name>>
    BY <1>1
  <1>4. \A p \in RecordRefs' : p \in RecordRefs \/ p = <<nextUid, place>>
    BY <1>2
  <1>5. nextUid \in Nat
    BY DEF TypeOK
  <1>6. Functional(ResultRefs')
    BY <1>3, <1>5, IdsAreNumbers, FreshKeepsFunctional DEF IdentitiesAgree
  <1>7. Functional(RecordRefs')
    BY <1>4, <1>5, IdsAreNumbers, FreshKeepsFunctional DEF IdentitiesAgree
  <1>8. \A q \in ResultRefs' \cup RecordRefs' : q[1] < nextUid'
    BY <1>3, <1>4, <1>5, IdsAreNumbers DEF IdentitiesAgree
  <1> QED BY <1>6, <1>7, <1>8 DEF IdentitiesAgree, Functional

\* A step that only moves the request of c to a state mentioning known rows.
LEMMA MoveMentions ==
    ASSUME TypeOK, NEW c \in Clients, NEW st, Goto(c, st),
           st.pc # "idle" => ResultRefOf(st) \in ResultRefs,
           st.pc \in {"saveRecord", "insertRecord", "deleteRecord"}
                => RecordRef(st.row) \in RecordRefs
    PROVE  PendingResultRefs' \subseteq ResultRefs /\ PendingRecordRefs' \subseteq RecordRefs
  BY GotoRefs, RowsMentioned

\* A reply mentions nothing.
LEMMA ReplyMentions ==
    ASSUME TypeOK, NEW c \in Clients, NEW code, Reply(c, code)
    PROVE  PendingResultRefs' \subseteq ResultRefs /\ PendingRecordRefs' \subseteq RecordRefs
  BY ReplyRefs, RowsMentioned

\* Every handler step, however outdated what it read, keeps the identities
\* unambiguous: only the two inserts of fresh rows add one.
LEMMA StepAgree == TypeOK /\ IdentitiesAgree /\ [Next]_vars => IdentitiesAgree'
  <1> SUFFICES ASSUME TypeOK, IdentitiesAgree, [Next]_vars
               PROVE  IdentitiesAgree'
    OBVIOUS
  <1>1. ASSUME NEW c \in Clients, NEW n \in ResultNames, NEW v \in Values,
               CreateResult(c, n, v)
        PROVE  IdentitiesAgree'
    <2>1. PendingResultRefs' \subseteq ResultRefs /\ PendingRecordRefs' \subseteq RecordRefs
      BY <1>1, ReplyMentions DEF CreateResult
    <2>2. \A r \in results' : <<r.id, r.name>> \in ResultRefs \cup {<<nextUid, n>>}
      <3> DEFINE row == [id |-> nextUid, name |-> n, val |-> v, etag |-> clock + 1]
      <3>1. results' \subseteq results \cup {row}
        BY <1>1 DEF CreateResult
      <3>2. <<row.id, row.name>> = <<nextUid, n>>
        OBVIOUS
      <3> HIDE DEF row
      <3> QED BY <3>1, <3>2, RowsMentioned
    <2> QED BY <1>1, <2>1, <2>2, RowsMentioned, FreshAgrees DEF CreateResult
  <1>2. ASSUME NEW c \in Clients, NEW n \in ResultNames, NEW v \in Values,
               NEW e \in Etags, UpdateResultRead(c, n, v, e)
        PROVE  IdentitiesAgree'
    <2>1. PendingResultRefs' \subseteq ResultRefs /\ PendingRecordRefs' \subseteq RecordRefs
      <3>1. CASE Reply(c, "NotFound") \/ Reply(c, "FailedPrecondition")
        BY <3>1, ReplyMentions
      <3>2. CASE \E r \in results : Goto(c, [pc |-> "saveResult", etag |-> e,
                                      row |-> ResultVersion(r, v, clock + 1)])
        <4>1. PICK r \in results : Goto(c, [pc |-> "saveResult", etag |-> e,
                                      row |-> ResultVersion(r, v, clock + 1)])
          BY <3>2
        <4>2. ResultRefOf([pc |-> "saveResult", etag |-> e,
                           row |-> ResultVersion(r, v, clock + 1)]) = <<r.id, r.name>>
          BY DEF ResultRefOf, ResultVersion
        <4> QED BY <4>1, <4>2, RowsMentioned, MoveMentions
      <3> QED BY <1>2, <3>1, <3>2 DEF UpdateResultRead
    <2> QED BY <1>2, <2>1, RowsMentioned, NothingNewAgrees
            DEF UpdateResultRead, MentionsNothingNew
  <1>3. ASSUME NEW c \in Clients, UpdateResultSave(c)
        PROVE  IdentitiesAgree'
    <2>1. <<rpc[c].row.id, rpc[c].row.name>> \in ResultRefs
      BY <1>3, OwnRefs DEF UpdateResultSave, At, ResultRefOf
    <2>2. PendingResultRefs' \subseteq ResultRefs /\ PendingRecordRefs' \subseteq RecordRefs
      <3>1. CASE Reply(c, "OK")
        BY <3>1, ReplyMentions
      <3>2. CASE Goto(c, [pc |-> "insertResult", etag |-> rpc[c].etag, row |-> rpc[c].row])
        BY <3>2, <2>1, MoveMentions DEF ResultRefOf
      <3> QED BY <1>3, <3>1, <3>2 DEF UpdateResultSave
    <2> QED BY <1>3, <2>1, <2>2, RowsMentioned, NothingNewAgrees
            DEF UpdateResultSave, Updated, MentionsNothingNew
  <1>4. ASSUME NEW c \in Clients, UpdateResultInsert(c)
        PROVE  IdentitiesAgree'
    <2>1. <<rpc[c].row.id, rpc[c].row.name>> \in ResultRefs
      BY <1>4, OwnRefs DEF UpdateResultInsert, At, ResultRefOf
    <2>2. PendingResultRefs' \subseteq ResultRefs /\ PendingRecordRefs' \subseteq RecordRefs
      BY <1>4, ReplyMentions DEF UpdateResultInsert
    <2> QED BY <1>4, <2>1, <2>2, RowsMentioned, NothingNewAgrees
            DEF UpdateResultInsert, Updated, MentionsNothingNew
  <1>5. ASSUME NEW c \in Clients, NEW n \in ResultNames, DeleteResultRead(c, n)
        PROVE  IdentitiesAgree'
    <2>1. \A r \in results :
            ResultRefOf([pc |-> "deleteResult", row |-> r]) = <<r.id, r.name>>
      BY DEF ResultRefOf
    <2>2. PendingResultRefs' \subseteq ResultRefs /\ PendingRecordRefs' \subseteq RecordRefs
      BY <1>5, <2>1, RowsMentioned, ReplyMentions, MoveMentions DEF DeleteResultRead
    <2> QED BY <1>5, <2>2, RowsMentioned, NothingNewAgrees
            DEF DeleteResultRead, MentionsNothingNew
  <1>6. ASSUME NEW c \in Clients, DeleteResultExec(c)
        PROVE  IdentitiesAgree'
    <2>1. PendingResultRefs' \subseteq ResultRefs /\ PendingRecordRefs' \subseteq RecordRefs
      BY <1>6, ReplyMentions DEF DeleteResultExec
    <2> QED BY <1>6, <2>1, RowsMentioned, NothingNewAgrees
            DEF DeleteResultExec, Cascade, MentionsNothingNew
  <1>7. ASSUME NEW c \in Clients, NEW n \in ResultNames, NEW m \in RecordNames,
               NEW v \in Values, CreateRecordLookup(c, n, m, v)
        PROVE  IdentitiesAgree'
    <2>1. PendingResultRefs' \subseteq ResultRefs /\ PendingRecordRefs' \subseteq RecordRefs
      <3>1. CASE Reply(c, "NotFound")
        BY <3>1, ReplyMentions
      <3>2. ASSUME NEW r \in results, r.name = n,
                   Goto(c, [pc |-> "createRecord", resultId |-> r.id,
                            resultName |-> n, name |-> m, data |-> v])
            PROVE  /\ PendingResultRefs' \subseteq ResultRefs
                   /\ PendingRecordRefs' \subseteq RecordRefs
        <4>1. ResultRefOf([pc |-> "createRecord", resultId |-> r.id, resultName |-> n,
                           name |-> m, data |-> v]) = <<r.id, r.name>>
          BY <3>2 DEF ResultRefOf
        <4> QED BY <3>2, <4>1, RowsMentioned, MoveMentions
      <3> QED BY <1>7, <3>1, <3>2 DEF CreateRecordLookup
    <2> QED BY <1>7, <2>1, RowsMentioned, NothingNewAgrees
            DEF CreateRecordLookup, MentionsNothingNew
  <1>8. ASSUME NEW c \in Clients, CreateRecordInsert(c)
        PROVE  IdentitiesAgree'
    <2>1. <<rpc[c].resultId, rpc[c].resultName>> \in ResultRefs
      BY <1>8, OwnRefs DEF CreateRecordInsert, At, ResultRefOf
    <2>2. PendingResultRefs' \subseteq ResultRefs /\ PendingRecordRefs' \subseteq RecordRefs
      BY <1>8, ReplyMentions DEF CreateRecordInsert
    <2> DEFINE row == [id |-> nextUid, resultId |-> rpc[c].resultId,
                       resultName |-> rpc[c].resultName, name |-> rpc[c].name,
                       data |-> rpc[c].data, etag |-> clock + 1]
               place == <<rpc[c].resultId, rpc[c].resultName, rpc[c].name>>
    <2>3. RecordRef(row) = <<nextUid, place>>
      BY DEF RecordRef
    <2>4. records' \subseteq records \cup {row}
      BY <1>8 DEF CreateRecordInsert
    <2>5. row.resultId = rpc[c].resultId /\ row.resultName = rpc[c].resultName
      OBVIOUS
    <2> HIDE DEF row, place
    <2>6. \A x \in records' : /\ <<x.resultId, x.resultName>> \in ResultRefs
                              /\ RecordRef(x) \in RecordRefs \cup {<<nextUid, place>>}
      BY <2>1, <2>3, <2>4, <2>5, RowsMentioned
    <2>7. results' = results /\ nextUid' = nextUid + 1
      BY <1>8 DEF CreateRecordInsert
    <2>8. \A r \in results' : <<r.id, r.name>> \in ResultRefs \cup {<<nextUid, place>>}
      BY <2>7, RowsMentioned
    <2> QED BY <2>2, <2>6, <2>7, <2>8, FreshAgrees
  <1>9. ASSUME NEW c \in Clients, NEW n \in ResultNames, NEW m \in RecordNames,
               NEW v \in Values, NEW e \in Etags, UpdateRecordRead(c, n, m, v, e)
        PROVE  IdentitiesAgree'
    <2>1. PendingResultRefs' \subseteq ResultRefs /\ PendingRecordRefs' \subseteq RecordRefs
      <3>1. CASE Reply(c, "NotFound") \/ Reply(c, "FailedPrecondition")
        BY <3>1, ReplyMentions
      <3>2. CASE \E x \in records : Goto(c, [pc |-> "saveRecord", etag |-> e,
                        row |-> RecordVersion(x, Merge(x.data, v), clock + 1)])
        <4>1. PICK x \in records : Goto(c, [pc |-> "saveRecord", etag |-> e,
                        row |-> RecordVersion(x, Merge(x.data, v), clock + 1)])
          BY <3>2
        <4> DEFINE st == [pc |-> "saveRecord", etag |-> e,
                          row |-> RecordVersion(x, Merge(x.data, v), clock + 1)]
        <4>2. /\ ResultRefOf(st) = <<x.resultId, x.resultName>>
              /\ RecordRef(st.row) = RecordRef(x)
          BY DEF ResultRefOf, RecordRef, RecordVersion
        <4> QED BY <4>1, <4>2, RowsMentioned, MoveMentions
      <3> QED BY <1>9, <3>1, <3>2 DEF UpdateRecordRead
    <2> QED BY <1>9, <2>1, RowsMentioned, NothingNewAgrees
            DEF UpdateRecordRead, MentionsNothingNew
  <1>10. ASSUME NEW c \in Clients, UpdateRecordSave(c)
         PROVE  IdentitiesAgree'
    <2>1. /\ <<rpc[c].row.resultId, rpc[c].row.resultName>> \in ResultRefs
          /\ RecordRef(rpc[c].row) \in RecordRefs
      BY <1>10, OwnRefs DEF UpdateRecordSave, At, ResultRefOf
    <2>2. PendingResultRefs' \subseteq ResultRefs /\ PendingRecordRefs' \subseteq RecordRefs
      <3>1. CASE Reply(c, "OK")
        BY <3>1, ReplyMentions
      <3>2. CASE Goto(c, [pc |-> "insertRecord", etag |-> rpc[c].etag, row |-> rpc[c].row])
        BY <3>2, <2>1, MoveMentions DEF ResultRefOf
      <3> QED BY <1>10, <3>1, <3>2 DEF UpdateRecordSave
    <2> QED BY <1>10, <2>1, <2>2, RowsMentioned, NothingNewAgrees
            DEF UpdateRecordSave, Updated, MentionsNothingNew
  <1>11. ASSUME NEW c \in Clients, UpdateRecordInsert(c)
         PROVE  IdentitiesAgree'
    <2>1. /\ <<rpc[c].row.resultId, rpc[c].row.resultName>> \in ResultRefs
          /\ RecordRef(rpc[c].row) \in RecordRefs
      BY <1>11, OwnRefs DEF UpdateRecordInsert, At, ResultRefOf
    <2>2. PendingResultRefs' \subseteq ResultRefs /\ PendingRecordRefs' \subseteq RecordRefs
      BY <1>11, ReplyMentions DEF UpdateRecordInsert
    <2> QED BY <1>11, <2>1, <2>2, RowsMentioned, NothingNewAgrees
            DEF UpdateRecordInsert, Updated, MentionsNothingNew
  <1>12. ASSUME NEW c \in Clients, NEW n \in ResultNames, NEW m \in RecordNames,
                DeleteRecordRead(c, n, m)
         PROVE  IdentitiesAgree'
    <2>1. \A x \in records :
            ResultRefOf([pc |-> "deleteRecord", row |-> x]) = <<x.resultId, x.resultName>>
      BY DEF ResultRefOf
    <2>2. PendingResultRefs' \subseteq ResultRefs /\ PendingRecordRefs' \subseteq RecordRefs
      BY <1>12, <2>1, RowsMentioned, ReplyMentions, MoveMentions DEF DeleteRecordRead
    <2> QED BY <1>12, <2>2, RowsMentioned, NothingNewAgrees
            DEF DeleteRecordRead, MentionsNothingNew
  <1>13. ASSUME NEW c \in Clients, DeleteRecordExec(c)
         PROVE  IdentitiesAgree'
    <2>1. PendingResultRefs' \subseteq ResultRefs /\ PendingRecordRefs' \subseteq RecordRefs
      BY <1>13, ReplyMentions DEF DeleteRecordExec
    <2> QED BY <1>13, <2>1, RowsMentioned, NothingNewAgrees
            DEF DeleteRecordExec, MentionsNothingNew
  <1>14. ASSUME NEW c \in Clients, Abort(c)
         PROVE  IdentitiesAgree'
    <2>1. PendingResultRefs' \subseteq ResultRefs /\ PendingRecordRefs' \subseteq RecordRefs
      BY <1>14, ReplyMentions DEF Abort
    <2> QED BY <1>14, <2>1, RowsMentioned, NothingNewAgrees
            DEF Abort, MentionsNothingNew
  <1>15. CASE UNCHANGED vars
    BY <1>15 DEF vars, IdentitiesAgree, ResultRefs, RecordRefs, PendingResultRefs,
       PendingRecordRefs, InFlight, InFlightOnRecord, ResultRefOf, RecordRef, Functional
  <1> QED
    BY <1>1, <1>2, <1>3, <1>4, <1>5, <1>6, <1>7, <1>8, <1>9, <1>10, <1>11,
       <1>12, <1>13, <1>14, <1>15 DEF Next, ResultStep, RecordStep

----------------------------------------------------------------------------
(* Tables *)

\* Two mentions of an id stand for the same thing.
LEMMA SameId ==
    ASSUME IdentitiesAgree
    PROVE  /\ \A p, q \in ResultRefs : p[1] = q[1] => p[2] = q[2]
           /\ \A p, q \in RecordRefs : p[1] = q[1] => p[2] = q[2]
  BY DEF IdentitiesAgree, Functional

\* The row that a request on a Result carries has the name of the row with
\* its id.
LEMMA ResultRowAgrees ==
    ASSUME TypeOK, IdentitiesAgree, NEW c \in Clients,
           rpc[c].pc \in {"saveResult", "insertResult", "deleteResult"}
    PROVE  /\ \A r \in results : r.id = rpc[c].row.id => r.name = rpc[c].row.name
           /\ rpc[c].row.id < nextUid
  <1>1. <<rpc[c].row.id, rpc[c].row.name>> \in ResultRefs
    BY OwnRefs DEF ResultRefOf
  <1>2. rpc[c].row.id < nextUid
    BY <1>1 DEF IdentitiesAgree
  <1>3. ASSUME NEW r \in results, r.id = rpc[c].row.id
        PROVE  r.name = rpc[c].row.name
    BY <1>1, <1>3, SameId, RowsMentioned
  <1> QED BY <1>2, <1>3

\* The same for the row that a request on a Record carries, which also names
\* the Result as the Result's row does.
LEMMA RecordRowAgrees ==
    ASSUME TypeOK, IdentitiesAgree, NEW c \in Clients,
           rpc[c].pc \in {"saveRecord", "insertRecord", "deleteRecord"}
    PROVE  /\ \A x \in records : x.id = rpc[c].row.id =>
                /\ x.name = rpc[c].row.name
                /\ x.resultId = rpc[c].row.resultId
                /\ x.resultName = rpc[c].row.resultName
           /\ \A r \in results : r.id = rpc[c].row.resultId => r.name = rpc[c].row.resultName
  <1>1. <<rpc[c].row.resultId, rpc[c].row.resultName>> \in ResultRefs
    BY OwnRefs DEF ResultRefOf
  <1>2. RecordRef(rpc[c].row) \in RecordRefs
    BY OwnRefs
  <1>3. ASSUME NEW r \in results, r.id = rpc[c].row.resultId
        PROVE  r.name = rpc[c].row.resultName
    BY <1>1, <1>3, SameId, RowsMentioned
  <1>4. ASSUME NEW x \in records, x.id = rpc[c].row.id
        PROVE  /\ x.name = rpc[c].row.name
               /\ x.resultId = rpc[c].row.resultId
               /\ x.resultName = rpc[c].row.resultName
    <2>1. RecordRef(x) \in RecordRefs
      BY RowsMentioned
    <2>2. RecordRef(x)[2] = RecordRef(rpc[c].row)[2]
      BY <1>2, <1>4, <2>1, SameId DEF RecordRef
    <2> QED BY <2>2 DEF RecordRef
  <1> QED BY <1>3, <1>4

\* What the tables promise: keys, names and references.
TablesOK == KeysUnique /\ NamesUnique /\ ReferentialIntegrity

\* Saving the row of a request on a Result keeps the promises, whether the
\* row is still there or comes back.
LEMMA SavedResult ==
    ASSUME StoreInv, NEW c \in Clients, rpc[c].pc \in {"saveResult", "insertResult"},
           results' = Updated(results, rpc[c].row), records' = records,
           Present(results, rpc[c].row) \/ ResultNameFree(rpc[c].row.name)
    PROVE  TablesOK' /\ SameIdentities
  <1> DEFINE row == rpc[c].row
  <1>1. \A r \in results : r.id = row.id => r.name = row.name
    BY ResultRowAgrees DEF StoreInv
  <1>2. results' = {r \in results : r.id # row.id} \cup {row}
    BY DEF Updated
  <1>3. Present(results, row) \/ ResultNameFree(row.name)
    OBVIOUS
  <1> HIDE DEF row
  <1>4. KeysUnique'
    BY <1>2 DEF KeysUnique, StoreInv
  <1>5. \A r \in results : r.name = row.name => r.id = row.id
    BY <1>1, <1>3 DEF Present, ResultNameFree, NamesUnique, StoreInv
  <1>6. NamesUnique'
    BY <1>2, <1>5 DEF NamesUnique, StoreInv
  <1>7. ReferentialIntegrity'
    BY <1>1, <1>2 DEF ReferentialIntegrity, StoreInv
  <1>8. SameIdentities
    BY <1>1, <1>2 DEF SameIdentities, KeysUnique, StoreInv
  <1> QED BY <1>4, <1>6, <1>7, <1>8 DEF TablesOK

\* Saving the row of a request on a Record keeps the promises when its
\* Result exists, whether the row is still there or comes back.
LEMMA SavedRecord ==
    ASSUME StoreInv, NEW c \in Clients, rpc[c].pc \in {"saveRecord", "insertRecord"},
           records' = Updated(records, rpc[c].row), results' = results,
           \/ Present(records, rpc[c].row)
           \/ RecordNameFree(rpc[c].row.resultName, rpc[c].row.name),
           ResultExists(rpc[c].row.resultId)
    PROVE  TablesOK' /\ SameIdentities
  <1> DEFINE row == rpc[c].row
  <1>1. /\ \A x \in records : x.id = row.id =>
                /\ x.name = row.name
                /\ x.resultId = row.resultId
                /\ x.resultName = row.resultName
        /\ \A r \in results : r.id = row.resultId => r.name = row.resultName
    BY RecordRowAgrees DEF StoreInv
  <1>2. records' = {x \in records : x.id # row.id} \cup {row}
    BY DEF Updated
  <1>3. /\ Present(records, row) \/ RecordNameFree(row.resultName, row.name)
        /\ ResultExists(row.resultId)
    OBVIOUS
  <1> HIDE DEF row
  <1>4. KeysUnique'
    BY <1>2 DEF KeysUnique, StoreInv
  <1>5. \A x \in records : (x.resultName = row.resultName /\ x.name = row.name)
                            => x.id = row.id
    BY <1>1, <1>3 DEF Present, RecordNameFree, NamesUnique, StoreInv
  <1>6. NamesUnique'
    BY <1>2, <1>5 DEF NamesUnique, StoreInv
  <1>7. ReferentialIntegrity'
    BY <1>1, <1>2, <1>3 DEF ReferentialIntegrity, ResultExists, StoreInv
  <1>8. SameIdentities
    BY <1>1, <1>2 DEF SameIdentities, KeysUnique, StoreInv
  <1> QED BY <1>4, <1>6, <1>7, <1>8 DEF TablesOK

\* A step that leaves both tables alone keeps the promises.
LEMMA SameTables ==
    ASSUME StoreInv, results' = results, records' = records
    PROVE  TablesOK' /\ SameIdentities
  BY DEF StoreInv, TablesOK, KeysUnique, NamesUnique, ReferentialIntegrity, SameIdentities

\* Every step keeps the promises of the tables.
LEMMA StepTables == StoreInv /\ [Next]_vars => TablesOK' /\ SameIdentities
  <1> SUFFICES ASSUME StoreInv, [Next]_vars
               PROVE  TablesOK' /\ SameIdentities
    OBVIOUS
  <1>t. /\ \A r \in results : r.id < nextUid /\ r.id \in Nat
        /\ \A x \in records : x.id < nextUid /\ x.id \in Nat
        /\ nextUid \in Nat
    <2>1. \A r \in results : <<r.id, r.name>>[1] < nextUid
      BY RowsMentioned DEF StoreInv, IdentitiesAgree
    <2>2. \A x \in records : RecordRef(x)[1] < nextUid
      BY RowsMentioned DEF StoreInv, IdentitiesAgree
    <2>3. (\A r \in results : r.id \in Nat) /\ (\A x \in records : x.id \in Nat)
      BY DEF StoreInv, TypeOK, ResultRow, RecordRow
    <2> QED BY <2>1, <2>2, <2>3 DEF RecordRef, StoreInv, TypeOK
  <1>1. ASSUME NEW c \in Clients, NEW n \in ResultNames, NEW v \in Values,
               CreateResult(c, n, v)
        PROVE  TablesOK' /\ SameIdentities
    <2> DEFINE row == [id |-> nextUid, name |-> n, val |-> v, etag |-> clock + 1]
    <2>1. CASE results' = results /\ records' = records
      BY <2>1, SameTables
    <2>2. CASE ResultNameFree(n) /\ results' = results \cup {row} /\ records' = records
      <3>1. row.id = nextUid /\ row.name = n
        OBVIOUS
      <3> HIDE DEF row
      <3>2. KeysUnique'
        BY <1>t, <2>2, <3>1 DEF KeysUnique, StoreInv
      <3>3. NamesUnique'
        BY <2>2, <3>1 DEF NamesUnique, StoreInv, ResultNameFree
      <3>4. ReferentialIntegrity'
        BY <2>2 DEF ReferentialIntegrity, StoreInv
      <3>5. SameIdentities
        BY <1>t, <2>2, <3>1 DEF SameIdentities, KeysUnique, StoreInv
      <3> QED BY <3>2, <3>3, <3>4, <3>5 DEF TablesOK
    <2> QED BY <1>1, <2>1, <2>2 DEF CreateResult
  <1>2. ASSUME NEW c \in Clients, UpdateResultSave(c)
        PROVE  TablesOK' /\ SameIdentities
    <2>1. CASE Present(results, rpc[c].row)
      BY <1>2, <2>1, SavedResult DEF UpdateResultSave, At
    <2>2. CASE ~Present(results, rpc[c].row)
      BY <1>2, <2>2, SameTables DEF UpdateResultSave
    <2> QED BY <2>1, <2>2
  <1>3. ASSUME NEW c \in Clients, UpdateResultInsert(c)
        PROVE  TablesOK' /\ SameIdentities
    <2>1. CASE Present(results, rpc[c].row) \/ ResultNameFree(rpc[c].row.name)
      BY <1>3, <2>1, SavedResult DEF UpdateResultInsert, At
    <2>2. CASE ~Present(results, rpc[c].row) /\ ~ResultNameFree(rpc[c].row.name)
      BY <1>3, <2>2, SameTables DEF UpdateResultInsert
    <2> QED BY <2>1, <2>2
  <1>4. ASSUME NEW c \in Clients, DeleteResultExec(c)
        PROVE  TablesOK' /\ SameIdentities
    <2> DEFINE gone == Matching(results, rpc[c].row)
    <2>1. /\ results' = results \ gone
          /\ records' = IF gone = {} THEN records ELSE Cascade(rpc[c].row.id)
      BY <1>4 DEF DeleteResultExec
    <2>2. CASE gone = {}
      BY <2>1, <2>2, SameTables
    <2>3. CASE gone # {}
      <3>1. /\ \A r \in results \ results' : r.id = rpc[c].row.id
            /\ results' \subseteq results
            /\ records' = {x \in records : x.resultId # rpc[c].row.id}
        BY <2>1, <2>3 DEF Matching, Cascade
      <3>2. KeysUnique' /\ NamesUnique'
        BY <3>1 DEF KeysUnique, NamesUnique, StoreInv
      <3>3. ReferentialIntegrity'
        BY <3>1 DEF ReferentialIntegrity, StoreInv
      <3>4. SameIdentities
        BY <3>1 DEF SameIdentities, KeysUnique, StoreInv
      <3> QED BY <3>2, <3>3, <3>4 DEF TablesOK
    <2> QED BY <2>2, <2>3
  <1>5. ASSUME NEW c \in Clients, CreateRecordInsert(c)
        PROVE  TablesOK' /\ SameIdentities
    <2> DEFINE req == rpc[c]
               row == [id |-> nextUid, resultId |-> req.resultId,
                       resultName |-> req.resultName, name |-> req.name,
                       data |-> req.data, etag |-> clock + 1]
    <2>1. CASE records' = records
      BY <1>5, <2>1, SameTables DEF CreateRecordInsert
    <2>2. CASE /\ RecordNameFree(req.resultName, req.name)
               /\ ResultExists(req.resultId)
               /\ records' = records \cup {row}
      <3>1. /\ row.id = nextUid /\ row.name = req.name
            /\ row.resultId = req.resultId /\ row.resultName = req.resultName
        OBVIOUS
      <3>2. results' = results
        BY <1>5 DEF CreateRecordInsert
      <3>3. <<req.resultId, req.resultName>> \in ResultRefs
        BY <1>5, OwnRefs DEF CreateRecordInsert, At, ResultRefOf, StoreInv
      <3>4. \A r \in results : r.id = row.resultId => r.name = row.resultName
        BY <3>1, <3>3, SameId, RowsMentioned DEF StoreInv
      <3>5. \A x \in records : ~(x.resultName = row.resultName /\ x.name = row.name)
        BY <2>2, <3>1 DEF RecordNameFree
      <3>6. \E r \in results : r.id = row.resultId
        BY <2>2, <3>1 DEF ResultExists
      <3>7. records' = records \cup {row}
        BY <2>2
      <3>8. row.id = nextUid
        OBVIOUS
      <3> HIDE DEF row, req
      <3>9. KeysUnique'
        BY <1>t, <3>2, <3>7, <3>8 DEF KeysUnique, StoreInv
      <3>10. NamesUnique'
        BY <3>2, <3>5, <3>7 DEF NamesUnique, StoreInv
      <3>11. ReferentialIntegrity'
        BY <3>2, <3>4, <3>6, <3>7 DEF ReferentialIntegrity, StoreInv
      <3>12. SameIdentities
        BY <1>t, <3>2, <3>7, <3>8 DEF SameIdentities, KeysUnique, StoreInv
      <3> QED BY <3>9, <3>10, <3>11, <3>12 DEF TablesOK
    <2> QED BY <1>5, <2>1, <2>2 DEF CreateRecordInsert
  <1>6. ASSUME NEW c \in Clients, UpdateRecordSave(c)
        PROVE  TablesOK' /\ SameIdentities
    <2>1. CASE Present(records, rpc[c].row)
      <3>1. PICK x \in records : x.id = rpc[c].row.id
        BY <2>1 DEF Present
      <3>2. x.resultId = rpc[c].row.resultId
        BY <1>6, <3>1, RecordRowAgrees DEF UpdateRecordSave, At, StoreInv
      <3>3. ResultExists(rpc[c].row.resultId)
        BY <3>2 DEF ResultExists, ReferentialIntegrity, StoreInv
      <3> QED BY <1>6, <2>1, <3>3, SavedRecord DEF UpdateRecordSave, At
    <2>2. CASE ~Present(records, rpc[c].row)
      BY <1>6, <2>2, SameTables DEF UpdateRecordSave
    <2> QED BY <2>1, <2>2
  <1>7. ASSUME NEW c \in Clients, UpdateRecordInsert(c)
        PROVE  TablesOK' /\ SameIdentities
    <2>1. CASE records' = records
      BY <1>7, <2>1, SameTables DEF UpdateRecordInsert
    <2>2. CASE records' # records
      BY <1>7, <2>2, SavedRecord DEF UpdateRecordInsert, At
    <2> QED BY <2>1, <2>2
  <1>8. ASSUME NEW c \in Clients, DeleteRecordExec(c)
        PROVE  TablesOK' /\ SameIdentities
    <2>1. results' = results /\ records' \subseteq records
      BY <1>8 DEF DeleteRecordExec
    <2> QED BY <2>1 DEF TablesOK, KeysUnique, NamesUnique, ReferentialIntegrity,
                        SameIdentities, StoreInv
  <1>9. ASSUME NEW c \in Clients,
               \/ \E n \in ResultNames, v \in Values, e \in Etags : UpdateResultRead(c, n, v, e)
               \/ \E n \in ResultNames : DeleteResultRead(c, n)
               \/ \E n \in ResultNames, m \in RecordNames, v \in Values :
                      CreateRecordLookup(c, n, m, v)
               \/ \E n \in ResultNames, m \in RecordNames, v \in Values, e \in Etags :
                      UpdateRecordRead(c, n, m, v, e)
               \/ \E n \in ResultNames, m \in RecordNames : DeleteRecordRead(c, n, m)
               \/ Abort(c)
        PROVE  TablesOK' /\ SameIdentities
    <2>1. results' = results /\ records' = records
      BY <1>9 DEF UpdateResultRead, DeleteResultRead, CreateRecordLookup,
                  UpdateRecordRead, DeleteRecordRead, Abort
    <2> QED BY <2>1, SameTables
  <1>10. CASE UNCHANGED vars
    BY <1>10, SameTables DEF vars
  <1> QED BY <1>1, <1>2, <1>3, <1>4, <1>5, <1>6, <1>7, <1>8, <1>9, <1>10
          DEF Next, ResultStep, RecordStep

\* The whole inductive invariant holds in every reachable state.
THEOREM StoreInvariant == Spec => []StoreInv
  <1>1. StoreInv /\ [Next]_vars => StoreInv'
    BY StepType, StepAgree, StepTables DEF StoreInv, TablesOK
  <1> QED BY <1>1, InitInv, PTL DEF Spec

\* A Record never outlives its Result and always carries its name, although
\* CreateRecord uses a Result id it looked up in an earlier statement.
THEOREM StoreReferentialIntegrity == Spec => []ReferentialIntegrity
  <1>1. StoreInv => ReferentialIntegrity
    BY DEF StoreInv
  <1> QED BY <1>1, StoreInvariant, PTL

\* A name designates at most one row, although gorm's Save may insert.
THEOREM StoreNamesUnique == Spec => []NamesUnique
  <1>1. StoreInv => NamesUnique
    BY DEF StoreInv
  <1> QED BY <1>1, StoreInvariant, PTL

\* An id that a request read in an earlier statement (getResultID, getRecord)
\* still identifies what it did then, if it identifies anything.
THEOREM StoreIdentitiesAgree == Spec => []IdentitiesAgree
  <1>1. StoreInv => IdentitiesAgree
    BY DEF StoreInv
  <1> QED BY <1>1, StoreInvariant, PTL

\* The primary keys of both tables hold, although Save updates by key alone and
\* inserts what it does not find.
THEOREM StoreKeysUnique == Spec => []KeysUnique
  <1>1. StoreInv => KeysUnique
    BY DEF StoreInv
  <1> QED BY <1>1, StoreInvariant, PTL

\* Identifiers are immutable, as the handlers' comments claim.
THEOREM StoreIdentityStable == Spec => IdentityStable
  <1>1. StoreInv /\ [Next]_vars => [SameIdentities]_vars
    BY StepTables
  <1> QED BY <1>1, StoreInvariant, PTL DEF Spec, IdentityStable

=============================================================================
