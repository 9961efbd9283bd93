----------------------------- MODULE Pagination -----------------------------
(***************************************************************************)
(* The lister behind ListResults and ListRecords: a client fetches a list  *)
(* page by page, handing the token of one page to the request for the next *)
(* one, while other requests go on changing the table.                     *)
(*                                                                         *)
(* rows      the rows of the table                                         *)
(* phase     whether the client holds a token ("paging"), has not begun    *)
(*           ("fresh") or got a page without a token ("ended")             *)
(* token     what the page token carries                                   *)
(* page      the rows of the last page, seen the rows of all pages so far  *)
(* steady    the matching rows that the table has had since the list began *)
(* reply     how the last request ended                                    *)
(* writes    changes of the table so far                                   *)
(***************************************************************************)
EXTENDS Integers, FiniteSets

CONSTANTS
    Ids,         \* ids of rows: UUIDs, whose order says nothing about time
    Keys,        \* values of the column in order_by: times, or Null
    Tags,        \* what filters tell apart
    PageSize,    \* page_size
    MaxWrites    \* bound: changes of the table

\* NULL, in a summary's start or end time.
Null == -1

ASSUME PaginationAssumption ==
    /\ Ids \subseteq Nat
    /\ Keys \subseteq (Nat \ {0}) \cup {Null}
    /\ PageSize \in Nat \ {0}
    /\ MaxWrites \in Nat

VARIABLES rows, phase, token, page, seen, steady, reply, writes

client == <<phase, token, page, seen, reply>>
vars == <<rows, phase, token, page, seen, steady, reply, writes>>

Row == [id: Ids, key: Keys, tag: Tags]

\* No order_by: by id; else by the column and id, in one direction.
Orders == {"id", "asc", "desc"}

Any == "any"

Requests == [filter: Tags \cup {Any}, order: Orders]

PageToken == [filter: Tags \cup {Any}, order: Orders, key: Nat, uid: Ids \cup {Null}]

NoToken == [filter |-> Any, order |-> "id", key |-> 0, uid |-> Null]

TypeOK ==
    /\ rows \subseteq Row
    /\ phase \in {"fresh", "paging", "ended"}
    /\ token \in PageToken
    /\ phase = "paging" => token.uid # Null
    /\ page \subseteq Row /\ seen \subseteq Row /\ steady \subseteq Row
    /\ reply \in {"none", "OK", "InvalidArgument", "SqlError"}
    /\ writes \in 0..MaxWrites

Init ==
    /\ rows \in {t \in SUBSET Row : \A a, b \in t : a.id = b.id => a = b}
    /\ phase = "fresh"
    /\ token = NoToken
    /\ page = {} /\ seen = {} /\ steady = {}
    /\ reply = "none"
    /\ writes = 0

----------------------------------------------------------------------------
(* The query                                                               *)

Match(filter, row) == filter = Any \/ row.tag = filter

\* Ascending by key, which puts NULLs last, then by id.
Lower(a, b) ==
    \/ a.key # Null /\ (b.key = Null \/ a.key < b.key)
    \/ a.key = b.key /\ a.id < b.id

\* ORDER BY; descending order puts NULLs first.
Before(order, a, b) ==
    \/ order = "id" /\ a.id < b.id
    \/ order = "asc" /\ Lower(a, b)
    \/ order = "desc" /\ Lower(b, a)

\* Mutant: the last item is included.
OffsetInclusive(tok, row) ==
    \/ tok.order = "id" /\ row.id >= tok.uid
    \/ /\ tok.order = "asc" /\ row.key # Null
       /\ row.key > tok.key \/ (row.key = tok.key /\ row.id >= tok.uid)
    \/ /\ tok.order = "desc" /\ row.key # Null
       /\ row.key < tok.key \/ (row.key = tok.key /\ row.id <= tok.uid)

\* The WHERE clause that skips earlier pages.  A comparison with NULL is
\* never true.
Offset(tok, row) ==
    \/ tok.order = "id" /\ row.id > tok.uid
    \/ /\ tok.order = "asc" /\ row.key # Null
       /\ row.key > tok.key \/ (row.key = tok.key /\ row.id > tok.uid)
    \/ /\ tok.order = "desc" /\ row.key # Null
       /\ row.key < tok.key \/ (row.key = tok.key /\ row.id < tok.uid)

\* ORDER BY ... LIMIT PageSize + 1 without the extra row: p holds the first
\* rows of hits; the extra row is there when p is not all of hits.
IsPage(order, hits, p) ==
    /\ Cardinality(p) <= PageSize
    /\ p # hits => Cardinality(p) = PageSize
    /\ \A a \in p, b \in hits \ p : Before(order, a, b)

\* A NULL becomes the zero time.
TokenTime(key) == IF key = Null THEN 0 ELSE key

\* Mutant: the extra row is put into the token instead of the last one.
IsExtra(order, p, last) == last \notin p /\ \A a \in p : Before(order, a, last)

\* The last row of the page.
IsLast(order, p, last) == last \in p /\ \A a \in p \ {last} : Before(order, a, last)

\* Mutant: the token lacks the uid.
TokenAfterNoUid(req, last) ==
    [filter |-> req.filter, order |-> req.order,
     key |-> IF req.order = "id" THEN 0 ELSE TokenTime(last.key), uid |-> Null]

\* makePageTokenGenerator.
TokenAfter(req, last) ==
    [filter |-> req.filter, order |-> req.order,
     key |-> IF req.order = "id" THEN 0 ELSE TokenTime(last.key), uid |-> last.id]

\* The client gets page p of hits, with a token if there are more rows.
Deliver(req, hits, p) ==
    /\ page' = p
    /\ reply' = "OK"
    /\ \/ p = hits /\ phase' = "ended" /\ token' = NoToken
       \/ /\ p # hits /\ phase' = "paging"
          /\ \E last \in hits : /\ IsLast(req.order, p, last)
                                /\ token' = TokenAfter(req, last)

----------------------------------------------------------------------------
(* Requests of the client                                                  *)

\* A list begins: no token.
ListFirst(req) ==
    /\ phase = "fresh"
    /\ LET hits == {x \in rows : Match(req.filter, x)} IN
       \E p \in SUBSET hits :
            /\ IsPage(req.order, hits, p)
            /\ Deliver(req, hits, p)
            /\ seen' = p
            /\ steady' = hits
    /\ UNCHANGED <<rows, writes>>

\* Mutant: a token may be used with another order.
ValidateFilterOnly(req) == req.filter = token.filter

\* validateToken of the query builders.  The order is compared only if the
\* request has one.
ValidateToken(req) ==
    /\ req.filter = token.filter
    /\ req.order # "id" => req.order = token.order

\* A request that drops the order_by of the token leaves the column of the
\* offset's WHERE clause blank.
ColumnMissing(req) == req.order = "id" /\ token.order # "id"

ListNext(req) ==
    /\ phase = "paging"
    /\ ValidateToken(req) /\ ~ColumnMissing(req)
    /\ LET hits == {x \in rows : Match(req.filter, x) /\ Offset(token, x)} IN
       \E p \in SUBSET hits :
            /\ IsPage(req.order, hits, p)
            /\ Deliver(req, hits, p)
            /\ seen' = seen \cup p
    /\ UNCHANGED <<rows, steady, writes>>

ListRefused(req) ==
    /\ phase = "paging"
    /\ ~ValidateToken(req)
    /\ reply' = "InvalidArgument"
    /\ UNCHANGED <<rows, phase, token, page, seen, steady, writes>>

\* The database rejects the query.
ListFails(req) ==
    /\ phase = "paging"
    /\ ValidateToken(req) /\ ColumnMissing(req)
    /\ reply' = "SqlError"
    /\ UNCHANGED <<rows, phase, token, page, seen, steady, writes>>

----------------------------------------------------------------------------
(* Other requests.  Rows are created, updated and deleted between two      *)
(* pages; an update may change the column in order_by.                     *)

Writing == writes < MaxWrites /\ writes' = writes + 1

Insert(row) ==
    /\ Writing
    /\ \A x \in rows : x.id # row.id
    /\ rows' = rows \cup {row}
    /\ UNCHANGED <<client, steady>>

Delete(row) ==
    /\ Writing
    /\ rows' = rows \ {row}
    /\ steady' = steady \ {row}
    /\ UNCHANGED client

Update(row, key, tag) ==
    /\ Writing
    /\ rows' = (rows \ {row}) \cup {[id |-> row.id, key |-> key, tag |-> tag]}
    /\ steady' = steady \ {row}
    /\ UNCHANGED client

----------------------------------------------------------------------------
\* The client has what it asked for.
Rest == phase = "ended" /\ UNCHANGED vars

Next ==
    \/ \E req \in Requests :
            ListFirst(req) \/ ListNext(req) \/ ListRefused(req) \/ ListFails(req)
    \/ \E row \in Row : Insert(row)
    \/ \E row \in rows : Delete(row)
    \/ \E row \in rows, k \in Keys, t \in Tags : Update(row, k, t)
    \/ Rest

Spec == Init /\ [][Next]_vars

\* The client asks for the next page with the parameters of the last one.
FairSpec == Spec /\ WF_vars(\E req \in Requests : ListNext(req))
----------------------------------------------------------------------------
(* Properties                                                              *)

\* A list that has ended contains every matching row that was in the table,
\* unchanged, all along: no page boundary loses a row, whatever is inserted,
\* deleted or moved between two pages.
Complete == phase = "ended" => steady \subseteq seen

\* The last resource of a page is "used as the starting point for next
\* queries": every row of a page comes after every row of the earlier pages,
\* so the list is sorted as a whole and names no row twice at the same place.
PagesContinue ==
    [][(phase = "paging" /\ <<page, token>>' # <<page, token>>) =>
            \A a \in seen, b \in page' : Before(token.order, a, b)]_vars

\* Once the table is left alone, a list comes to its end.
ListingEnds == phase = "paging" ~> phase = "ended"
=============================================================================
