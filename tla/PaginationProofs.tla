-------------------------- MODULE PaginationProofs --------------------------
(***************************************************************************)
(* The lister's pages continue each other and end up complete, for every   *)
(* page size and every table, as long as the column in order_by is never   *)
(* NULL (create_time, update_time, or no order_by).                        *)
(***************************************************************************)
EXTENDS Pagination, TLAPS

\* The column in order_by has a NOT NULL value in every row.
NoNulls == Keys \subseteq Nat

----------------------------------------------------------------------------
(* Orders and offsets                                                      *)

\* Ids and keys are numbers, and Null is none.
LEMMA RowTyped ==
    ASSUME NoNulls, NEW row \in Row
    PROVE  row.id \in Nat /\ row.key \in Nat /\ row.key # Null
<1>1. row.id \in Ids /\ row.key \in Keys
    BY DEF Row
<1>2. row.id \in Nat /\ row.key \in Nat
    BY <1>1, NoNulls, PaginationAssumption DEF NoNulls
<1> QED BY <1>2 DEF Null

\* The WHERE clause built from the token of a row keeps the rows that ORDER BY
\* puts after that row.
LEMMA OffsetIsAfter ==
    ASSUME NoNulls, NEW req \in Requests, NEW last \in Row, NEW x \in Row
    PROVE  Offset(TokenAfter(req, last), x) <=> Before(req.order, last, x)
<1>1. /\ last.id \in Nat /\ x.id \in Nat /\ last.key \in Nat /\ x.key \in Nat
      /\ last.key # Null /\ x.key # Null
    BY NoNulls, RowTyped
<1> DEFINE tok == TokenAfter(req, last)
<1>2. /\ tok.order = req.order /\ tok.uid = last.id
      /\ req.order # "id" => tok.key = last.key
    BY <1>1 DEF TokenAfter, TokenTime
<1> HIDE DEF tok
<1>3. Offset(tok, x) <=> Before(req.order, last, x)
    BY <1>1, <1>2 DEF Offset, Before, Lower, Requests, Orders
<1> QED BY <1>3 DEF tok

\* A row that the offset skips comes before every row that it keeps.
LEMMA OffsetSplits ==
    ASSUME NoNulls, NEW tok \in PageToken, tok.uid # Null,
           NEW a \in Row, NEW b \in Row, ~Offset(tok, a), Offset(tok, b)
    PROVE  Before(tok.order, a, b)
<1>1. /\ a.id \in Nat /\ b.id \in Nat /\ a.key \in Nat /\ b.key \in Nat
      /\ a.key # Null /\ b.key # Null
    BY NoNulls, RowTyped
<1>2. tok.uid \in Nat /\ tok.key \in Nat /\ tok.order \in Orders
    BY tok.uid # Null, PaginationAssumption DEF PageToken
<1> QED BY <1>1, <1>2, ~Offset(tok, a), Offset(tok, b) DEF Offset, Before, Lower, Orders

\* ORDER BY is a strict order.
LEMMA BeforeStrict ==
    ASSUME NoNulls, NEW order \in Orders, NEW a \in Row, NEW b \in Row,
           Before(order, a, b)
    PROVE  a # b /\ ~Before(order, b, a)
<1>1. /\ a.id \in Nat /\ b.id \in Nat /\ a.key \in Nat /\ b.key \in Nat
      /\ a.key # Null /\ b.key # Null
    BY NoNulls, RowTyped
<1> QED BY <1>1, Before(order, a, b) DEF Before, Lower, Orders

\* A token is well formed.
LEMMA TokenTyped ==
    ASSUME NEW req \in Requests, NEW last \in Row
    PROVE  /\ TokenAfter(req, last) \in PageToken
           /\ TokenAfter(req, last).uid # Null
           /\ TokenAfter(req, last).filter = req.filter
           /\ TokenAfter(req, last).order = req.order
<1>1. last.id \in Ids /\ last.id \in Nat /\ last.key \in Nat \cup {Null}
    BY PaginationAssumption DEF Row
<1>2. TokenTime(last.key) \in Nat
    BY <1>1 DEF TokenTime, Null
<1> QED BY <1>1, <1>2 DEF TokenAfter, PageToken, Requests, Null

----------------------------------------------------------------------------
(* The inductive invariant                                                 *)

\* What was delivered lies before the token and what is still owed after it:
\* the client's token separates the two.  Owed rows are still in the table and
\* match the filter that the token carries.
Separated ==
    phase = "paging" =>
        /\ \A a \in seen : ~Offset(token, a)
        /\ \A b \in steady \ seen :
                b \in rows /\ Match(token.filter, b) /\ Offset(token, b)

PInv == TypeOK /\ Separated /\ Complete

\* What a response leaves behind, for the first page and for later ones: the
\* new token separates the page, and all that comes before it, from the rest.
LEMMA DeliverKeeps ==
    ASSUME NoNulls, NEW req \in Requests, NEW hits \in SUBSET Row, NEW p \in SUBSET hits,
           IsPage(req.order, hits, p), Deliver(req, hits, p)
    PROVE  /\ phase' \in {"paging", "ended"} /\ token' \in PageToken
           /\ phase' = "ended" => p = hits
           /\ phase' = "paging" =>
                /\ token'.uid # Null
                /\ token'.filter = req.filter
                /\ \A a \in p : ~Offset(token', a)
                /\ \A a \in Row : (\A b \in hits : Before(req.order, a, b)) => ~Offset(token', a)
                /\ \A b \in hits \ p : Offset(token', b)
<1>0. req.order \in Orders
    BY DEF Requests
<1>1. CASE p = hits /\ phase' = "ended" /\ token' = NoToken
    <2>1. NoToken \in PageToken
        BY DEF NoToken, PageToken, Any, Orders
    <2> QED BY <1>1, <2>1
<1>2. CASE /\ p # hits /\ phase' = "paging"
           /\ \E last \in hits : /\ IsLast(req.order, p, last)
                                 /\ token' = TokenAfter(req, last)
    <2>1. PICK last \in hits : IsLast(req.order, p, last) /\ token' = TokenAfter(req, last)
        BY <1>2
    <2>2. last \in p /\ last \in Row
        BY <2>1 DEF IsLast
    <2>3. token' \in PageToken /\ token'.uid # Null /\ token'.filter = req.filter
        BY <2>1, <2>2, TokenTyped
    <2>4. ASSUME NEW a \in Row, a = last \/ Before(req.order, a, last)
          PROVE  ~Offset(token', a)
        <3>1. ~Before(req.order, last, a)
            BY <1>0, <2>2, <2>4, NoNulls, BeforeStrict
        <3> QED BY <2>1, <2>2, <3>1, NoNulls, OffsetIsAfter
    <2>5. \A a \in p : ~Offset(token', a)
        BY <2>1, <2>4 DEF IsLast
    <2>6. \A a \in Row : (\A b \in hits : Before(req.order, a, b)) => ~Offset(token', a)
        BY <2>4
    <2>7. ASSUME NEW b \in hits \ p PROVE Offset(token', b)
        <3>1. Before(req.order, last, b)
            BY <2>2, IsPage(req.order, hits, p) DEF IsPage
        <3> QED BY <2>1, <2>2, <3>1, NoNulls, OffsetIsAfter
    <2> QED BY <1>2, <2>3, <2>5, <2>6, <2>7
<1> QED BY <1>1, <1>2, Deliver(req, hits, p) DEF Deliver

\* The initial states satisfy the invariant.
LEMMA InitPInv == Init => PInv
<1> SUFFICES ASSUME Init PROVE PInv
    OBVIOUS
<1>1. NoToken \in PageToken
    BY DEF NoToken, PageToken, Any, Orders
<1>2. 0 \in 0..MaxWrites
    BY PaginationAssumption
<1> QED BY <1>1, <1>2 DEF Init, PInv, TypeOK, Separated, Complete

\* A page handed out by ListNext comes after everything delivered before.
LEMMA NextPageAfter ==
    ASSUME NoNulls, TypeOK, Separated, phase = "paging",
           NEW req \in Requests, req.order = token.order
    PROVE  \A a \in seen : \A b \in {x \in rows : Match(req.filter, x) /\ Offset(token, x)} :
                Before(req.order, a, b)
<1> TAKE a \in seen
<1> TAKE b \in {x \in rows : Match(req.filter, x) /\ Offset(token, x)}
<1>1. a \in Row /\ b \in Row /\ token \in PageToken /\ token.uid # Null
    BY TypeOK, phase = "paging" DEF TypeOK
<1>2. ~Offset(token, a) /\ Offset(token, b)
    BY Separated, phase = "paging" DEF Separated
<1> QED BY <1>1, <1>2, NoNulls, req.order = token.order, OffsetSplits

\* Every step keeps the invariant.
LEMMA NextPInv ==
    ASSUME NoNulls, PInv, [Next]_vars
    PROVE  PInv'
<1> USE DEF PInv
<1>1. ASSUME NEW req \in Requests, ListFirst(req) PROVE PInv'
    <2> DEFINE hits == {x \in rows : Match(req.filter, x)}
    <2>1. PICK p \in SUBSET hits :
            IsPage(req.order, hits, p) /\ Deliver(req, hits, p) /\ seen' = p /\ steady' = hits
        BY <1>1 DEF ListFirst
    <2>2. hits \subseteq Row /\ rows' = rows /\ writes' = writes
        BY <1>1, PInv DEF TypeOK, ListFirst
    <2>3. page' = p /\ reply' = "OK"
        BY <2>1 DEF Deliver
    <2>4. \A b \in hits : b \in rows /\ Match(req.filter, b)
        OBVIOUS
    <2> HIDE DEF hits
    <2>5. /\ phase' \in {"paging", "ended"} /\ token' \in PageToken
          /\ phase' = "ended" => p = hits
          /\ phase' = "paging" =>
                /\ token'.uid # Null
                /\ token'.filter = req.filter
                /\ \A a \in p : ~Offset(token', a)
                /\ \A b \in hits \ p : Offset(token', b)
        BY <2>1, <2>2, NoNulls, DeliverKeeps
    <2>6. TypeOK'
        BY <2>1, <2>2, <2>3, <2>5, PInv DEF TypeOK
    <2>7. Separated'
        BY <2>1, <2>2, <2>4, <2>5 DEF Separated
    <2>8. Complete'
        BY <2>1, <2>5 DEF Complete
    <2> QED BY <2>6, <2>7, <2>8
<1>2. ASSUME NEW req \in Requests, ListNext(req) PROVE PInv'
    <2> DEFINE hits == {x \in rows : Match(req.filter, x) /\ Offset(token, x)}
    <2>1. PICK p \in SUBSET hits :
            IsPage(req.order, hits, p) /\ Deliver(req, hits, p) /\ seen' = seen \cup p
        BY <1>2 DEF ListNext
    <2>2. /\ hits \subseteq Row /\ seen \subseteq Row
          /\ rows' = rows /\ writes' = writes /\ steady' = steady
        BY <1>2, PInv DEF TypeOK, ListNext
    <2>3. page' = p /\ reply' = "OK"
        BY <2>1 DEF Deliver
    <2>4. phase = "paging" /\ req.filter = token.filter /\ req.order = token.order
        BY <1>2, PInv DEF ListNext, ValidateToken, ColumnMissing, Requests, Orders, TypeOK, PageToken
    <2>5. \A a \in seen, b \in hits : Before(req.order, a, b)
        BY <2>4, NoNulls, PInv, NextPageAfter
    <2>6. \A b \in steady \ seen : b \in rows /\ Match(req.filter, b) /\ b \in hits
        BY <2>4, PInv DEF Separated
    <2> HIDE DEF hits
    <2>7. /\ phase' \in {"paging", "ended"} /\ token' \in PageToken
          /\ phase' = "ended" => p = hits
          /\ phase' = "paging" =>
                /\ token'.uid # Null
                /\ token'.filter = req.filter
                /\ \A a \in p : ~Offset(token', a)
                /\ \A a \in Row : (\A b \in hits : Before(req.order, a, b)) => ~Offset(token', a)
                /\ \A b \in hits \ p : Offset(token', b)
        BY <2>1, <2>2, NoNulls, DeliverKeeps
    <2>8. phase' = "paging" => \A a \in seen \cup p : ~Offset(token', a)
        BY <2>2, <2>5, <2>7
    <2>9. TypeOK'
        BY <2>1, <2>2, <2>3, <2>7, PInv DEF TypeOK
    <2>10. Separated'
        BY <2>1, <2>2, <2>6, <2>7, <2>8 DEF Separated
    <2>11. Complete'
        BY <2>1, <2>2, <2>6, <2>7 DEF Complete
    <2> QED BY <2>9, <2>10, <2>11
<1>3. ASSUME NEW req \in Requests, ListRefused(req) \/ ListFails(req) PROVE PInv'
    BY <1>3, PInv DEF ListRefused, ListFails, TypeOK, Separated, Complete
<1>4. ASSUME NEW row \in Row, Insert(row) PROVE PInv'
    <2>1. writes' \in 0..MaxWrites
        BY <1>4, PInv, PaginationAssumption DEF Insert, Writing, TypeOK
    <2> QED BY <1>4, <2>1, PInv DEF Insert, client, TypeOK, Separated, Complete
<1>5. ASSUME NEW row \in rows, Delete(row) PROVE PInv'
    <2>1. writes' \in 0..MaxWrites
        BY <1>5, PInv, PaginationAssumption DEF Delete, Writing, TypeOK
    <2> QED BY <1>5, <2>1, PInv DEF Delete, client, TypeOK, Separated, Complete
<1>6. ASSUME NEW row \in rows, NEW k \in Keys, NEW t \in Tags, Update(row, k, t) PROVE PInv'
    <2>1. writes' \in 0..MaxWrites
        BY <1>6, PInv, PaginationAssumption DEF Update, Writing, TypeOK
    <2>2. [id |-> row.id, key |-> k, tag |-> t] \in Row
        BY <1>6, PInv DEF TypeOK, Row
    <2> QED BY <1>6, <2>1, <2>2, PInv DEF Update, client, TypeOK, Separated, Complete
<1>7. ASSUME UNCHANGED vars PROVE PInv'
    BY <1>7, PInv DEF vars, TypeOK, Separated, Complete
<1> QED BY <1>1, <1>2, <1>3, <1>4, <1>5, <1>6, <1>7, [Next]_vars DEF Next, Rest

----------------------------------------------------------------------------
(* The theorems                                                            *)

\* The token of the client separates what it got from what it is owed, in
\* every reachable state.
THEOREM PaginationInvariant == ASSUME NoNulls PROVE Spec => []PInv
<1>1. Init => PInv
    BY InitPInv
<1>2. PInv /\ [Next]_vars => PInv'
    BY NoNulls, NextPInv
<1> QED BY <1>1, <1>2, PTL DEF Spec

\* The table, the pages and the token are well typed: as long as a list goes on
\* its token names a last item (makePageTokenGenerator).
THEOREM PaginationTypeCorrect == ASSUME NoNulls PROVE Spec => []TypeOK
<1>1. PInv => TypeOK
    BY DEF PInv
<1> QED BY <1>1, NoNulls, PaginationInvariant, PTL

\* A list that has ended has every matching row that stayed in the table
\* unchanged (List, with offset.build and makePageTokenGenerator).
THEOREM PaginationComplete == ASSUME NoNulls PROVE Spec => []Complete
<1>1. PInv => Complete
    BY DEF PInv
<1> QED BY <1>1, NoNulls, PaginationInvariant, PTL

\* Every page lies after all earlier pages in the order of the request.
THEOREM PaginationContinues == ASSUME NoNulls PROVE Spec => PagesContinue
<1>1. ASSUME PInv, [Next]_vars,
             phase = "paging", <<page, token>>' # <<page, token>>
      PROVE  \A a \in seen, b \in page' : Before(token.order, a, b)
    <2>1. PICK req \in Requests : ListNext(req)
        BY <1>1 DEF Next, ListFirst, ListRefused, ListFails, Insert, Delete, Update, Rest, client, vars
    <2> DEFINE hits == {x \in rows : Match(req.filter, x) /\ Offset(token, x)}
    <2>2. page' \in SUBSET hits
        BY <2>1 DEF ListNext, Deliver
    <2>3. req.order = token.order
        BY <1>1, <2>1 DEF PInv, ListNext, ValidateToken, ColumnMissing, Requests, Orders, TypeOK, PageToken
    <2>4. \A a \in seen : \A b \in hits : Before(req.order, a, b)
        BY <1>1, <2>3, NoNulls, NextPageAfter DEF PInv
    <2> QED BY <2>2, <2>3, <2>4
<1>2. PInv /\ [Next]_vars =>
        [(phase = "paging" /\ <<page, token>>' # <<page, token>>) =>
            \A a \in seen, b \in page' : Before(token.order, a, b)]_vars
    BY <1>1
<1> QED BY <1>2, NoNulls, PaginationInvariant, PTL DEF Spec, PagesContinue
=============================================================================
