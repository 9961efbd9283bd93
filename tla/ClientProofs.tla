---------------------------- MODULE ClientProofs ----------------------------
(***************************************************************************)
(* Proofs about read requests and the command line client, for any rows,   *)
(* users, permissions, requests and commands, and for any language of      *)
(* filters.                                                                *)
(***************************************************************************)
EXTENDS Client, RankLemmas, FiniteSetTheorems, SequenceTheorems, TLAPS

----------------------------------------------------------------------------
(* Sequences of rows                                                       *)

\* A set of rows is finite, and its order is one.
LEMMA RowsOrdered ==
    ASSUME NEW order, NEW S, S \subseteq DOMAIN Rows
    PROVE  /\ IsFiniteSet(S) /\ Cardinality(S) \in Nat
           /\ \A i \in S : ~Earlier(order, i, i)
           /\ \A i, j \in S : i # j => Earlier(order, i, j) \/ Earlier(order, j, i)
           /\ \A i, j, k \in S : Earlier(order, i, j) /\ Earlier(order, j, k) => Earlier(order, i, k)
  <1>1. IsFiniteSet(S) /\ Cardinality(S) \in Nat
    <2>1. IsFiniteSet(DOMAIN Rows)
      <3>1. 1 \in Int /\ Len(Rows) \in Int /\ DOMAIN Rows = 1..Len(Rows)
        BY ApiAssumption
      <3> QED BY <3>1, FS_Interval
    <2> QED BY <2>1, FewerElements
  <1> DEFINE id == [i \in S |-> Rows[i].id]
  <1>2. \A i \in S : i \in Int /\ id[i] \in Nat /\ \A j \in S : id[i] = id[j] => i = j
    BY ApiAssumption
  <1>3. \A i, j \in S : Earlier(order, i, j) <=>
            IF order \in {"create_time desc", "created_time desc"} THEN i > j
            ELSE IF order = "created_time" THEN i < j ELSE id[i] < id[j]
    BY DEF Earlier
  <1> HIDE DEF id
  <1>4. CASE order \in {"create_time desc", "created_time desc"}
    <2>1. \A i, j \in S : Earlier(order, i, j) <=> i > j
      BY <1>3, <1>4
    <2> QED BY <1>1, <1>2, <2>1
  <1>5. CASE order = "created_time"
    <2>1. \A i, j \in S : Earlier(order, i, j) <=> i < j
      BY <1>3, <1>5
    <2> QED BY <1>1, <1>2, <2>1
  <1>6. CASE order \notin {"create_time desc", "created_time desc", "created_time"}
    <2>1. \A i, j \in S : Earlier(order, i, j) <=> id[i] < id[j]
      BY <1>3, <1>6
    <2> QED BY <1>1, <1>2, <2>1
  <1> QED BY <1>4, <1>5, <1>6

\* The rows of a set, sorted, are its rows, each in its place.
LEMMA SortedRows ==
    ASSUME NEW order, NEW S, S \subseteq DOMAIN Rows
    PROVE  /\ Cardinality(S) \in Nat /\ Sorted(order, S) \in [1..Cardinality(S) -> S]
           /\ \A i \in S : \E k \in 1..Cardinality(S) : Sorted(order, S)[k] = i
           /\ \A k, l \in 1..Cardinality(S) :
                 k < l => /\ Earlier(order, Sorted(order, S)[k], Sorted(order, S)[l])
                          /\ Sorted(order, S)[k] # Sorted(order, S)[l]
  <1>1. /\ IsFiniteSet(S) /\ Cardinality(S) \in Nat
        /\ \A i \in S : ~Earlier(order, i, i)
        /\ \A i, j \in S : i # j => Earlier(order, i, j) \/ Earlier(order, j, i)
        /\ \A i, j, k \in S : Earlier(order, i, j) /\ Earlier(order, j, k) => Earlier(order, i, k)
    BY RowsOrdered
  <1> DEFINE R == {e \in S \X S : Earlier(order, e[1], e[2])}
  <1>2. \A i, j \in S : <<i, j>> \in R <=> Earlier(order, i, j)
    OBVIOUS
  <1>3. /\ \A i \in S : <<i, i>> \notin R
        /\ \A i, j \in S : i # j => <<i, j>> \in R \/ <<j, i>> \in R
        /\ \A i, j, k \in S : <<i, j>> \in R /\ <<j, k>> \in R => <<i, k>> \in R
    BY <1>1, <1>2
  <1> HIDE DEF R
  <1>4. ASSUME NEW n \in 1..Cardinality(S)
        PROVE  \E i \in S : Cardinality({j \in S : Earlier(order, j, i)}) = n - 1
    <2>1. \E i \in S : Cardinality({j \in S : <<j, i>> \in R}) = n - 1
      <3>1. IsFiniteSet(S) /\ n \in 1..Cardinality(S)
        BY <1>1
      <3> QED BY ONLY <1>3, <3>1, Ranks, ZenonT(60)
    <2>3. PICK i \in S : Cardinality({j \in S : <<j, i>> \in R}) = n - 1
      BY <2>1
    <2>2. {j \in S : <<j, i>> \in R} = {j \in S : Earlier(order, j, i)}
      BY <1>2
    <2> QED BY <2>2, <2>3
  <1>5. PICK f : f = Sorted(order, S)
    OBVIOUS
  <1>6. /\ f \in [1..Cardinality(S) -> S]
        /\ \A k \in 1..Cardinality(S) : Cardinality({j \in S : Earlier(order, j, f[k])}) = k - 1
    BY <1>4, <1>5 DEF Sorted
  <1>7. ASSUME NEW k \in 1..Cardinality(S)
        PROVE  Cardinality({j \in S : <<j, f[k]>> \in R}) = k - 1
    <2>1. {j \in S : <<j, f[k]>> \in R} = {j \in S : Earlier(order, j, f[k])}
      BY <1>2, <1>6
    <2> QED BY <1>6, <2>1
  <1>8. /\ \A i \in S : \E k \in 1..Cardinality(S) : f[k] = i
        /\ \A k, l \in 1..Cardinality(S) : k < l => <<f[k], f[l]>> \in R /\ f[k] # f[l]
    BY <1>1, <1>3, <1>6, <1>7, RankOrder
  <1> QED BY <1>1, <1>2, <1>5, <1>6, <1>8

\* Rows picked from a batch are rows of the batch.
LEMMA PickedRows ==
    ASSUME NEW T, NEW batch \in Seq(T), NEW P, P \subseteq DOMAIN batch
    PROVE  /\ Picked(batch, P) \in Seq(T)
           /\ \A k \in DOMAIN Picked(batch, P) : \E n \in P : Picked(batch, P)[k] = batch[n]
  <1>1. Len(batch) \in Nat /\ P \subseteq 1..Len(batch)
    OBVIOUS
  <1>2. Cardinality(P) \in Nat
    BY <1>1, Positions
  <1>3. \A k \in 1..Cardinality(P) : \E n \in P : Cardinality({m \in P : m < n}) = k - 1
    BY <1>1, Positions
  <1>4. \A n \in P : batch[n] \in T
    BY <1>1
  <1>5. Picked(batch, P) \in [1..Cardinality(P) -> T]
    BY <1>3, <1>4 DEF Picked
  <1>6. \A k \in 1..Cardinality(P) : \E n \in P : Picked(batch, P)[k] = batch[n]
    BY <1>3 DEF Picked
  <1>7. DOMAIN Picked(batch, P) = 1..Cardinality(P)
    BY DEF Picked
  <1> QED BY <1>2, <1>5, <1>6, <1>7

\* The elements of four sequences, one after the other.
LEMMA Joined ==
    ASSUME NEW T, NEW a \in Seq(T), NEW g \in Seq(T), NEW u \in Seq(T), NEW x \in Seq(T)
    PROVE  /\ a \o g \o u \o x \in Seq(T)
           /\ Len(a \o g \o u \o x) = Len(a) + Len(g) + Len(u) + Len(x)
           /\ Range(a \o g \o u \o x) = Range(a) \cup Range(g) \cup Range(u) \cup Range(x)
  <1>1. /\ a \o g \in Seq(T) /\ Len(a \o g) = Len(a) + Len(g)
        /\ Range(a \o g) = Range(a) \cup Range(g)
    BY ConcatProperties, RangeConcatenation
  <1>2. /\ (a \o g) \o u \in Seq(T) /\ Len((a \o g) \o u) = Len(a \o g) + Len(u)
        /\ Range((a \o g) \o u) = Range(a \o g) \cup Range(u)
    <2> DEFINE b == a \o g
    <2>1. b \in Seq(T)
      BY <1>1
    <2> HIDE DEF b
    <2>2. /\ b \o u \in Seq(T) /\ Len(b \o u) = Len(b) + Len(u)
          /\ Range(b \o u) = Range(b) \cup Range(u)
      BY <2>1, ConcatProperties, RangeConcatenation
    <2> QED BY <2>2 DEF b
  <1>3. /\ ((a \o g) \o u) \o x \in Seq(T)
        /\ Len(((a \o g) \o u) \o x) = Len((a \o g) \o u) + Len(x)
        /\ Range(((a \o g) \o u) \o x) = Range((a \o g) \o u) \cup Range(x)
    <2> DEFINE b == (a \o g) \o u
    <2>1. b \in Seq(T)
      BY <1>2
    <2> HIDE DEF b
    <2>2. /\ b \o x \in Seq(T) /\ Len(b \o x) = Len(b) + Len(x)
          /\ Range(b \o x) = Range(b) \cup Range(x)
      BY <2>1, ConcatProperties, RangeConcatenation
    <2> QED BY <2>2 DEF b
  <1> QED BY <1>1, <1>2, <1>3

\* All that an impersonation names is reviewed.
LEMMA Attributes ==
    ASSUME NEW imp, IsFiniteSet(imp.groups), IsFiniteSet(imp.extra)
    PROVE  /\ Len(ResourceAttributes(imp)) \in Nat \ {0}
           /\ \A a \in {imp.user, imp.uid} \cup imp.groups \cup imp.extra :
                 a = "" \/ \E n \in 1..Len(ResourceAttributes(imp)) : ResourceAttributes(imp)[n] = a
  <1>1. PICK user, uid, groups, extra : /\ user = imp.user /\ uid = imp.uid
                                        /\ groups = imp.groups /\ extra = imp.extra
    OBVIOUS
  <1>2. PICK T, a, g, u, x : /\ T = {user, uid} \cup groups \cup extra
                             /\ a = <<user>> /\ g = SetToSeq(groups)
                             /\ u = (IF uid = "" THEN <<>> ELSE <<uid>>) /\ x = SetToSeq(extra)
    OBVIOUS
  <1>3. /\ g \in Seq(T) /\ groups \subseteq Range(g)
        /\ x \in Seq(T) /\ extra \subseteq Range(x)
    <2>1. /\ g \in Seq(groups) /\ \A b \in groups : \E k \in 1..Len(g) : g[k] = b
          /\ x \in Seq(extra) /\ \A b \in extra : \E k \in 1..Len(x) : x[k] = b
      <3>1. /\ SetToSeq(groups) \in Seq(groups)
            /\ \A b \in groups : \E k \in 1..Len(SetToSeq(groups)) : SetToSeq(groups)[k] = b
        <4>1. IsFiniteSet(groups)
          BY <1>1
        <4> QED BY ONLY <4>1, SetAsSequence
      <3>2. /\ SetToSeq(extra) \in Seq(extra)
            /\ \A b \in extra : \E k \in 1..Len(SetToSeq(extra)) : SetToSeq(extra)[k] = b
        <4>1. IsFiniteSet(extra)
          BY <1>1
        <4> QED BY ONLY <4>1, SetAsSequence
      <3> QED BY <1>2, <3>1, <3>2
    <2>2. DOMAIN g = 1..Len(g) /\ DOMAIN x = 1..Len(x)
      BY <2>1
    <2>3. g \in Seq(T) /\ x \in Seq(T)
      <3>1. groups \subseteq T /\ extra \subseteq T
        BY <1>2
      <3> QED BY ONLY <2>1, <3>1
    <2> QED BY <2>1, <2>2, <2>3 DEF Range
  <1>4. a \in Seq(T) /\ Len(a) = 1 /\ Range(a) = {user}
    <2>1. user \in T /\ a = <<user>>
      BY <1>2
    <2> QED BY ONLY <2>1 DEF Range
  <1>5. u \in Seq(T) /\ (uid # "" => Range(u) = {uid})
    <2>1. uid \in T /\ <<>> \in Seq(T) /\ <<uid>> \in Seq(T) /\ Range(<<uid>>) = {uid}
      <3>1. uid \in T
        BY <1>2
      <3> QED BY ONLY <3>1 DEF Range
    <2> QED BY <1>2, <2>1
  <1> DEFINE RA == a \o g \o u \o x
  <1>6. ResourceAttributes(imp) = RA
    BY <1>1, <1>2 DEF ResourceAttributes
  <1>7. /\ RA \in Seq(T) /\ Len(RA) = Len(a) + Len(g) + Len(u) + Len(x)
        /\ Range(RA) = Range(a) \cup Range(g) \cup Range(u) \cup Range(x)
    <2>1. g \in Seq(T) /\ u \in Seq(T) /\ x \in Seq(T) /\ a \in Seq(T)
      BY <1>3, <1>4, <1>5
    <2> QED BY ONLY <2>1, Joined
  <1>8. Len(RA) \in Nat \ {0}
    <2>1. Len(g) \in Nat /\ Len(u) \in Nat /\ Len(x) \in Nat
      <3>1. g \in Seq(T) /\ u \in Seq(T) /\ x \in Seq(T)
        BY <1>3, <1>5
      <3> QED BY ONLY <3>1
    <2> HIDE DEF RA
    <2> QED BY <1>4, <1>7, <2>1
  <1> HIDE DEF RA
  <1>9. \A b \in T : b = "" \/ b \in Range(RA)
    BY <1>2, <1>3, <1>4, <1>5, <1>7
  <1>10. \A b \in Range(RA) : \E n \in 1..Len(RA) : RA[n] = b
    <2>1. DOMAIN RA = 1..Len(RA)
      BY <1>7
    <2> QED BY <2>1 DEF Range
  <1> QED BY <1>1, <1>2, <1>6, <1>8, <1>9, <1>10

----------------------------------------------------------------------------
(* A request on its way through the server                                 *)

\* The rows that a request may tell of: any, if its filter escapes.
Scope(req) == {i \in DOMAIN Rows : Escapes(req) \/ InScope(req, Rows[i])}

\* The user of the token that a call has come to.
Caller(c) == Users[c.req.tokens[c.token]]

\* The caller may impersonate the first n of what the request impersonates.
Vouched(c, n) ==
    \A m \in 1..n : Allows(c.held, [Caller(c) EXCEPT !.groups = {}], "impersonate",
                          <<ResourceAttributes(c.req.imp)[m]>>)

\* The token has been reviewed, the impersonation allowed, the request granted.
Authenticated(c) == c.token \in 1..Len(c.req.tokens) /\ c.req.tokens[c.token] \in DOMAIN Users

Impersonates(c) ==
    AnyImpersonation(c.req.imp) => Vouched(c, Len(ResourceAttributes(c.req.imp)))

Authorized(c) ==
    /\ Authenticated(c) /\ Impersonates(c)
    /\ Allows(c.held, Identity(c.req, Caller(c)), Verb(c.req), c.req.parent)

Phases == {"check", "token", "impersonate", "access", "query", "answered"}

\* The rows that the condition of a request selects, of those stored then.
Selected(req, scope) ==
    {i \in scope : InScope(req, Rows[i]) /\ True(Selects(req.filter, FilterRow(Rows[i])))}

\* The statement of a request has been executed.
Executed(req, scope) ==
    /\ scope \subseteq DOMAIN Rows /\ Accepts(req.filter) /\ Typechecks(req.filter)
    /\ \A i \in scope : InScope(req, Rows[i]) => Selects(req.filter, FilterRow(Rows[i])).t # "error"

\* Those after the row of the page token, and the page.
Remaining(req, scope) ==
    {i \in Selected(req, scope) : req.after = 0 \/ Earlier(req.order, req.after, i)}

PageOf(req, scope) ==
    SubSeq(Sorted(req.order, Remaining(req, scope)), 1,
           Min({PageSize(req), Cardinality(Remaining(req, scope))}))

\* The logs of a list match its filter.
Matched(req, rows) == req.kind = "logs" => \A k \in DOMAIN rows : True(Match(req, rows[k]))

\* The row that a request names.
IsNamed(req, i) ==
    /\ Rows[i].table = "records"
    /\ req.parent = Rows[i].parent /\ req.result = Rows[i].result /\ req.name = Rows[i].name

\* An answer is what the request asked for, of the rows stored at one time.
AnswerExact(req, x) ==
    x.code = "OK" =>
        /\ req.kind \in {"results", "records"} /\ ~Quoted(req.filter) =>
              /\ Executed(req, x.scope) /\ ValidPage(req)
              /\ x.rows = PageOf(req, x.scope)
              /\ x.next # 0 => x.rows # <<>> /\ x.next = Last(x.rows)
        /\ req.kind = "logs" => Matched(req, x.rows)
        /\ req.kind = "summary" /\ ~x.failed /\ ~Quoted(req.filter) =>
              Executed(req, x.scope) /\ x.summary = Summary(req, Selected(req, x.scope))
        /\ req.kind \in {"get", "log"} => \A k \in DOMAIN x.rows : IsNamed(req, x.rows[k])

\* What is told and how, once there is an answer.
AnswerSound(c) ==
    /\ AnswerExact(c.req, c.answer)
    /\ c.answer.code \in {"OK", "NotFound", "Internal"} => Authorized(c)
    /\ c.answer.rows \in Seq(Scope(c.req))
    /\ c.answer.code = "OK" /\ c.req.kind \in {"get", "log"} => Len(c.answer.rows) = 1
    /\ c.answer.code = "OK" /\ c.req.kind \in {"records", "get"} =>
          c.answer.body = [k \in 1..Len(c.answer.rows) |->
                             Masked(c.req, Message(Rows[c.answer.rows[k]]))]

\* A call has passed what comes before its phase, by permissions that it has
\* seen while it was served.
CallSound(c) ==
    /\ c = [phase |-> c.phase, from |-> c.from, req |-> c.req, token |-> c.token, attr |-> c.attr,
            held |-> c.held, start |-> c.start, rec |-> c.rec, answer |-> c.answer]
    /\ c.phase \in Phases /\ IsRequest(c.req)
    /\ c.token \in DOMAIN c.req.tokens \cup {1}
    /\ Matched(c.req, c.rec)
    /\ c.phase \in {"check", "token"} => c.attr = 1
    /\ c.phase = "check" => c.token = 1
    /\ c.phase = "token" => c.token \in 1..Len(c.req.tokens)
    /\ c.phase \in {"impersonate", "access"} => Authenticated(c)
    /\ c.phase = "impersonate" => /\ AnyImpersonation(c.req.imp)
                                  /\ c.attr \in 1..Len(ResourceAttributes(c.req.imp))
                                  /\ Vouched(c, c.attr - 1)
    /\ c.phase = "access" => Impersonates(c)
    /\ c.phase = "query" => Authorized(c)
    /\ c.phase # "answered" => c.rec \in Seq(Scope(c.req))
    /\ c.phase = "answered" => AnswerSound(c)

CallsSound ==
    \/ call = Idle
    \/ CallSound(call) /\ granted \subseteq call.held

\* Permissions that were granted once remain seen.
LEMMA SeenRemains ==
    ASSUME NEW c, CallSound(c), NEW more
    PROVE  CallSound([c EXCEPT !.held = @ \cup more])
  <1> DEFINE d == [c EXCEPT !.held = @ \cup more]
  <1>1. /\ d = [phase |-> c.phase, from |-> c.from, req |-> c.req, token |-> c.token,
                attr |-> c.attr, held |-> c.held \cup more, start |-> c.start, rec |-> c.rec,
                answer |-> c.answer]
    <2>1. c = [phase |-> c.phase, from |-> c.from, req |-> c.req, token |-> c.token,
               attr |-> c.attr, held |-> c.held, start |-> c.start, rec |-> c.rec,
               answer |-> c.answer]
      BY DEF CallSound
    <2> QED BY ONLY <2>1, SMTT(30)
  <1>2. /\ d.phase = c.phase /\ d.from = c.from /\ d.req = c.req /\ d.token = c.token
        /\ d.attr = c.attr /\ d.held = c.held \cup more /\ d.start = c.start /\ d.rec = c.rec
        /\ d.answer = c.answer
    BY <1>1
  <1>3. d = [phase |-> d.phase, from |-> d.from, req |-> d.req, token |-> d.token, attr |-> d.attr,
            held |-> d.held, start |-> d.start, rec |-> d.rec, answer |-> d.answer]
    BY <1>1, <1>2
  <1> HIDE DEF d
  <1>4. ASSUME NEW who, NEW verb, NEW where, Allows(c.held, who, verb, where)
        PROVE  Allows(d.held, who, verb, where)
    BY <1>2, <1>4 DEF Allows
  <1>5. /\ Authenticated(c) => Authenticated(d)
        /\ \A n : Vouched(c, n) => Vouched(d, n)
        /\ Impersonates(c) => Impersonates(d)
        /\ Authorized(c) => Authorized(d)
    BY <1>2, <1>4 DEF Authenticated, Vouched, Impersonates, Authorized, Caller
  <1>6. AnswerSound(c) => AnswerSound(d)
    BY <1>2, <1>5 DEF AnswerSound
  <1>7. CallSound(d)
    BY <1>2, <1>3, <1>5, <1>6 DEF CallSound
  <1> QED BY <1>7 DEF d

\* A call that goes on keeps its request, and the permissions it has seen.
Edit(c, p, t, a, st, r, x) ==
    [phase |-> p, from |-> c.from, req |-> c.req, token |-> t, attr |-> a, held |-> c.held,
     start |-> st, rec |-> r, answer |-> x]

GoesOn ==
    /\ CallSound(call') /\ call' # Idle
    /\ call'.from = call.from /\ call'.req = call.req /\ call'.held = call.held

\* A changed call, written field by field.
LEMMA Edits ==
    ASSUME NEW c, CallSound(c)
    PROVE  /\ \A x : [c EXCEPT !.phase = "answered", !.answer = x] =
                       Edit(c, "answered", c.token, c.attr, c.start, c.rec, x)
           /\ \A p : [c EXCEPT !.phase = p] = Edit(c, p, c.token, c.attr, c.start, c.rec, c.answer)
           /\ [c EXCEPT !.phase = "token", !.token = @ + 1, !.attr = 1] =
                 Edit(c, "token", c.token + 1, 1, c.start, c.rec, c.answer)
           /\ [c EXCEPT !.attr = @ + 1] =
                 Edit(c, c.phase, c.token, c.attr + 1, c.start, c.rec, c.answer)
           /\ \A r, st : [c EXCEPT !.rec = r, !.start = st] =
                           Edit(c, c.phase, c.token, c.attr, st, r, c.answer)
  <1>1. c = [phase |-> c.phase, from |-> c.from, req |-> c.req, token |-> c.token,
             attr |-> c.attr, held |-> c.held, start |-> c.start, rec |-> c.rec,
             answer |-> c.answer]
    BY DEF CallSound
  <1>2. PICK ph, fr, rq, tk, at, hd, str, rc, an :
           c = [phase |-> ph, from |-> fr, req |-> rq, token |-> tk, attr |-> at, held |-> hd,
                start |-> str, rec |-> rc, answer |-> an]
    BY <1>1
  <1>3. /\ c.phase = ph /\ c.from = fr /\ c.req = rq /\ c.token = tk /\ c.attr = at
        /\ c.held = hd /\ c.start = str /\ c.rec = rc /\ c.answer = an
    BY ONLY <1>2
  <1>4. ASSUME NEW p, NEW x
        PROVE  [c EXCEPT !.phase = p, !.answer = x] =
                  Edit(c, p, c.token, c.attr, c.start, c.rec, x)
    <2>1. PICK d : d = [c EXCEPT !.phase = p]
      OBVIOUS
    <2>2. d = [phase |-> p, from |-> fr, req |-> rq, token |-> tk, attr |-> at, held |-> hd,
               start |-> str, rec |-> rc, answer |-> an]
      BY ONLY <1>2, <2>1
    <2>3. [d EXCEPT !.answer = x] =
             [phase |-> p, from |-> fr, req |-> rq, token |-> tk, attr |-> at, held |-> hd,
              start |-> str, rec |-> rc, answer |-> x]
      BY ONLY <2>2
    <2> QED BY <1>3, <2>1, <2>3 DEF Edit
  <1>5. \A p : [c EXCEPT !.phase = p] = Edit(c, p, c.token, c.attr, c.start, c.rec, c.answer)
    BY ONLY <1>2, <1>3 DEF Edit
  <1>6. ASSUME NEW p, NEW t, NEW a
        PROVE  [c EXCEPT !.phase = p, !.token = t, !.attr = a] =
                  Edit(c, p, t, a, c.start, c.rec, c.answer)
    <2>1. PICK d : d = [c EXCEPT !.phase = p]
      OBVIOUS
    <2>2. d = [phase |-> p, from |-> fr, req |-> rq, token |-> tk, attr |-> at, held |-> hd,
               start |-> str, rec |-> rc, answer |-> an]
      BY ONLY <1>2, <2>1
    <2>3. PICK e : e = [d EXCEPT !.token = t]
      OBVIOUS
    <2>4. e = [phase |-> p, from |-> fr, req |-> rq, token |-> t, attr |-> at, held |-> hd,
               start |-> str, rec |-> rc, answer |-> an]
      BY ONLY <2>2, <2>3
    <2>5. [e EXCEPT !.attr = a] =
             [phase |-> p, from |-> fr, req |-> rq, token |-> t, attr |-> a, held |-> hd,
              start |-> str, rec |-> rc, answer |-> an]
      BY ONLY <2>4
    <2> QED BY <1>3, <2>1, <2>3, <2>5 DEF Edit
  <1>7. [c EXCEPT !.attr = @ + 1] =
           Edit(c, c.phase, c.token, c.attr + 1, c.start, c.rec, c.answer)
    BY ONLY <1>2, <1>3 DEF Edit
  <1>8. ASSUME NEW r, NEW st
        PROVE  [c EXCEPT !.rec = r, !.start = st] =
                  Edit(c, c.phase, c.token, c.attr, st, r, c.answer)
    <2>1. PICK d : d = [c EXCEPT !.rec = r]
      OBVIOUS
    <2>2. d = [phase |-> ph, from |-> fr, req |-> rq, token |-> tk, attr |-> at, held |-> hd,
               start |-> str, rec |-> r, answer |-> an]
      BY ONLY <1>2, <2>1
    <2>3. [d EXCEPT !.start = st] =
             [phase |-> ph, from |-> fr, req |-> rq, token |-> tk, attr |-> at, held |-> hd,
              start |-> st, rec |-> r, answer |-> an]
      BY ONLY <2>2
    <2> QED BY <1>3, <2>1, <2>3 DEF Edit
  <1>9. [c EXCEPT !.phase = "token", !.token = @ + 1, !.attr = 1] =
           [c EXCEPT !.phase = "token", !.token = c.token + 1, !.attr = 1]
    OBVIOUS
  <1>10. [c EXCEPT !.phase = "token", !.token = @ + 1, !.attr = 1] =
            Edit(c, "token", c.token + 1, 1, c.start, c.rec, c.answer)
    BY <1>6, <1>9, Zenon
  <1>11. \A x : [c EXCEPT !.phase = "answered", !.answer = x] =
                  Edit(c, "answered", c.token, c.attr, c.start, c.rec, x)
    BY <1>4, Zenon
  <1>12. \A r, st : [c EXCEPT !.rec = r, !.start = st] =
                      Edit(c, c.phase, c.token, c.attr, st, r, c.answer)
    BY <1>8, Zenon
  <1> QED BY ONLY <1>5, <1>7, <1>10, <1>11, <1>12, Zenon

\* The same of a call that reads the next batch.
LEMMA EditedBatch ==
    ASSUME NEW c, CallSound(c), NEW r, NEW st
    PROVE  [c EXCEPT !.rec = r, !.start = st] =
              Edit(c, c.phase, c.token, c.attr, st, r, c.answer)
  <1>1. \A s, t : [c EXCEPT !.rec = s, !.start = t] =
                     Edit(c, c.phase, c.token, c.attr, t, s, c.answer)
    BY Edits, Zenon
  <1> QED BY <1>1, Zenon

\* The fields of a changed call.
LEMMA Edited ==
    ASSUME NEW c, NEW p, NEW t, NEW a, NEW st, NEW r, NEW x, NEW d, d = Edit(c, p, t, a, st, r, x)
    PROVE  /\ d.phase = p /\ d.from = c.from /\ d.req = c.req /\ d.token = t /\ d.attr = a
           /\ d.held = c.held /\ d.start = st /\ d.rec = r /\ d.answer = x /\ d # Idle
           /\ d = [phase |-> d.phase, from |-> d.from, req |-> d.req, token |-> d.token,
                   attr |-> d.attr, held |-> d.held, start |-> d.start, rec |-> d.rec,
                   answer |-> d.answer]
  <1>1. d["phase"] = p /\ d["from"] = c.from
    BY DEF Edit
  <1>2. "from" \in DOMAIN d /\ "from" \notin DOMAIN Idle
    BY DEF Edit, Idle
  <1>3. d # Idle
    BY <1>2
  <1> QED BY <1>3 DEF Edit

\* What a call has passed depends on its request, its token and what it has seen.
LEMMA Passed ==
    ASSUME NEW c, NEW d, d.req = c.req, d.token = c.token, d.held = c.held
    PROVE  /\ Authenticated(d) <=> Authenticated(c)
           /\ \A n : Vouched(d, n) <=> Vouched(c, n)
           /\ Impersonates(d) <=> Impersonates(c)
           /\ Authorized(d) <=> Authorized(c)
  BY DEF Authenticated, Vouched, Impersonates, Authorized, Caller

\* An answer that tells of rows in the scope of an authorized request.
LEMMA AnsweredSound ==
    ASSUME CallSound(call), NEW x, Answered(x), AnswerExact(call.req, x),
           x.code \in {"OK", "NotFound", "Internal"} => Authorized(call),
           x.rows \in Seq(Scope(call.req)),
           x.code = "OK" /\ call.req.kind \in {"get", "log"} => Len(x.rows) = 1,
           x.code = "OK" /\ call.req.kind \in {"records", "get"} =>
              x.body = [k \in 1..Len(x.rows) |-> Masked(call.req, Message(Rows[x.rows[k]]))]
    PROVE  GoesOn
  <1>1. call' = Edit(call, "answered", call.token, call.attr, call.start, call.rec, x)
    BY Edits DEF Answered
  <1>2. /\ call'.phase = "answered" /\ call'.from = call.from /\ call'.req = call.req
        /\ call'.token = call.token /\ call'.held = call.held /\ call'.answer = x /\ call' # Idle
        /\ call'.rec = call.rec
        /\ call' = [phase |-> call'.phase, from |-> call'.from, req |-> call'.req,
                    token |-> call'.token, attr |-> call'.attr, held |-> call'.held,
                    start |-> call'.start, rec |-> call'.rec, answer |-> call'.answer]
    BY <1>1, Edited
  <1>3. Authorized(call) => Authorized(call')
    BY <1>2, Passed
  <1>4. AnswerSound(call')
    BY <1>2, <1>3 DEF AnswerSound
  <1>5. IsRequest(call.req) /\ call.token \in DOMAIN call.req.tokens \cup {1} /\ Matched(call.req, call.rec)
    BY DEF CallSound
  <1> QED BY <1>2, <1>4, <1>5, SMTT(30) DEF CallSound, Phases, GoesOn

\* The steps of the server: an error tells of no row.
LEMMA RefusedSound ==
    ASSUME CallSound(call), NEW code, Refused(code),
           code \in {"NotFound", "Internal"} => Authorized(call), code # "OK"
    PROVE  GoesOn
  <1> DEFINE x == [NoAnswer EXCEPT !.code = code]
  <1>1. x.code = code /\ x.rows = <<>>
    BY DEF NoAnswer
  <1>2. <<>> \in Seq(Scope(call.req))
    OBVIOUS
  <1>3. Answered(x)
    BY DEF Refused
  <1>4. AnswerExact(call.req, x)
    BY <1>1 DEF AnswerExact
  <1> HIDE DEF x
  <1> QED BY <1>1, <1>2, <1>3, <1>4, AnsweredSound

\* The next token is one of the request, or the request is refused.
LEMMA NextTokenSound ==
    ASSUME CallSound(call), call.phase # "answered", NextToken
    PROVE  GoesOn
  <1>1. CASE call.token < Len(call.req.tokens)
    <2>1. call' = Edit(call, "token", call.token + 1, 1, call.start, call.rec, call.answer)
      BY <1>1, Edits DEF NextToken
    <2>2. /\ call'.phase = "token" /\ call'.from = call.from /\ call'.req = call.req
          /\ call'.token = call.token + 1 /\ call'.attr = 1 /\ call'.held = call.held
          /\ call'.rec = call.rec /\ call' # Idle
          /\ call' = [phase |-> call'.phase, from |-> call'.from, req |-> call'.req,
                      token |-> call'.token, attr |-> call'.attr, held |-> call'.held,
                      start |-> call'.start, rec |-> call'.rec, answer |-> call'.answer]
      BY <2>1, Edited
    <2>3. /\ IsRequest(call.req) /\ call.rec \in Seq(Scope(call.req))
          /\ call.token \in DOMAIN call.req.tokens \cup {1} /\ Matched(call.req, call.rec)
      BY DEF CallSound
    <2>4. call.token + 1 \in 1..Len(call.req.tokens)
          /\ DOMAIN call.req.tokens = 1..Len(call.req.tokens)
      BY <1>1, <2>3 DEF IsRequest
    <2> QED BY <2>2, <2>3, <2>4, SMTT(30) DEF CallSound, Phases, GoesOn
  <1>2. CASE ~(call.token < Len(call.req.tokens))
    BY <1>2, RefusedSound DEF NextToken
  <1> QED BY <1>1, <1>2

\* A call that has passed what comes before a phase goes on to it.
LEMMA PhaseSound ==
    ASSUME CallSound(call), call.phase # "answered", NEW p,
           call' = [call EXCEPT !.phase = p],
           \/ p = "token" /\ call.phase = "check" /\ call.req.tokens # <<>>
           \/ p = "impersonate" /\ Authenticated(call) /\ AnyImpersonation(call.req.imp) /\ call.attr = 1
           \/ p = "access" /\ Authenticated(call) /\ Impersonates(call)
           \/ p = "query" /\ Authorized(call)
    PROVE  GoesOn
  <1>1. call' = Edit(call, p, call.token, call.attr, call.start, call.rec, call.answer)
    BY Edits
  <1>2. /\ call'.phase = p /\ call'.from = call.from /\ call'.req = call.req
        /\ call'.token = call.token /\ call'.attr = call.attr /\ call'.held = call.held
        /\ call'.rec = call.rec /\ call' # Idle
        /\ call' = [phase |-> call'.phase, from |-> call'.from, req |-> call'.req,
                    token |-> call'.token, attr |-> call'.attr, held |-> call'.held,
                    start |-> call'.start, rec |-> call'.rec, answer |-> call'.answer]
    BY <1>1, Edited
  <1>3. /\ Authenticated(call) => Authenticated(call')
        /\ \A n : Vouched(call, n) => Vouched(call', n)
        /\ Impersonates(call) => Impersonates(call')
        /\ Authorized(call) => Authorized(call')
    BY <1>2, Passed
  <1>4. /\ IsRequest(call.req) /\ call.rec \in Seq(Scope(call.req))
        /\ call.token \in DOMAIN call.req.tokens \cup {1} /\ Matched(call.req, call.rec)
    BY DEF CallSound
  <1>5. CASE p = "token" /\ call.phase = "check" /\ call.req.tokens # <<>>
    <2>1. call.token = 1 /\ call.attr = 1
      BY <1>5 DEF CallSound
    <2>2. 1 \in 1..Len(call.req.tokens)
      BY <1>4, <1>5 DEF IsRequest
    <2> QED BY <1>2, <1>4, <1>5, <2>1, <2>2 DEF CallSound, Phases, GoesOn
  <1>6. CASE p = "impersonate" /\ Authenticated(call) /\ AnyImpersonation(call.req.imp) /\ call.attr = 1
    <2>1. 1 \in 1..Len(ResourceAttributes(call.req.imp))
      <3>1. Len(ResourceAttributes(call.req.imp)) \in Nat \ {0}
        BY <1>4, Attributes DEF IsRequest
      <3> QED BY <3>1
    <2>2. Vouched(call', 0)
      BY DEF Vouched
    <2> QED BY <1>2, <1>3, <1>4, <1>6, <2>1, <2>2 DEF CallSound, Phases, GoesOn
  <1>7. CASE p = "access" /\ Authenticated(call) /\ Impersonates(call)
    BY <1>2, <1>3, <1>4, <1>7 DEF CallSound, Phases, GoesOn
  <1>8. CASE p = "query" /\ Authorized(call)
    BY <1>2, <1>3, <1>4, <1>8 DEF CallSound, Phases, GoesOn
  <1> QED BY <1>5, <1>6, <1>7, <1>8, SMTT(30)

\* What is allowed by some permissions is allowed by more.
LEMMA Wider ==
    ASSUME NEW P, NEW Q, P \subseteq Q, NEW who, NEW verb, NEW where, Allows(P, who, verb, where)
    PROVE  Allows(Q, who, verb, where)
  BY DEF Allows

\* A request without a token is refused, one with tokens is checked.
LEMMA CheckSound ==
    ASSUME CallSound(call), Check
    PROVE  GoesOn
  <1>1. CASE Refused("InvalidArgument")
    BY <1>1, RefusedSound
  <1>2. CASE Refused("Unauthenticated")
    BY <1>2, RefusedSound
  <1>3. CASE call' = [call EXCEPT !.phase = "token"] /\ call.req.tokens # <<>>
    BY <1>3, PhaseSound DEF Check, At
  <1> QED BY <1>1, <1>2, <1>3 DEF Check

\* A token is reviewed.
LEMMA ReviewTokenSound ==
    ASSUME CallSound(call), ReviewToken
    PROVE  GoesOn
  <1>1. CASE NextToken
    BY <1>1, NextTokenSound DEF ReviewToken, At
  <1>2. CASE /\ Token \in DOMAIN Users
             /\ call' = [call EXCEPT !.phase = IF AnyImpersonation(call.req.imp)
                                               THEN "impersonate" ELSE "access"]
    <2>1. Authenticated(call) /\ call.attr = 1 /\ call.phase # "answered"
      BY <1>2 DEF ReviewToken, At, CallSound, Authenticated, Token
    <2>2. CASE AnyImpersonation(call.req.imp)
      <3>1. call' = [call EXCEPT !.phase = "impersonate"]
        BY <1>2, <2>2
      <3> QED BY <2>1, <2>2, <3>1, PhaseSound
    <2>3. CASE ~AnyImpersonation(call.req.imp)
      <3>1. call' = [call EXCEPT !.phase = "access"] /\ Impersonates(call)
        BY <1>2, <2>3 DEF Impersonates
      <3> QED BY <2>1, <3>1, PhaseSound
    <2> QED BY <2>2, <2>3
  <1> QED BY <1>1, <1>2 DEF ReviewToken

\* An impersonated attribute is vouched for by a permission of the user.
LEMMA ImpersonateSound ==
    ASSUME CallSound(call), granted \subseteq call.held, Impersonate
    PROVE  GoesOn
  <1>1. /\ call.phase = "impersonate" /\ Authenticated(call)
        /\ call.attr \in 1..Len(ResourceAttributes(call.req.imp)) /\ Vouched(call, call.attr - 1)
        /\ AnyImpersonation(call.req.imp)
    BY DEF Impersonate, At, CallSound
  <1>2. CASE Refused("Unauthenticated")
    BY <1>2, RefusedSound
  <1>3. CASE /\ Allows(granted, [User EXCEPT !.groups = {}], "impersonate",
                       <<ResourceAttributes(call.req.imp)[call.attr]>>)
             /\ call' = IF call.attr < Len(ResourceAttributes(call.req.imp))
                        THEN [call EXCEPT !.attr = @ + 1]
                        ELSE [call EXCEPT !.phase = "access"]
    <2> DEFINE n == Len(ResourceAttributes(call.req.imp))
    <2>0. n \in Nat
      BY Attributes DEF CallSound, IsRequest
    <2>1. Vouched(call, call.attr)
      <3>1. Allows(call.held, [Caller(call) EXCEPT !.groups = {}], "impersonate",
                   <<ResourceAttributes(call.req.imp)[call.attr]>>)
        BY <1>3, Wider DEF User, Token, Caller
      <3>2. \A m \in 1..call.attr : m = call.attr \/ m \in 1..(call.attr - 1)
        BY <1>1, <2>0
      <3> QED BY <1>1, <3>1, <3>2 DEF Vouched
    <2>2. CASE call.attr < n
      <3>1. call' = Edit(call, call.phase, call.token, call.attr + 1, call.start, call.rec, call.answer)
        BY <1>3, <2>2, Edits
      <3>2. /\ call'.phase = "impersonate" /\ call'.from = call.from /\ call'.req = call.req
            /\ call'.token = call.token /\ call'.attr = call.attr + 1 /\ call'.held = call.held
            /\ call'.rec = call.rec /\ call' # Idle
            /\ call' = [phase |-> call'.phase, from |-> call'.from, req |-> call'.req,
                        token |-> call'.token, attr |-> call'.attr, held |-> call'.held,
                        start |-> call'.start, rec |-> call'.rec, answer |-> call'.answer]
        BY <1>1, <3>1, Edited
      <3>3. Authenticated(call') /\ Vouched(call', call.attr)
        BY <1>1, <2>1, <3>2, Passed
      <3>4. call.attr + 1 \in 1..n /\ (call.attr + 1) - 1 = call.attr
        BY <1>1, <2>0, <2>2
      <3>5. /\ IsRequest(call.req) /\ call.rec \in Seq(Scope(call.req))
            /\ call.token \in DOMAIN call.req.tokens \cup {1} /\ Matched(call.req, call.rec)
        BY <1>1 DEF CallSound
      <3> QED BY <1>1, <3>2, <3>3, <3>4, <3>5, SMTT(30) DEF CallSound, Phases, GoesOn
    <2>3. CASE ~(call.attr < n)
      <3>1. call.attr = n
        BY <1>1, <2>0, <2>3
      <3>2. Impersonates(call)
        BY <2>1, <3>1 DEF Impersonates
      <3>3. call' = [call EXCEPT !.phase = "access"]
        BY <1>3, <2>3
      <3> QED BY <1>1, <3>2, <3>3, PhaseSound
    <2> QED BY <2>2, <2>3
  <1> QED BY <1>2, <1>3 DEF Impersonate

\* The access is reviewed, of the user or of whom it impersonates.
LEMMA ReviewAccessSound ==
    ASSUME CallSound(call), granted \subseteq call.held, ReviewAccess
    PROVE  GoesOn
  <1>1. call.phase = "access" /\ Authenticated(call) /\ Impersonates(call)
    BY DEF ReviewAccess, At, CallSound
  <1>2. CASE NextToken
    BY <1>1, <1>2, NextTokenSound
  <1>3. CASE /\ Allows(granted, Identity(call.req, User), Verb(call.req), call.req.parent)
             /\ call' = [call EXCEPT !.phase = "query"]
    <2>1. Authorized(call)
      BY <1>1, <1>3, Wider DEF Authorized, User, Token, Caller
    <2> QED BY <1>1, <1>3, <2>1, PhaseSound
  <1> QED BY <1>2, <1>3 DEF ReviewAccess

----------------------------------------------------------------------------
(* Answers                                                                 *)

\* The beginning of a sequence.
LEMMA Beginning ==
    ASSUME NEW T, NEW s \in Seq(T), NEW n \in Int, n <= Len(s)
    PROVE  /\ SubSeq(s, 1, n) \in Seq(T)
           /\ \A k \in DOMAIN SubSeq(s, 1, n) : k \in DOMAIN s /\ SubSeq(s, 1, n)[k] = s[k]
  <1>1. CASE n <= 0
    BY <1>1
  <1>2. CASE n > 0
    BY <1>2, SubSeqProperties
  <1> QED BY <1>1, <1>2

LEMMA SizeOfPage ==
    ASSUME NEW req, IsRequest(req)
    PROVE  PageSize(req) \in Int
  BY ApiAssumption DEF PageSize, IsRequest

\* The rows on a page are rows that match.
LEMMA PageOfRows ==
    ASSUME NEW order, NEW S, S \subseteq DOMAIN Rows, NEW n \in Int
    PROVE  SubSeq(Sorted(order, S), 1, Min({n, Cardinality(S)})) \in Seq(S)
  <1>1. Cardinality(S) \in Nat /\ Sorted(order, S) \in [1..Cardinality(S) -> S]
    BY SortedRows
  <1>2. Sorted(order, S) \in Seq(S) /\ Len(Sorted(order, S)) = Cardinality(S)
    BY <1>1
  <1>3. Min({n, Cardinality(S)}) \in Int /\ Min({n, Cardinality(S)}) <= Cardinality(S)
    <2>1. Cardinality(S) \in Int
      BY <1>1
    <2> QED BY ONLY <2>1, n \in Int, Least
  <1> QED BY <1>2, <1>3, Beginning

\* The first n rows of a set, in an order.
IsFirst(order, S, n, page) ==
    /\ S \subseteq DOMAIN Rows /\ n \in Nat \ {0}
    /\ page = SubSeq(Sorted(order, S), 1, Min({n, Cardinality(S)}))

\* A page has the first rows, in their order; what is not on it comes after all
\* of a full page.
LEMMA PageInOrder ==
    ASSUME NEW order, NEW S, NEW n, NEW page, IsFirst(order, S, n, page)
    PROVE  /\ page \in Seq(S)
           /\ \A k, l \in DOMAIN page : k < l => Earlier(order, page[k], page[l]) /\ page[k] # page[l]
           /\ \A i \in S : \/ i \in Range(page)
                           \/ /\ Cardinality(Range(page)) = n
                              /\ \A j \in Range(page) : Earlier(order, j, i)
  <1>0. /\ S \subseteq DOMAIN Rows /\ n \in Nat \ {0}
        /\ page = SubSeq(Sorted(order, S), 1, Min({n, Cardinality(S)}))
    BY DEF IsFirst
  <1>1. PICK f, m : f = Sorted(order, S) /\ m = Cardinality(S)
    OBVIOUS
  <1>2. /\ m \in Nat /\ f \in [1..m -> S]
        /\ \A i \in S : \E k \in 1..m : f[k] = i
        /\ \A k, l \in 1..m : k < l => Earlier(order, f[k], f[l]) /\ f[k] # f[l]
    BY <1>0, <1>1, SortedRows
  <1>3. PICK h : h = Min({n, m})
    OBVIOUS
  <1>4. h \in Nat /\ h <= m /\ h <= n /\ (h = n \/ h = m)
    <2>1. n \in Int /\ m \in Int
      BY <1>0, <1>2
    <2>2. h \in Int /\ h <= n /\ h <= m /\ h \in {n, m}
      BY ONLY <1>3, <2>1, Least
    <2> QED BY <1>0, <1>2, <2>2
  <1>5. f \in Seq(S) /\ Len(f) = m
    BY <1>2
  <1>6. page = SubSeq(f, 1, h)
    BY <1>0, <1>1, <1>3
  <1>7. page \in [1..h -> S] /\ page \in Seq(S) /\ \A k \in 1..h : page[k] = f[k]
    <2>1. 1 \in 1..Len(f) + 1 /\ h \in (1 - 1)..Len(f)
      BY <1>2, <1>4, <1>5
    <2>2. /\ page \in Seq(S) /\ Len(page) = IF 1 <= h THEN h - 1 + 1 ELSE 0
          /\ \A k \in 1..(h - 1 + 1) : page[k] = f[1 + k - 1]
      BY ONLY <1>5, <1>6, <2>1, SubSeqProperties
    <2>3. Len(page) = h /\ \A k \in 1..h : page[k] = f[k]
      <3>1. h \in Nat /\ h - 1 + 1 = h
        BY ONLY <1>4
      <3>2. Len(page) = h
        BY ONLY <2>2, <3>1
      <3>3. ASSUME NEW k \in 1..h
            PROVE  page[k] = f[k]
        <4>1. 1 + k - 1 = k
          BY ONLY <1>4, k \in 1..h
        <4>2. page[k] = f[1 + k - 1]
          BY ONLY <2>2, <3>1, k \in 1..h
        <4> QED BY ONLY <4>1, <4>2
      <3> QED BY ONLY <3>2, <3>3
    <2>4. \A k \in 1..h : f[k] \in S
      BY ONLY <1>2, <1>4
    <2> QED BY ONLY <2>2, <2>3, <2>4
  <1>d. DOMAIN page = 1..h
    BY <1>7
  <1>8. \A k, l \in 1..h : k < l => Earlier(order, page[k], page[l]) /\ page[k] # page[l]
    BY ONLY <1>2, <1>4, <1>7
  <1>r. Range(page) = {page[k] : k \in 1..h}
    BY <1>d DEF Range
  <1>9. ASSUME NEW i \in S, i \notin Range(page)
        PROVE  Cardinality(Range(page)) = n /\ \A j \in Range(page) : Earlier(order, j, i)
    <2>1. PICK k \in 1..m : f[k] = i
      BY <1>2
    <2>2. k > h
      <3>1. SUFFICES ASSUME k <= h PROVE FALSE
        BY <1>2, <1>4
      <3>2. k \in 1..h
        BY <1>2, <1>4, <3>1
      <3>3. page[k] = i
        BY <1>7, <2>1, <3>2
      <3> QED BY <1>9, <1>r, <3>2, <3>3
    <2>3. h = n
      BY <1>2, <1>4, <2>2
    <2>4. ASSUME NEW j \in Range(page)
          PROVE  Earlier(order, j, i)
      <3>1. PICK l \in 1..h : page[l] = j
        BY <1>r
      <3>2. l \in 1..m /\ l < k /\ f[l] = j
        BY ONLY <1>2, <1>4, <1>7, <2>2, <3>1, l \in 1..h
      <3> QED BY ONLY <1>2, <2>1, <3>2
    <2>5. Cardinality(Range(page)) = h
      <3> DEFINE Q == Range(page)
      <3>1. IsFiniteSet(1..h) /\ Cardinality(1..h) = h
        BY <1>4, Interval
      <3>2. page \in [1..h -> Q] /\ \A j \in Q : \E l \in 1..h : page[l] = j
        BY <1>7, <1>r
      <3>3. \A a, b \in 1..h : page[a] = page[b] => a = b
        <4>1. \A a, b \in 1..h : a < b \/ b < a \/ a = b
          BY ONLY <1>4
        <4>2. \A a, b \in 1..h : a < b => page[a] # page[b]
          BY ONLY <1>8
        <4> QED BY ONLY <4>1, <4>2
      <3> HIDE DEF Q
      <3>4. ExistsBijection(1..h, Q)
        <4>1. PICK D : D = 1..h
          OBVIOUS
        <4>2. /\ page \in [D -> Q] /\ \A j \in Q : \E l \in D : page[l] = j
              /\ \A a, b \in D : page[a] = page[b] => a = b
          BY ONLY <3>2, <3>3, <4>1
        <4>3. ExistsBijection(D, Q)
          BY ONLY <4>2, OneToOne
        <4> QED BY ONLY <4>1, <4>3
      <3> QED BY <3>1, <3>4, FS_Bijection DEF Q
    <2> QED BY <2>3, <2>4, <2>5
  <1> QED BY <1>7, <1>8, <1>9, <1>d

\* A sequence over a set is one over a larger set.
LEMMA MoreRows ==
    ASSUME NEW S, NEW T, S \subseteq T, NEW s \in Seq(S)
    PROVE  s \in Seq(T)
  OBVIOUS

\* What a page of a list holds.
PageTold(req, page, more, x) ==
    /\ x.code = "OK" /\ x.rows = page /\ x.scope = stored
    /\ x.next = (IF more /\ Keeps(req, "next_page_token") THEN Last(page) ELSE 0)
    /\ x.body = [k \in 1..Len(page) |-> Masked(req, Message(Rows[page[k]]))]

LEMMA PageGiven ==
    ASSUME NEW req, NEW page, DOMAIN page = 1..Len(page), NEW more, NEW x, x = ListPage(req, page, more)
    PROVE  PageTold(req, page, more, x)
  <1>1. PICK body, next : /\ body = [k \in DOMAIN page |-> Masked(req, Message(Rows[page[k]]))]
                          /\ next = (IF more /\ Keeps(req, "next_page_token") THEN Last(page) ELSE 0)
    OBVIOUS
  <1>2. x = [NoAnswer EXCEPT !.code = "OK", !.rows = page, !.scope = stored, !.body = body, !.next = next]
    BY <1>1, Zenon DEF ListPage
  <1>3. x.code = "OK" /\ x.rows = page /\ x.scope = stored /\ x.body = body /\ x.next = next
    BY ONLY <1>2 DEF NoAnswer
  <1> QED BY <1>1, <1>3 DEF PageTold

\* A page of a list.
LEMMA ListSound ==
    ASSUME CallSound(call), stored \subseteq DOMAIN Rows, List
    PROVE  GoesOn
  <1> DEFINE req == call.req
             hits == {i \in Matching(req) : req.after = 0 \/ Earlier(req.order, req.after, i)}
             page == SubSeq(Sorted(req.order, hits), 1, Min({PageSize(req), Cardinality(hits)}))
             more == Cardinality(hits) > PageSize(req)
  <1>1. Authorized(call) /\ call.req.kind \in {"results", "records"}
    BY DEF List, At, CallSound
  <1>2. CASE Refused("InvalidArgument")
    BY <1>2, RefusedSound
  <1>3. CASE Refused("Internal")
    BY <1>1, <1>3, RefusedSound
  <1>4. CASE /\ Accepts(req.filter) /\ ValidPage(req) /\ ~Fails(req)
             /\ Answered(ListPage(req, page, more))
    <2>1. hits \subseteq Scope(call.req) /\ hits \subseteq DOMAIN Rows
      BY DEF Matching, Scope
    <2>2. hits = Remaining(call.req, stored) /\ Executed(call.req, stored)
      BY <1>4 DEF Matching, Remaining, Selected, Executed, Fails
    <2>3. page = PageOf(call.req, stored)
      BY <2>2 DEF PageOf
    <2>4. more => page # <<>>
      <3>1. PageSize(req) \in Nat \ {0}
        BY <1>1, <1>4, ApiAssumption DEF ValidPage
      <3>2. Cardinality(hits) \in Nat /\ Sorted(req.order, hits) \in [1..Cardinality(hits) -> hits]
        BY <2>1, SortedRows
      <3> HIDE DEF hits, req
      <3>3. PICK n, m, f : n = PageSize(req) /\ m = Cardinality(hits) /\ f = Sorted(req.order, hits)
        OBVIOUS
      <3>4. n \in Nat \ {0} /\ m \in Nat /\ f \in [1..m -> hits]
        BY <3>1, <3>2, <3>3
      <3>5. ASSUME m > n
            PROVE  SubSeq(f, 1, Min({n, m})) # <<>>
        <4>1. Min({n, m}) = n
          BY <3>4, <3>5 DEF Min
        <4>2. f \in Seq(hits) /\ Len(f) = m
          BY <3>4
        <4>3. Len(SubSeq(f, 1, n)) = n
          BY <3>4, <3>5, <4>2
        <4>4. PICK t : t = SubSeq(f, 1, n)
          OBVIOUS
        <4>5. t # <<>>
          BY ONLY <3>4, <4>3, <4>4
        <4> QED BY <4>1, <4>4, <4>5
      <3> QED BY <3>3, <3>5
    <2>5. page \in Seq(Scope(call.req)) /\ DOMAIN page = 1..Len(page)
      <3>1. PageSize(req) \in Int
        BY SizeOfPage DEF CallSound
      <3> HIDE DEF hits, req
      <3>2. page \in Seq(hits)
        BY <2>1, <3>1, PageOfRows
      <3> HIDE DEF page
      <3> QED BY <2>1, <3>2, MoreRows
    <2> HIDE DEF page, more
    <2>6. PICK x : x = ListPage(call.req, page, more)
      OBVIOUS
    <2>7. /\ x.code = "OK" /\ x.rows = page /\ x.scope = stored
          /\ x.next = (IF more /\ Keeps(call.req, "next_page_token") THEN Last(page) ELSE 0)
          /\ x.body = [k \in 1..Len(page) |-> Masked(call.req, Message(Rows[page[k]]))]
      <3>1. PageTold(call.req, page, more, x)
        BY <2>5, <2>6, PageGiven, Zenon
      <3> QED BY <3>1 DEF PageTold
    <2>8. AnswerExact(call.req, x)
      BY <1>1, <1>4, <2>2, <2>3, <2>4, <2>7 DEF AnswerExact
    <2>9. Answered(x)
      BY <1>4, <2>6
    <2> QED BY <1>1, <2>5, <2>7, <2>8, <2>9, AnsweredSound
  <1>5. ASSUME Quoted(req.filter), NEW any \in SeqOf(TableRows(req), PageSize(req)),
               NEW b \in BOOLEAN, Answered(ListPage(req, any, b))
        PROVE  GoesOn
    <2>1. TableRows(req) \subseteq Scope(req)
      BY <1>1, <1>5 DEF TableRows, Scope, Escapes, Converts
    <2>2. any \in Seq(TableRows(req))
      <3>1. PICK T, n : T = TableRows(req) /\ n = PageSize(req)
        OBVIOUS
      <3>2. PICK m \in 0..n : any \in [1..m -> T]
        BY <1>5, <3>1 DEF SeqOf
      <3>3. m \in Nat
        BY <3>2, <3>1, SizeOfPage DEF CallSound
      <3>4. any \in Seq(T)
        BY ONLY <3>2, <3>3
      <3> QED BY <3>1, <3>4
    <2>3. any \in Seq(Scope(req)) /\ DOMAIN any = 1..Len(any)
      <3> HIDE DEF req
      <3> QED BY <2>1, <2>2, MoreRows
    <2>4. PICK x : x = ListPage(req, any, b)
      OBVIOUS
    <2>5. /\ x.code = "OK" /\ x.rows = any
          /\ x.body = [k \in 1..Len(any) |-> Masked(req, Message(Rows[any[k]]))]
      <3>1. PageTold(req, any, b, x)
        BY <2>3, <2>4, PageGiven, Zenon
      <3> QED BY <3>1 DEF PageTold
    <2>7. Answered(x)
      BY <1>5, <2>4
    <2>6. AnswerExact(call.req, x)
      BY <1>1, <1>5 DEF AnswerExact
    <2> QED BY <1>1, <2>3, <2>5, <2>6, <2>7, AnsweredSound
  <1> HIDE DEF req, page, more
  <1> QED BY <1>2, <1>3, <1>4, <1>5 DEF List, page, more, hits, req

\* A summary.
LEMMA GetRecordListSummarySound ==
    ASSUME CallSound(call), stored \subseteq DOMAIN Rows, GetRecordListSummary
    PROVE  GoesOn
  <1> DEFINE x == [NoAnswer EXCEPT !.code = "OK", !.failed = TRUE]
             y(S) == SummaryAnswer(call.req, S)
  <1>1. Authorized(call) /\ call.req.kind = "summary"
    BY DEF GetRecordListSummary, At, CallSound
  <1>2. CASE Refused("InvalidArgument")
    BY <1>2, RefusedSound
  <1>3. <<>> \in Seq(Scope(call.req))
    OBVIOUS
  <1>4. /\ x.code = "OK" /\ x.rows = <<>> /\ x.failed
        /\ \A S : y(S).code = "OK" /\ y(S).rows = <<>> /\ y(S).scope = stored
                    /\ y(S).summary = Summary(call.req, S)
    <2>1. ASSUME NEW S
          PROVE  y(S).code = "OK" /\ y(S).rows = <<>> /\ y(S).scope = stored
                   /\ y(S).summary = Summary(call.req, S)
      <3>1. PICK sum : sum = Summary(call.req, S)
        OBVIOUS
      <3> QED BY <3>1 DEF NoAnswer, SummaryAnswer
    <2> QED BY <2>1 DEF NoAnswer
  <1> HIDE DEF x, y
  <1>5. CASE Answered(x)
    <2>1. AnswerExact(call.req, x)
      BY <1>1, <1>4 DEF AnswerExact
    <2> QED BY <1>1, <1>3, <1>4, <1>5, <2>1, AnsweredSound
  <1>6. CASE Answered(y(Matching(call.req))) /\ Accepts(call.req.filter) /\ ~Fails(call.req)
    <2>1. Matching(call.req) = Selected(call.req, stored) /\ Executed(call.req, stored)
      BY <1>6 DEF Matching, Selected, Executed, Fails
    <2>2. AnswerExact(call.req, y(Matching(call.req)))
      BY <1>1, <1>4, <2>1 DEF AnswerExact
    <2> QED BY <1>1, <1>3, <1>4, <1>6, <2>2, AnsweredSound
  <1>7. ASSUME Quoted(call.req.filter), NEW S, Answered(y(S))
        PROVE  GoesOn
    <2>1. AnswerExact(call.req, y(S))
      BY <1>1, <1>7 DEF AnswerExact
    <2> QED BY <1>1, <1>3, <1>4, <1>7, <2>1, AnsweredSound
  <1> QED BY <1>2, <1>5, <1>6, <1>7 DEF GetRecordListSummary, x, y

\* A row read by its name.
LEMMA GetRecordSound ==
    ASSUME CallSound(call), stored \subseteq DOMAIN Rows, GetRecord
    PROVE  GoesOn
  <1> DEFINE hits == {i \in stored : /\ Rows[i].table = "records"
                                     /\ <<call.req.parent, call.req.result, call.req.name>>
                                           = <<Rows[i].parent, Rows[i].result, Rows[i].name>>}
             body(i) == IF call.req.kind = "log" THEN <<>>
                        ELSE <<Masked(call.req, Message(Rows[i]))>>
             x(i) == [NoAnswer EXCEPT !.code = "OK", !.rows = <<i>>, !.scope = stored,
                                      !.body = body(i)]
  <1>1. Authorized(call) /\ call.req.kind \in {"get", "log"}
    BY DEF GetRecord, At, CallSound
  <1>2. CASE Refused("Internal")
    BY <1>1, <1>2, RefusedSound
  <1>3. CASE Refused("NotFound")
    BY <1>1, <1>3, RefusedSound
  <1>4. ASSUME NEW i \in hits, Answered(x(i))
        PROVE  GoesOn
    <2>1. i \in Scope(call.req)
      BY <1>1 DEF Scope, InScope, Table
    <2>2. <<i>> \in Seq(Scope(call.req)) /\ Len(<<i>>) = 1
      BY ONLY <2>1
    <2> HIDE DEF hits
    <2>3. x(i).code = "OK" /\ x(i).rows = <<i>> /\ x(i).body = body(i)
      <3> HIDE DEF body
      <3> QED BY DEF NoAnswer
    <2>4. call.req.kind = "get" =>
             x(i).body = [k \in 1..Len(<<i>>) |-> Masked(call.req, Message(Rows[<<i>>[k]]))]
      <3>1. PICK m : m = Masked(call.req, Message(Rows[i]))
        OBVIOUS
      <3>2. <<m>> = [k \in 1..Len(<<i>>) |-> Masked(call.req, Message(Rows[<<i>>[k]]))]
        BY <3>1
      <3> QED BY <2>3, <3>1, <3>2
    <2>5. IsNamed(call.req, i) /\ DOMAIN <<i>> = {1} /\ <<i>>[1] = i
      BY DEF hits, IsNamed
    <2> HIDE DEF x
    <2>6. AnswerExact(call.req, x(i))
      BY <1>1, <2>3, <2>5 DEF AnswerExact
    <2> QED BY <1>1, <1>4, <2>2, <2>3, <2>4, <2>6, AnsweredSound
  <1> HIDE DEF x
  <1> QED BY <1>2, <1>3, <1>4 DEF GetRecord, x, hits, body

\* The batches hold log Records in the scope of the request.
LEMMA BatchOfRows ==
    ASSUME NEW req, IsRequest(req), stored \subseteq DOMAIN Rows, NEW batch \in Batches(req)
    PROVE  batch \in Seq(Scope(req))
  <1> DEFINE S == {i \in stored : /\ InScope(req, Rows[i]) /\ Rows[i].type = LogRecordType
                                  /\ Rows[i].id > call.start}
             n == Min({BatchSize(req), Cardinality(S)})
  <1>1. S \subseteq Scope(req) /\ S \subseteq DOMAIN Rows
    BY DEF Scope
  <1>2. BatchSize(req) \in Int
    BY SizeOfPage DEF BatchSize
  <1> HIDE DEF S
  <1>3. CASE batch = SubSeq(Sorted(req.order, S), 1, n)
    <2>1. batch \in Seq(S)
      BY <1>1, <1>2, <1>3, PageOfRows
    <2> QED BY <1>1, <2>1, MoreRows
  <1>4. CASE batch \in UNION {SetToSeqs(T) : T \in kSubset(n, S)}
    <2>1. PICK T \in kSubset(n, S) : batch \in SetToSeqs(T)
      BY <1>4
    <2>2. T \subseteq S
      BY <2>1 DEF kSubset
    <2>3. batch \in [1..Cardinality(T) -> T]
      BY <2>1 DEF SetToSeqs
    <2>4. Cardinality(T) \in Nat
      <3>1. T \subseteq DOMAIN Rows
        BY <1>1, <2>2
      <3> QED BY <3>1, SortedRows
    <2>5. batch \in Seq(T)
      BY <2>3, <2>4
    <2>6. T \subseteq Scope(req)
      BY <1>1, <2>2
    <2> QED BY <2>5, <2>6, MoreRows
  <1> QED BY <1>3, <1>4 DEF Batches, S

\* What is looked at of a batch is of the batch.
LEMMA LookedAt ==
    ASSUME NEW req, NEW T, NEW batch \in Seq(T)
    PROVE  Looked(req, batch) \in Seq(T)
  <1> DEFINE enough == {n \in DOMAIN batch :
                          Len(call.rec) + Cardinality({m \in Hits(req, batch) : m <= n}) >= BatchSize(req)}
  <1>1. Len(batch) \in Nat /\ enough \subseteq 1..Len(batch)
    OBVIOUS
  <1> HIDE DEF enough
  <1>2. CASE enough # {}
    <2>1. Min(enough) \in 1..Len(batch)
      BY <1>1, <1>2, FirstPosition
    <2>2. Min(enough) \in Int /\ Min(enough) <= Len(batch)
      BY <1>1, <2>1
    <2>3. SubSeq(batch, 1, Min(enough)) \in Seq(T)
      BY <2>2, Beginning
    <2> QED BY <1>2, <2>3 DEF Looked, enough
  <1>3. CASE enough = {}
    BY <1>3 DEF Looked, enough
  <1> QED BY <1>2, <1>3

\* The elements of two sequences.
LEMMA Both ==
    ASSUME NEW T, NEW a \in Seq(T), NEW b \in Seq(T)
    PROVE  /\ a \o b \in Seq(T)
           /\ \A k \in DOMAIN (a \o b) : \/ \E n \in DOMAIN a : (a \o b)[k] = a[n]
                                         \/ \E n \in DOMAIN b : (a \o b)[k] = b[n]
  <1>1. PICK c : c = a \o b
    OBVIOUS
  <1>2. /\ c \in Seq(T) /\ Len(c) = Len(a) + Len(b)
        /\ \A k \in 1..Len(a) + Len(b) : c[k] = IF k <= Len(a) THEN a[k] ELSE b[k - Len(a)]
    BY <1>1, ConcatProperties
  <1>3. Len(a) \in Nat /\ Len(b) \in Nat /\ DOMAIN a = 1..Len(a) /\ DOMAIN b = 1..Len(b)
        /\ DOMAIN c = 1..Len(c)
    BY <1>2
  <1>4. ASSUME NEW k \in DOMAIN c
        PROVE  (\E n \in DOMAIN a : c[k] = a[n]) \/ (\E n \in DOMAIN b : c[k] = b[n])
    <2>1. CASE k <= Len(a)
      BY <1>2, <1>3, <2>1
    <2>2. CASE ~(k <= Len(a))
      <3>1. k - Len(a) \in DOMAIN b /\ c[k] = b[k - Len(a)]
        BY <1>2, <1>3, <2>2
      <3> QED BY <3>1
    <2> QED BY <2>1, <2>2
  <1> QED BY <1>1, <1>2, <1>4

\* A batch of the logs, the last one or not.
LEMMA ListLogsSound ==
    ASSUME CallSound(call), stored \subseteq DOMAIN Rows, ListLogs
    PROVE  GoesOn
  <1> DEFINE req == call.req
             seen(batch) == Looked(req, batch)
             all(batch) == call.rec \o Picked(seen(batch), Hits(req, seen(batch)))
  <1>1. /\ call.phase = "query" /\ Authorized(call) /\ call.req.kind = "logs"
        /\ IsRequest(call.req) /\ call.rec \in Seq(Scope(call.req))
        /\ call.token \in DOMAIN call.req.tokens \cup {1} /\ Matched(call.req, call.rec)
    BY DEF ListLogs, At, CallSound
  <1>2. CASE Refused("InvalidArgument")
    BY <1>2, RefusedSound
  <1>3. CASE Refused("Internal")
    BY <1>1, <1>3, RefusedSound
  <1>4. ASSUME NEW batch \in Batches(req)
        PROVE  all(batch) \in Seq(Scope(call.req)) /\ Matched(req, all(batch))
    <2>1. batch \in Seq(Scope(call.req))
      BY <1>1, BatchOfRows
    <2>2. seen(batch) \in Seq(Scope(call.req))
      BY <2>1, LookedAt
    <2>3. Hits(req, seen(batch)) \subseteq DOMAIN seen(batch)
      BY DEF Hits
    <2> HIDE DEF seen
    <2>4. PICK more : more = Picked(seen(batch), Hits(req, seen(batch)))
      OBVIOUS
    <2>5. /\ more \in Seq(Scope(call.req))
          /\ \A k \in DOMAIN more : \E n \in Hits(req, seen(batch)) : more[k] = seen(batch)[n]
      BY <2>2, <2>3, <2>4, PickedRows
    <2>6. \A k \in DOMAIN more : True(Match(req, more[k]))
      BY <2>5 DEF Hits
    <2>7. \A k \in DOMAIN call.rec : True(Match(req, call.rec[k]))
      BY <1>1 DEF Matched
    <2>8. /\ call.rec \o more \in Seq(Scope(call.req))
          /\ \A k \in DOMAIN (call.rec \o more) : \/ \E n \in DOMAIN call.rec : (call.rec \o more)[k] = call.rec[n]
                                                 \/ \E n \in DOMAIN more : (call.rec \o more)[k] = more[n]
      <3>1. PICK T, rec : T = Scope(call.req) /\ rec = call.rec
        OBVIOUS
      <3>2. rec \in Seq(T) /\ more \in Seq(T)
        BY <1>1, <2>5, <3>1
      <3>3. /\ rec \o more \in Seq(T)
            /\ \A k \in DOMAIN (rec \o more) : \/ \E n \in DOMAIN rec : (rec \o more)[k] = rec[n]
                                             \/ \E n \in DOMAIN more : (rec \o more)[k] = more[n]
        BY ONLY <3>2, Both
      <3> QED BY ONLY <3>1, <3>3, Zenon
    <2>9. Matched(req, call.rec \o more)
      <3>1. PICK both : both = call.rec \o more
        OBVIOUS
      <3>2. \A k \in DOMAIN both : True(Match(req, both[k]))
        BY <2>6, <2>7, <2>8, <3>1
      <3> QED BY <3>1, <3>2 DEF Matched
    <2> QED BY <2>4, <2>8, <2>9
  <1> HIDE DEF all
  <1>5. ASSUME NEW batch \in Batches(req), Answered(LogPage(req, all(batch)))
        PROVE  GoesOn
    <2> DEFINE rec == all(batch)
               page == SubSeq(rec, 1, Min({Len(rec), PageSize(req)}))
               x == LogPage(req, rec)
    <2>1. rec \in Seq(Scope(call.req)) /\ Len(rec) \in Int
      BY <1>4
    <2>2. PageSize(req) \in Int
      BY <1>1, SizeOfPage
    <2> HIDE DEF rec
    <2>3. Min({Len(rec), PageSize(req)}) \in Int /\ Min({Len(rec), PageSize(req)}) <= Len(rec)
      BY ONLY <2>1, <2>2, Least
    <2>4. /\ page \in Seq(Scope(call.req))
          /\ \A k \in DOMAIN page : k \in DOMAIN rec /\ page[k] = rec[k]
      BY <2>1, <2>3, Beginning
    <2>7. Matched(req, page)
      <3>1. Matched(req, rec)
        BY <1>4 DEF rec
      <3> HIDE DEF page
      <3> QED BY <2>4, <3>1 DEF Matched
    <2>5. x.code = "OK" /\ x.rows = page
      <3> HIDE DEF page
      <3> QED BY DEF LogPage, NoAnswer, page
    <2> HIDE DEF x, page
    <2>6. Answered(x)
      BY <1>5 DEF x, rec
    <2>8. AnswerExact(call.req, x)
      BY <1>1, <2>5, <2>7 DEF AnswerExact
    <2> QED BY <1>1, <2>4, <2>5, <2>6, <2>8, AnsweredSound
  <1>6. ASSUME NEW batch \in Batches(req),
               call' = [call EXCEPT !.rec = all(batch), !.start = Rows[Last(batch)].id]
        PROVE  GoesOn
    <2>0. PICK rec, start : rec = all(batch) /\ start = Rows[Last(batch)].id
      OBVIOUS
    <2>1. call' = Edit(call, call.phase, call.token, call.attr, start, rec, call.answer)
      <3>1. call' = [call EXCEPT !.rec = rec, !.start = start]
        BY <1>6, <2>0, Zenon
      <3>2. [call EXCEPT !.rec = rec, !.start = start] =
               Edit(call, call.phase, call.token, call.attr, start, rec, call.answer)
        BY EditedBatch, Zenon
      <3> QED BY <3>1, <3>2, Zenon
    <2>2. /\ call'.phase = "query" /\ call'.from = call.from /\ call'.req = call.req
          /\ call'.token = call.token /\ call'.held = call.held /\ call'.rec = rec
          /\ call' # Idle
          /\ call' = [phase |-> call'.phase, from |-> call'.from, req |-> call'.req,
                      token |-> call'.token, attr |-> call'.attr, held |-> call'.held,
                      start |-> call'.start, rec |-> call'.rec, answer |-> call'.answer]
      BY <1>1, <2>1, Edited
    <2>3. Authorized(call')
      BY <1>1, <2>2, Passed
    <2>4. rec \in Seq(Scope(call.req)) /\ Matched(call.req, rec)
      BY <1>4, <2>0
    <2> QED BY <1>1, <2>2, <2>3, <2>4 DEF CallSound, Phases, GoesOn
  <1> QED BY <1>2, <1>3, <1>5, <1>6 DEF ListLogs, all

----------------------------------------------------------------------------
(* Field masks                                                             *)

\* The paths of fields.
Paths == Seq(Names)

\* A path leads through another one.
LEMMA Prefix ==
    ASSUME NEW p \in Paths, NEW q \in Paths
    PROVE  /\ IsPrefix(p, q) <=> Len(p) <= Len(q) /\ \A i \in 1..Len(p) : p[i] = q[i]
           /\ StartsWith(q, p) <=> IsPrefix(p, q)
           /\ Longer(q, p) <=> IsPrefix(p, q) /\ Len(p) < Len(q)
  <1>1. Len(p) \in Nat /\ Len(q) \in Nat
    BY DEF Paths
  <1>2. SubSeq(p, 1, Len(p)) = [i \in 1..Len(p) |-> p[i]]
    BY <1>1 DEF Paths
  <1>3. SubSeq(q, 1, Len(p)) = [i \in 1..Len(p) |-> q[i]]
    BY <1>1 DEF Paths
  <1>4. IsPrefix(p, q) <=> Len(p) <= Len(q) /\ \A i \in 1..Len(p) : p[i] = q[i]
    BY <1>1, <1>2, <1>3 DEF IsPrefix
  <1>5. IsPrefix(p, q) /\ p # q => Len(p) < Len(q)
    <2>1. ASSUME Len(p) = Len(q), \A i \in 1..Len(p) : p[i] = q[i]
          PROVE  p = q
      BY <2>1, <1>1 DEF Paths
    <2> QED BY <1>1, <1>4, <2>1
  <1>6. Longer(q, p) <=> IsPrefix(p, q) /\ Len(p) < Len(q)
    BY <1>1, <1>5 DEF Longer, IsStrictPrefix
  <1> QED BY <1>4, <1>6 DEF StartsWith

\* To be a prefix is reflexive and transitive.
LEMMA PrefixOrder ==
    ASSUME NEW p \in Paths, NEW q \in Paths, NEW r \in Paths
    PROVE  /\ IsPrefix(p, p)
           /\ IsPrefix(p, q) /\ IsPrefix(q, r) => IsPrefix(p, r)
  <1>1. Len(p) \in Nat /\ Len(q) \in Nat /\ Len(r) \in Nat
    BY DEF Paths
  <1>2. IsPrefix(p, p)
    BY <1>1, Prefix
  <1>3. ASSUME IsPrefix(p, q), IsPrefix(q, r)
        PROVE  IsPrefix(p, r)
    <2>1. Len(p) <= Len(q) /\ \A i \in 1..Len(p) : p[i] = q[i]
      BY <1>3, Prefix
    <2>2. Len(q) <= Len(r) /\ \A i \in 1..Len(q) : q[i] = r[i]
      BY <1>3, Prefix
    <2>3. Len(p) <= Len(r) /\ \A i \in 1..Len(p) : p[i] = r[i]
      BY <1>1, <2>1, <2>2
    <2> QED BY <2>3, Prefix
  <1> QED BY <1>2, <1>3

\* Every path of a mask leads through a leaf of it.
LEMMA Leaves ==
    ASSUME NEW M, M \subseteq Paths
    PROVE  /\ MaskLeaves(M) \subseteq M
           /\ \A m \in M : \E q \in MaskLeaves(M) : IsPrefix(q, m)
  <1>1. MaskLeaves(M) \subseteq M
    BY DEF MaskLeaves, Normalize
  <1>2. ASSUME NEW m \in M
        PROVE  \E q \in MaskLeaves(M) : IsPrefix(q, m)
    <2> DEFINE P == {n \in 1..(Len(m) + 1) : \E q \in M : IsPrefix(q, m) /\ Len(q) = n - 1}
    <2>1. Len(m) + 1 \in Nat /\ P \subseteq 1..(Len(m) + 1)
      BY DEF Paths
    <2>2. P # {}
      <3>1. IsPrefix(m, m) /\ Len(m) + 1 \in 1..(Len(m) + 1) /\ Len(m) = (Len(m) + 1) - 1
        BY <2>1, PrefixOrder DEF Paths
      <3> QED BY <3>1
    <2>3. PICK n : n = Min(P)
      OBVIOUS
    <2>4. n \in P /\ \A k \in P : n <= k
      <3> HIDE DEF P
      <3>1. PICK b \in Nat : b = Len(m) + 1
        BY <2>1
      <3>2. P \subseteq 1..b
        BY <2>1, <3>1
      <3> QED BY <2>2, <2>3, <3>2, FirstPosition
    <2>5. PICK q \in M : IsPrefix(q, m) /\ Len(q) = n - 1
      BY <2>4
    <2>6. ASSUME NEW r \in M, Longer(q, r)
          PROVE  FALSE
      <3>1. IsPrefix(r, q) /\ Len(r) < Len(q)
        BY <2>6, Prefix
      <3>2. IsPrefix(r, m)
        BY <2>5, <3>1, PrefixOrder
      <3>3. Len(r) \in Nat /\ Len(r) + 1 \in 1..(Len(m) + 1) /\ Len(r) = (Len(r) + 1) - 1
        BY <3>2, Prefix DEF Paths
      <3>4. Len(r) + 1 \in P
        BY <3>2, <3>3
      <3>5. n <= Len(r) + 1 /\ n \in Nat /\ Len(q) = n - 1
        BY <2>4, <2>5, <3>4
      <3> QED BY ONLY <3>1, <3>3, <3>5
    <2>7. q \in Normalize(M)
      BY <2>6 DEF Normalize
    <2>8. q \in MaskLeaves(M)
      BY <2>7 DEF MaskLeaves, Normalize
    <2> QED BY <2>5, <2>8
  <1> QED BY <1>1, <1>2

\* What Filter leaves of a message.
LEMMA Filtered ==
    ASSUME NEW M, M \subseteq Paths, M # {}, NEW full, DOMAIN full \subseteq Paths,
           NEW left, left = Filter(M, full)
    PROVE  /\ \A p \in DOMAIN full : (\E m \in M : StartsWith(p, m)) => p \in DOMAIN left /\ left[p] = full[p]
           /\ \A p \in DOMAIN full \cap DOMAIN left :
                 (\E m \in M : StartsWith(p, m)) \/ \E m \in M : Longer(m, p)
           /\ \A p \in DOMAIN left \ DOMAIN full : left[p] = <<"null">> /\ p \in M
  <1> DEFINE leaves == MaskLeaves(M)
             kept == {p \in DOMAIN full :
                        \/ \E m \in leaves : StartsWith(p, m)
                        \/ ~Longer(p, Value) /\ \E m \in leaves : Longer(m, p)}
             nulls == {m \in leaves : Longer(m, Value) /\ ~\E p \in DOMAIN full : StartsWith(p, m)}
  <1>1. left = [p \in kept \cup nulls |-> IF p \in nulls THEN <<"null">> ELSE full[p]]
    BY DEF Filter
  <1>2. leaves \subseteq M /\ \A m \in M : \E q \in leaves : IsPrefix(q, m)
    BY Leaves
  <1>3. \A p \in DOMAIN full : p \notin nulls
    <2>1. \A p \in DOMAIN full : StartsWith(p, p)
      BY Prefix, PrefixOrder
    <2> QED BY <2>1
  <1>4. ASSUME NEW p \in DOMAIN full, NEW m \in M, StartsWith(p, m)
        PROVE  p \in kept
    <2>1. PICK q \in leaves : IsPrefix(q, m)
      BY <1>2
    <2>2. IsPrefix(m, p)
      BY <1>4, Prefix
    <2>3. q \in Paths /\ m \in Paths /\ p \in Paths
      BY <1>2
    <2>4. IsPrefix(q, p)
      BY <2>1, <2>2, <2>3, PrefixOrder
    <2>5. StartsWith(p, q)
      BY <2>3, <2>4, Prefix
    <2> QED BY <2>5
  <1>5. kept \subseteq DOMAIN full /\ nulls \subseteq M
    BY <1>2
  <1>6. \A p \in kept : (\E m \in M : StartsWith(p, m)) \/ \E m \in M : Longer(m, p)
    BY <1>2
  <1> HIDE DEF leaves, kept, nulls
  <1>7. DOMAIN left = kept \cup nulls
    BY <1>1
  <1>8. /\ \A p \in nulls : left[p] = <<"null">>
        /\ \A p \in kept : p \in DOMAIN full => left[p] = full[p]
    BY <1>1, <1>3
  <1> QED BY <1>3, <1>4, <1>5, <1>6, <1>7, <1>8

\* The mask of the elements of a list.
LEMMA Below ==
    ASSUME NEW name, name \in Names, NEW p \in Paths, NEW q \in Paths, q # <<>>
    PROVE  /\ <<name>> \o p \in Paths /\ Tail(q) \in Paths
           /\ StartsWith(<<name>> \o p, q) => Head(q) = name
           /\ Head(q) = name => /\ <<name>> \o Tail(q) = q
                                /\ StartsWith(<<name>> \o p, q) <=> StartsWith(p, Tail(q))
                                /\ Longer(q, <<name>> \o p) <=> Longer(Tail(q), p)
  <1>0. PICK s : s = <<name>>
    OBVIOUS
  <1>a. s \in Seq(Names) /\ Len(s) = 1 /\ s[1] = name
    <2>1. PICK T : T = Names
      OBVIOUS
    <2>2. name \in T
      BY <2>1
    <2>3. <<name>> \in Seq(T) /\ Len(<<name>>) = 1
      BY ONLY <2>2
    <2>4. <<name>>[1] = name
      BY ONLY <2>2
    <2> QED BY <1>0, <2>1, <2>3, <2>4
  <1>b. ASSUME NEW r \in Paths
        PROVE  /\ s \o r \in Paths /\ Len(s \o r) = Len(r) + 1 /\ (s \o r)[1] = name
               /\ \A i \in 1..Len(r) : (s \o r)[i + 1] = r[i]
    <2>1. r \in Seq(Names) /\ Len(r) \in Nat
      BY DEF Paths
    <2>2. /\ s \o r \in Seq(Names) /\ Len(s \o r) = Len(s) + Len(r)
          /\ \A i \in 1..(Len(s) + Len(r)) : (s \o r)[i] = IF i <= Len(s) THEN s[i] ELSE r[i - Len(s)]
      BY ONLY <1>a, <2>1, ConcatProperties
    <2>3. /\ s \o r \in Seq(Names) /\ Len(s \o r) = 1 + Len(r)
          /\ \A i \in 1..(1 + Len(r)) : (s \o r)[i] = IF i <= 1 THEN s[i] ELSE r[i - 1]
      BY ONLY <1>a, <2>2
    <2>4. (s \o r)[1] = name
      <3>1. 1 \in 1..(1 + Len(r)) /\ 1 <= 1
        BY <2>1
      <3> QED BY ONLY <1>a, <2>3, <3>1
    <2>5. ASSUME NEW i \in 1..Len(r)
          PROVE  (s \o r)[i + 1] = r[i]
      <3>1. i + 1 \in 1..(1 + Len(r)) /\ ~(i + 1 <= 1) /\ (i + 1) - 1 = i
        BY <2>1
      <3> QED BY ONLY <2>3, <3>1
    <2>6. Len(s \o r) = Len(r) + 1
      BY <2>1, <2>3
    <2> QED BY <2>3, <2>4, <2>5, <2>6 DEF Paths
  <1>1. PICK np, t : np = s \o p /\ t = Tail(q)
    OBVIOUS
  <1>2. /\ np \in Paths /\ Len(np) = Len(p) + 1 /\ np[1] = name
        /\ \A i \in 1..Len(p) : np[i + 1] = p[i]
    BY <1>1, <1>b
  <1>3. /\ t \in Paths /\ Len(q) = Len(t) + 1 /\ Len(q) \in Nat /\ Len(t) \in Nat /\ Len(p) \in Nat
        /\ \A i \in 1..Len(t) : t[i] = q[i + 1]
        /\ Head(q) = q[1]
    BY <1>1, HeadTailProperties DEF Paths
  <1>4. ASSUME StartsWith(np, q)
        PROVE  Head(q) = name
    <2>1. \A i \in 1..Len(q) : q[i] = np[i]
      BY <1>2, <1>4, Prefix
    <2>2. 1 \in 1..Len(q)
      BY <1>3
    <2> QED BY <1>2, <1>3, <2>1, <2>2
  <1>5. ASSUME Head(q) = name, NEW n \in Nat, n <= Len(p), n <= Len(t)
        PROVE  (\A i \in 1..(n + 1) : np[i] = q[i]) <=> \A i \in 1..n : p[i] = t[i]
    <2>1. ASSUME NEW i \in 1..n
          PROVE  i \in 1..Len(p) /\ i \in 1..Len(t) /\ i + 1 \in 1..(n + 1)
      BY <1>3, <1>5
    <2>2. \A i \in 1..n : p[i] = np[i + 1] /\ t[i] = q[i + 1]
      BY <1>2, <1>3, <2>1
    <2>3. np[1] = q[1]
      BY <1>2, <1>3, <1>5
    <2>4. ASSUME NEW i \in 1..(n + 1)
          PROVE  i = 1 \/ \E k \in 1..n : i = k + 1
      <3>1. i = 1 \/ (i - 1 \in 1..n /\ i = (i - 1) + 1)
        OBVIOUS
      <3> QED BY <3>1
    <2>5. ASSUME \A i \in 1..(n + 1) : np[i] = q[i], NEW i \in 1..n
          PROVE  p[i] = t[i]
      BY <2>1, <2>2, <2>5
    <2>6. ASSUME \A i \in 1..n : p[i] = t[i], NEW i \in 1..(n + 1)
          PROVE  np[i] = q[i]
      BY <2>2, <2>3, <2>4, <2>6
    <2> QED BY <2>5, <2>6
  <1>6. ASSUME Head(q) = name
        PROVE  s \o t = q
    <2>1. PICK u : u = s \o t
      OBVIOUS
    <2>2. u \in Paths /\ Len(u) = Len(t) + 1 /\ u[1] = name /\ \A i \in 1..Len(t) : u[i + 1] = t[i]
      <3>1. t \in Paths
        BY <1>3
      <3> QED BY <2>1, <3>1, <1>b
    <2>3. u \in Seq(Names) /\ q \in Seq(Names) /\ Len(u) = Len(q)
      BY <1>3, <2>2 DEF Paths
    <2>4. ASSUME NEW i \in 1..Len(q)
          PROVE  u[i] = q[i]
      <3>1. i = 1 \/ \E k \in 1..Len(t) : i = k + 1
        <4>1. i = 1 \/ (i - 1 \in 1..Len(t) /\ i = (i - 1) + 1)
          BY <1>3
        <4> QED BY <4>1
      <3> QED BY <1>3, <1>6, <2>2, <3>1
    <2>5. u = q
      BY ONLY <2>3, <2>4
    <2> QED BY <2>1, <2>5
  <1>7. ASSUME Head(q) = name
        PROVE  /\ StartsWith(np, q) <=> StartsWith(p, t)
               /\ Longer(q, np) <=> Longer(t, p)
    <2>1. /\ StartsWith(np, q) <=> Len(q) <= Len(np) /\ \A i \in 1..Len(q) : q[i] = np[i]
          /\ Longer(q, np) <=> Len(np) < Len(q) /\ \A i \in 1..Len(np) : np[i] = q[i]
      <3>1. Len(np) \in Nat
        BY <1>2, <1>3
      <3>2. StartsWith(np, q) <=> Len(q) <= Len(np) /\ \A i \in 1..Len(q) : q[i] = np[i]
        BY <1>2, Prefix
      <3>3. Longer(q, np) <=> IsPrefix(np, q) /\ Len(np) < Len(q)
        BY <1>2, Prefix
      <3>4. IsPrefix(np, q) <=> Len(np) <= Len(q) /\ \A i \in 1..Len(np) : np[i] = q[i]
        BY <1>2, Prefix
      <3> QED BY <1>3, <3>1, <3>2, <3>3, <3>4
    <2>2. /\ StartsWith(p, t) <=> Len(t) <= Len(p) /\ \A i \in 1..Len(t) : t[i] = p[i]
          /\ Longer(t, p) <=> Len(p) < Len(t) /\ \A i \in 1..Len(p) : p[i] = t[i]
      BY <1>3, Prefix
    <2>3. StartsWith(np, q) <=> StartsWith(p, t)
      <3>1. Len(q) <= Len(np) <=> Len(t) <= Len(p)
        BY <1>2, <1>3
      <3>2. Len(t) <= Len(p) =>
              ((\A i \in 1..Len(q) : np[i] = q[i]) <=> \A i \in 1..Len(t) : p[i] = t[i])
        <4>1. PICK n \in Nat : n = Len(t)
          BY <1>3
        <4>2. n <= Len(p) => ((\A i \in 1..(n + 1) : np[i] = q[i]) <=> \A i \in 1..n : p[i] = t[i])
          <5>1. n <= Len(t)
            BY <1>3, <4>1
          <5> QED BY <1>5, <1>7, <4>1, <5>1, Zenon
        <4> QED BY <1>3, <4>1, <4>2
      <3> QED BY <2>1, <2>2, <3>1, <3>2
    <2>4. Longer(q, np) <=> Longer(t, p)
      <3>1. Len(np) < Len(q) <=> Len(p) < Len(t)
        BY <1>2, <1>3
      <3>2. Len(p) < Len(t) =>
              ((\A i \in 1..Len(np) : np[i] = q[i]) <=> \A i \in 1..Len(p) : p[i] = t[i])
        <4>1. PICK n \in Nat : n = Len(p)
          BY <1>3
        <4>2. n <= Len(t) => ((\A i \in 1..(n + 1) : np[i] = q[i]) <=> \A i \in 1..n : p[i] = t[i])
          <5>1. n <= Len(p)
            BY <1>3, <4>1
          <5> QED BY <1>5, <1>7, <4>1, <5>1, Zenon
        <4> QED BY <1>2, <1>3, <4>1, <4>2
      <3> QED BY <2>1, <2>2, <3>1, <3>2
    <2> QED BY <2>3, <2>4
  <1> QED BY <1>0, <1>1, <1>2, <1>3, <1>4, <1>6, <1>7

\* The fields of a message, and the paths of the client's masks.
LEMMA JoinedPaths ==
    ASSUME NEW p \in Paths, NEW q \in Paths
    PROVE  p \o q \in Paths /\ (p # <<>> => p \o q # <<>>)
  <1>1. p \in Seq(Names) /\ q \in Seq(Names) /\ Len(p) \in Nat /\ Len(q) \in Nat
    BY DEF Paths
  <1>2. p \o q \in Seq(Names) /\ Len(p \o q) = Len(p) + Len(q)
    BY ONLY <1>1, ConcatProperties
  <1>3. p # <<>> => Len(p) # 0
    BY <1>1
  <1>4. p \o q = <<>> => Len(p \o q) = 0
    OBVIOUS
  <1> QED BY <1>1, <1>2, <1>3, <1>4 DEF Paths

\* The paths that the definitions name.
LEMMA Literals ==
    /\ Value \in Paths /\ Value # <<>>
    /\ {<<"name">>, <<"uid">>, <<"annotations">>, <<"records">>, <<"metadata">>, <<"status">>,
        <<"next_page_token">>, <<"records", "name">>, <<"records", "uid">>} \subseteq Paths \ {<<>>}
    /\ <<>> \in Paths
  <1>1. ASSUME NEW x \in Names, NEW y \in Names
        PROVE  <<x>> \in Paths \ {<<>>} /\ <<x, y>> \in Paths \ {<<>>}
    BY DEF Paths
  <1>2. {"name", "uid", "annotations", "data", "value", "metadata", "status", "records",
         "next_page_token"} \subseteq Names
    BY ApiAssumption
  <1>3. Value \in Paths \ {<<>>}
    BY <1>1, <1>2, Zenon DEF Value
  <1>4. /\ <<"name">> \in Paths \ {<<>>} /\ <<"uid">> \in Paths \ {<<>>}
        /\ <<"annotations">> \in Paths \ {<<>>} /\ <<"records">> \in Paths \ {<<>>}
        /\ <<"metadata">> \in Paths \ {<<>>} /\ <<"status">> \in Paths \ {<<>>}
        /\ <<"next_page_token">> \in Paths \ {<<>>} /\ <<"records", "name">> \in Paths \ {<<>>}
        /\ <<"records", "uid">> \in Paths \ {<<>>}
    BY <1>1, <1>2, Zenon
  <1>5. <<>> \in Paths
    BY DEF Paths
  <1> QED BY <1>3, <1>4, <1>5, Zenon

\* The fields of a message are paths.
LEMMA MessagePaths ==
    ASSUME NEW i \in DOMAIN Rows
    PROVE  DOMAIN Message(Rows[i]) \subseteq Paths
  <1>1. DOMAIN Rows[i].data \subseteq Paths
    BY ApiAssumption DEF Paths
  <1> DEFINE top == IF Rows[i].table = "records" THEN Value ELSE <<"annotations">>
  <1>2. top \in Paths
    BY Literals
  <1> HIDE DEF top
  <1>3. \A q \in DOMAIN Rows[i].data : top \o q \in Paths
    BY <1>1, <1>2, JoinedPaths
  <1>4. DOMAIN Message(Rows[i]) = {<<"name">>, <<"uid">>} \cup {top \o q : q \in DOMAIN Rows[i].data}
    BY DEF Message, top
  <1> QED BY <1>3, <1>4, Literals

\* The fields that a command asks for are paths, none of them empty.
LEMMA FieldPaths ==
    ASSUME NEW cmd
    PROVE  Fields(cmd) \subseteq Seq(Names) \ {<<>>}
  <1>1. \A f \in {<<"metadata">>, <<"status">>, <<>>} : Under(f) \in Paths \ {<<>>}
    <2>1. <<"records">> \o Value \in Paths \ {<<>>}
      BY Literals, JoinedPaths
    <2>2. PICK v : v = <<"records">> \o Value
      OBVIOUS
    <2>3. v \in Paths /\ v # <<>>
      BY <2>1, <2>2
    <2>4. \A f \in {<<"metadata">>, <<"status">>, <<>>} : v \o f \in Paths \ {<<>>}
      BY <2>3, Literals, JoinedPaths
    <2> QED BY <2>2, <2>4 DEF Under
  <1> QED BY <1>1, Literals DEF Fields, Paths

\* Masked leaves exactly what the paths of the mask lead to or through.
LEMMA MaskedExactly ==
    ASSUME NEW req, IsRequest(req), PartialResponse, req.mask # {}, req.kind \in {"records", "get"},
           NEW full, DOMAIN full \subseteq Paths, NEW left, left = Masked(req, full)
    PROVE  LET path(p) == IF req.kind = "get" THEN p ELSE <<"records">> \o p
           IN /\ \A p \in DOMAIN full :
                   LET covered == \E m \in req.mask : StartsWith(path(p), m)
                   IN /\ covered => p \in DOMAIN left /\ left[p] = full[p]
                      /\ p \in DOMAIN left /\ ~covered => \E m \in req.mask : Longer(m, path(p))
              /\ \A p \in DOMAIN left \ DOMAIN full : left[p] = <<"null">> /\ path(p) \in req.mask
  <1> DEFINE path(p) == IF req.kind = "get" THEN p ELSE <<"records">> \o p
             below == {Tail(p) : p \in {q \in MaskLeaves(req.mask) : Head(q) = "records"}}
  <1>1. PICK M : M = req.mask
    OBVIOUS
  <1>2. M \subseteq Paths /\ M # {} /\ <<>> \notin M
    BY <1>1 DEF IsRequest, Paths
  <1>3. CASE req.kind = "get"
    <2>1. left = Filter(M, full)
      BY <1>1, <1>3 DEF Masked
    <2>2. /\ \A p \in DOMAIN full : (\E m \in M : StartsWith(p, m)) => p \in DOMAIN left /\ left[p] = full[p]
          /\ \A p \in DOMAIN full \cap DOMAIN left :
                (\E m \in M : StartsWith(p, m)) \/ \E m \in M : Longer(m, p)
          /\ \A p \in DOMAIN left \ DOMAIN full : left[p] = <<"null">> /\ p \in M
      BY <1>2, <2>1, Filtered
    <2>3. \A p : path(p) = p
      BY <1>3
    <2> QED BY <1>1, <1>3, <2>2, <2>3
  <1>4. CASE req.kind = "records"
    <2>1. Table(req) = "records" /\ \A p : path(p) = <<"records">> \o p
      BY <1>4 DEF Table
    <2>2. left = IF below = {} THEN <<>> ELSE Filter(below, full)
      BY <1>4, <2>1 DEF Masked
    <2>3. MaskLeaves(M) \subseteq M /\ \A m \in M : \E q \in MaskLeaves(M) : IsPrefix(q, m)
      BY <1>2, Leaves
    <2>4. below \subseteq Paths
      <3>1. \A q \in MaskLeaves(req.mask) : q \in Paths /\ q # <<>>
        BY <1>1, <1>2, <2>3
      <3>2. \A q \in Paths : q # <<>> => Tail(q) \in Paths
        BY HeadTailProperties DEF Paths
      <3> QED BY <3>1, <3>2
    \* A path of the mask that leads to a field of an element has a leaf for it.
    <2>5. ASSUME NEW p \in Paths, NEW m \in M, StartsWith(<<"records">> \o p, m)
          PROVE  \E t \in below : StartsWith(p, t)
      <3>1. PICK q \in MaskLeaves(M) : IsPrefix(q, m)
        BY <2>3
      <3>2. q \in Paths /\ m \in Paths /\ q # <<>> /\ <<"records">> \in Paths
        BY <1>2, <2>3, Literals
      <3>3. PICK e : e = <<"records">> \o p
        OBVIOUS
      <3>4. e \in Paths
        BY <3>2, <3>3, JoinedPaths
      <3>5. StartsWith(e, m)
        BY <2>5, <3>3
      <3>6. StartsWith(e, q)
        BY <3>1, <3>2, <3>4, <3>5, Prefix, PrefixOrder
      <3>7. Head(q) = "records" /\ StartsWith(p, Tail(q))
        <4>1. "records" \in Names
          BY ApiAssumption
        <4>2. StartsWith(<<"records">> \o p, q)
          BY <3>3, <3>6
        <4> QED BY ONLY p \in Paths, <3>2, <4>1, <4>2, Below, Zenon
      <3> QED BY <1>1, <3>1, <3>7
    \* A leaf for a field of an element is a path of the mask.
    <2>6. ASSUME NEW p \in Paths, NEW t \in below
          PROVE  \E m \in M : /\ m = <<"records">> \o t
                              /\ StartsWith(p, t) => StartsWith(<<"records">> \o p, m)
                              /\ Longer(t, p) => Longer(m, <<"records">> \o p)
      <3>1. PICK q \in MaskLeaves(M) : Head(q) = "records" /\ t = Tail(q)
        BY <1>1
      <3>2. q \in Paths /\ q # <<>> /\ q \in M
        BY <1>2, <2>3
      <3>3. /\ <<"records">> \o Tail(q) = q
            /\ StartsWith(<<"records">> \o p, q) <=> StartsWith(p, Tail(q))
            /\ Longer(q, <<"records">> \o p) <=> Longer(Tail(q), p)
        <4>1. "records" \in Names
          BY ApiAssumption
        <4> QED BY ONLY p \in Paths, <3>1, <3>2, <4>1, Below, Zenon
      <3> QED BY <3>1, <3>2, <3>3
    <2> HIDE DEF below, path
    <2>7. CASE below = {}
      <3>1. DOMAIN left = {}
        BY <2>2, <2>7
      <3>2. \A p \in DOMAIN full : ~\E m \in M : StartsWith(<<"records">> \o p, m)
        BY <2>5, <2>7
      <3> QED BY <1>1, <1>4, <3>1, <3>2
    <2>8. CASE below # {}
      <3>1. /\ \A p \in DOMAIN full :
                  (\E t \in below : StartsWith(p, t)) => p \in DOMAIN left /\ left[p] = full[p]
            /\ \A p \in DOMAIN full \cap DOMAIN left :
                  (\E t \in below : StartsWith(p, t)) \/ \E t \in below : Longer(t, p)
            /\ \A p \in DOMAIN left \ DOMAIN full : left[p] = <<"null">> /\ p \in below
        BY <2>2, <2>4, <2>8, Filtered
      <3>2. ASSUME NEW p \in DOMAIN full, NEW m \in M, StartsWith(<<"records">> \o p, m)
            PROVE  p \in DOMAIN left /\ left[p] = full[p]
        BY <2>5, <3>1, <3>2
      <3>3. ASSUME NEW p \in DOMAIN full, p \in DOMAIN left,
                   ~\E m \in M : StartsWith(<<"records">> \o p, m)
            PROVE  \E m \in M : Longer(m, <<"records">> \o p)
        BY <2>6, <3>1, <3>3
      <3>4. ASSUME NEW p \in DOMAIN left \ DOMAIN full
            PROVE  left[p] = <<"null">> /\ <<"records">> \o p \in M
        <4>1. left[p] = <<"null">> /\ p \in below /\ p \in Paths
          BY <2>4, <3>1
        <4>2. PICK m \in M : m = <<"records">> \o p
          BY <2>6, <4>1
        <4> QED BY <4>1, <4>2
      <3> QED BY <1>1, <1>4, <3>2, <3>3, <3>4
    <2> QED BY <2>7, <2>8
  <1> QED BY <1>3, <1>4

----------------------------------------------------------------------------
(* The client                                                              *)

\* A request that arrives is sound.
LEMMA BeginSound ==
    ASSUME NEW req, IsRequest(req), NEW from, Begin(req, from)
    PROVE  /\ CallSound(call') /\ call'.held = granted /\ call'.req = req
           /\ call'.from = from /\ call' # Idle
  <1>1. call' = [phase |-> "check", from |-> from, req |-> req, token |-> 1, attr |-> 1,
                 held |-> granted, start |-> req.after, rec |-> <<>>, answer |-> NoAnswer]
    BY DEF Begin
  <1>2. PICK start, answer : start = req.after /\ answer = NoAnswer
    OBVIOUS
  <1>3. call' = [phase |-> "check", from |-> from, req |-> req, token |-> 1, attr |-> 1,
                 held |-> granted, start |-> start, rec |-> <<>>, answer |-> answer]
    BY <1>1, <1>2
  <1>4. /\ call'.phase = "check" /\ call'.from = from /\ call'.req = req /\ call'.token = 1
        /\ call'.attr = 1 /\ call'.held = granted /\ call'.start = start /\ call'.rec = <<>>
        /\ call'.answer = answer /\ DOMAIN call' # {"phase"}
    BY ONLY <1>3
  <1>5. call' # Idle
    BY <1>4 DEF Idle
  <1>6. Matched(req, <<>>)
    BY DEF Matched
  <1> QED BY <1>3, <1>4, <1>5, <1>6 DEF CallSound, Phases

RequestPhases == {"page", "get", "find", "log"}

CliFields == {"phase", "cmd", "ns", "conf", "ext", "host", "token", "found", "scope", "pages",
              "title", "log", "outcome"}

\* A command that waits for an answer has sent the request, to the API server;
\* what it has found is a row.
CliSound ==
    /\ \/ cli = NoCli
       \/ DOMAIN cli = CliFields /\ cli.phase # "idle" /\ cli.cmd.limit \in Int
    /\ cli.phase \in RequestPhases <=> call # Idle /\ call.from = "cli"
    /\ cli.phase \in RequestPhases => cli.host = ApiHost
    /\ cli.phase = "get" => call.req.kind = "get"
    /\ cli.phase = "found" => cli.found \in DOMAIN Rows

\* The file has what was configured, by the names of the configurations.
ConfigName(k) == <<"tekton-results-config", k[1], k[2]>>

HasConfigured(f) ==
    \A k \in DOMAIN configured :
        /\ ConfigName(k) \in DOMAIN f.contexts
        /\ f.contexts[ConfigName(k)].ext = configured[k]

\* The file, and what a command has loaded of it.
FileSound ==
    /\ IsFile(file) /\ HasConfigured(file)
    /\ \A k \in DOMAIN configured : k = <<k[1], k[2]>>
    /\ cli.phase \in {"prompt", "persist"} =>
          IsFile(cli.conf) /\ HasConfigured(cli.conf)

ApiSound ==
    /\ stored \subseteq DOMAIN Rows
    /\ granted \subseteq Granted \cup Changing
    /\ CallsSound

Inv == ApiSound /\ CliSound /\ FileSound

\* The tokens sent are those that there are.
LEMMA SentTokens ==
    ASSUME NEW t
    PROVE  t = <<>> \/ (\E x : t = <<x>>) => t \in Seq(Range(t))
  <1>1. CASE t = <<>>
    BY <1>1
  <1>2. ASSUME NEW x, t = <<x>>
        PROVE  t \in Seq(Range(t))
    <2>1. x \in Range(<<x>>)
      BY DEF Range
    <2>2. PICK R : R = Range(<<x>>)
      OBVIOUS
    <2>3. <<x>> \in Seq(R)
      BY ONLY <2>1, <2>2
    <2> QED BY <1>2, <2>2, <2>3
  <1> QED BY <1>1, <1>2

\* The requests of a command.
LEMMA Requested ==
    ASSUME NEW kind, NEW parent, NEW result, NEW q, q.tokens = Request(kind, parent, result).tokens,
           q.imp = Request(kind, parent, result).imp, q.size \in Int,
           q.mask = {} \/ q.mask = Fields(cli.cmd)
    PROVE  IsRequest(q)
  <1>1. q.tokens = <<>> \/ q.tokens = <<cli.token>>
    BY DEF Request
  <1>2. q.tokens \in Seq(Range(q.tokens))
    BY <1>1, SentTokens
  <1>3. q.imp.groups = {} /\ q.imp.extra = {}
    <2>1. q.imp = NoImpersonation
      BY DEF Request
    <2>2. NoImpersonation.groups = {} /\ NoImpersonation.extra = {}
      BY ONLY DEF NoImpersonation
    <2> QED BY ONLY <2>1, <2>2
  <1>4. q.mask \subseteq Seq(Names) \ {<<>>}
    BY FieldPaths
  <1> QED BY <1>2, <1>3, <1>4, FS_EmptySet DEF IsRequest

\* The list that a command sends is a request.
LEMMA ListedRequest ==
    ASSUME NEW filter, NEW size \in Int, NEW after
    PROVE  IsRequest(ListRequest(filter, size, after))
  <1>1. PICK parent : parent = IF cli.cmd.all THEN All ELSE cli.ns
    OBVIOUS
  <1>2. PICK q : q = ListRequest(filter, size, after)
    OBVIOUS
  <1>3. /\ q.tokens = Request("records", parent, All).tokens
        /\ q.imp = Request("records", parent, All).imp /\ q.size = size
        /\ q.mask = Fields(cli.cmd)
    BY <1>1, <1>2 DEF ListRequest, Request
  <1>4. q.size \in Int
    BY <1>3
  <1>5. IsRequest(q)
    BY <1>3, <1>4, Requested
  <1> QED BY <1>2, <1>5

\* No request is served in the idle phase.
LEMMA IdleCall ==
    ASSUME CallsSound
    PROVE  At("idle") <=> call = Idle
  BY DEF CallsSound, CallSound, Phases, At, Idle

\* The fields of a command under way.
LEMMA Active ==
    ASSUME CliSound, cli.phase # "idle"
    PROVE  DOMAIN cli = CliFields /\ cli.cmd.limit \in Int
  BY DEF CliSound, NoCli

\* A step of a command without a request.
LEMMA CliMoves ==
    ASSUME CliSound, cli.phase # "idle", DOMAIN cli' = CliFields, cli'.cmd = cli.cmd,
           cli'.phase \notin RequestPhases \cup {"found", "idle"},
           call' = Idle \/ (call' = call /\ cli.phase \notin RequestPhases)
    PROVE  CliSound'
  <1>1. cli.cmd.limit \in Int
    BY Active
  <1>2. ~(call' # Idle /\ call'.from = "cli")
    BY DEF CliSound
  <1> QED BY <1>1, <1>2 DEF CliSound, Idle, RequestPhases

\* A command that ends keeps its fields.
LEMMA CliEnds ==
    ASSUME CliSound, cli.phase # "idle", NEW outcome, Ended(outcome)
    PROVE  DOMAIN cli' = CliFields /\ cli'.cmd = cli.cmd /\ cli'.phase = "done"
  <1>1. DOMAIN cli = CliFields
    BY Active
  <1> QED BY <1>1 DEF Ended, CliFields

\* The API server is idle or goes on as before.
LEMMA ApiRests ==
    ASSUME ApiSound, UNCHANGED <<stored, granted>>, call' = call \/ call' = Idle
    PROVE  ApiSound'
  <1>1. CASE call' = call
    BY <1>1, ZenonT(60) DEF ApiSound, CallsSound, CallSound, AnswerSound, Authorized, Authenticated, Impersonates,
                Vouched, Caller, Idle
  <1>2. CASE call' = Idle
    BY <1>2 DEF ApiSound, CallsSound, Idle
  <1> QED BY <1>1, <1>2

\* The file stays as it is.
LEMMA FileStays ==
    ASSUME FileSound, UNCHANGED <<file, configured>>,
           cli'.phase \in {"prompt", "persist"} =>
              \/ cli'.conf = file
              \/ cli.phase \in {"prompt", "persist"} /\ cli'.conf = cli.conf
    PROVE  FileSound'
  BY DEF FileSound, IsFile, IsContext, ConfigContexts, HasConfigured, ConfigName

\* A step of a command that sends nothing, or has its answer, and loads nothing.
LEMMA CommandGoesOn ==
    ASSUME Inv, cli.phase # "idle", DOMAIN cli' = CliFields, cli'.cmd = cli.cmd,
           cli'.phase \notin RequestPhases \cup {"found", "idle", "prompt", "persist"},
           call' = Idle \/ (call' = call /\ cli.phase \notin RequestPhases),
           UNCHANGED <<stored, granted, file, configured>>
    PROVE  Inv'
  BY CliMoves, ApiRests, FileStays DEF Inv

\* The end of a command preserves the invariant.
LEMMA CommandEnds ==
    ASSUME Inv, cli.phase # "idle", NEW outcome, Ended(outcome),
           call' = Idle \/ (call' = call /\ cli.phase \notin RequestPhases),
           UNCHANGED <<stored, granted, file, configured>>
    PROVE  Inv'
  <1>1. DOMAIN cli' = CliFields /\ cli'.cmd = cli.cmd /\ cli'.phase = "done"
    BY CliEnds DEF Inv
  <1> QED BY <1>1, CommandGoesOn DEF RequestPhases

\* A command sends a request, or fails for the address.
LEMMA Sends ==
    ASSUME Inv, cli.phase # "idle", NEW req, IsRequest(req), NEW p \in RequestPhases, Send(req, p),
           p = "get" => req.kind = "get",
           UNCHANGED <<stored, granted, file, configured>>
    PROVE  Inv'
  <1>1. CASE cli.host = ApiHost
    <2>1. Begin(req, "cli") /\ cli' = [cli EXCEPT !.phase = p]
      BY <1>1 DEF Send
    <2>2. /\ CallSound(call') /\ call'.held = granted /\ call'.req = req
          /\ call'.from = "cli" /\ call' # Idle
      BY <2>1, BeginSound
    <2>3. ApiSound'
      BY <2>2 DEF Inv, ApiSound, CallsSound
    <2>4. DOMAIN cli = CliFields /\ cli.cmd.limit \in Int
      BY Active DEF Inv
    <2>5. DOMAIN cli' = CliFields /\ cli'.cmd = cli.cmd /\ cli'.phase = p /\ cli'.host = cli.host
      BY <2>1, <2>4 DEF CliFields
    <2>6. p \notin {"idle", "found", "prompt", "persist"}
      BY DEF RequestPhases
    <2>7. call'.req.kind = req.kind
      BY <2>2
    <2>8. CliSound'
      BY <1>1, <2>2, <2>4, <2>5, <2>6, <2>7 DEF CliSound, Idle
    <2>9. FileSound'
      BY <2>5, <2>6, FileStays DEF Inv
    <2> QED BY <2>3, <2>8, <2>9 DEF Inv
  <1>2. CASE cli.host # ApiHost
    <2>1. Ended("failed") /\ call' = call
      BY <1>2 DEF Send, Fail
    <2>2. cli.phase \notin RequestPhases
      BY <1>2 DEF Inv, CliSound
    <2> QED BY <2>1, <2>2, CommandEnds
  <1> QED BY <1>1, <1>2

\* The steps of a command preserve the invariant: it is started,
LEMMA RunSound ==
    ASSUME Inv, Run
    PROVE  Inv'
  <1>1. PICK k \in DOMAIN Commands, p \in {"done", "params"} :
           cli' = [phase |-> p, cmd |-> Commands[k], ns |-> <<>>, conf |-> Kubeconfig,
                   ext |-> EmptyExtension, host |-> "", token |-> "", found |-> 0, scope |-> {},
                   pages |-> <<>>, title |-> <<>>, log |-> 0, outcome |-> "failed"]
    BY DEF Run
  <1>2. DOMAIN cli' = CliFields /\ cli'.phase = p /\ cli'.cmd = Commands[k]
    BY <1>1 DEF CliFields
  <1>3. Commands[k].limit \in Int
    BY ClientAssumption
  <1>4. call = Idle /\ call' = call
    BY IdleCall DEF Run, Inv, ApiSound, apiVars
  <1>5. CliSound'
    BY <1>2, <1>3, <1>4 DEF CliSound, RequestPhases
  <1>6. ApiSound'
    BY ApiRests DEF Run, apiVars, Inv
  <1>7. FileSound'
    BY <1>2, FileStays DEF Run, Inv
  <1> QED BY <1>5, <1>6, <1>7 DEF Inv

\* goes to the configuration or to the client,
LEMMA InitParamsSound ==
    ASSUME Inv, InitParams
    PROVE  Inv'
  <1>1. DOMAIN cli = CliFields
    BY Active DEF Inv, InitParams, Doing
  <1>2. DOMAIN cli' = CliFields /\ cli'.cmd = cli.cmd /\ cli'.phase \in {"config", "client"}
    BY <1>1 DEF InitParams, CliFields
  <1> QED BY <1>2, CommandGoesOn DEF InitParams, Doing, apiVars, RequestPhases

LEMMA LoadedSound ==
    ASSUME Inv, Doing("config"), NEW p \in {"done", "prompt", "persist"}, NEW ext, Loaded(p, ext)
    PROVE  Inv'
  <1>1. CASE Loads(file, cli.cmd)
    <2>1. cli' = [cli EXCEPT !.phase = p, !.conf = file, !.ext = ext, !.outcome = "ok"]
      BY <1>1 DEF Loaded
    <2>2. DOMAIN cli = CliFields
      BY Active DEF Inv, Doing
    <2>3. DOMAIN cli' = CliFields /\ cli'.cmd = cli.cmd /\ cli'.phase = p /\ cli'.conf = file
      BY <2>1, <2>2 DEF CliFields
    <2>4. CliSound'
      BY <2>3, CliMoves DEF Inv, Doing, RequestPhases, Loaded, apiVars
    <2>5. ApiSound'
      BY ApiRests DEF Inv, Loaded, apiVars
    <2>6. FileSound'
      BY <2>3, FileStays DEF Inv, Loaded
    <2> QED BY <2>4, <2>5, <2>6 DEF Inv
  <1>2. CASE ~Loads(file, cli.cmd)
    BY <1>2, CommandEnds, SMTT(30) DEF Loaded, Fail, Doing, RequestPhases, apiVars
  <1> QED BY <1>1, <1>2

LEMMA PromptSound ==
    ASSUME Inv, Prompt
    PROVE  Inv'
  <1>1. CASE Fail
    BY <1>1, CommandEnds DEF Prompt, Fail, Doing, RequestPhases, apiVars
  <1>2. CASE \E ext : cli' = [cli EXCEPT !.phase = "persist", !.ext = ext]
    <2>1. PICK ext : cli' = [cli EXCEPT !.phase = "persist", !.ext = ext]
      BY <1>2, Zenon
    <2>2. DOMAIN cli = CliFields
      BY Active DEF Inv, Doing, Prompt
    <2>3. /\ DOMAIN cli' = CliFields /\ cli'.cmd = cli.cmd /\ cli'.phase = "persist"
          /\ cli'.conf = cli.conf
      BY <2>1, <2>2, SMTT(30) DEF CliFields
    <2>4. CliSound'
      BY <2>3, CliMoves, Zenon DEF Inv, Prompt, Doing, RequestPhases, apiVars
    <2>5. ApiSound'
      BY ApiRests, Zenon DEF Inv, Prompt, apiVars
    <2>6. FileSound'
      BY <2>3, FileStays DEF Inv, Prompt, Doing
    <2> QED BY <2>4, <2>5, <2>6 DEF Inv
  <1> QED BY <1>1, <1>2, Zenon DEF Prompt

LEMMA InitClientSound ==
    ASSUME Inv, InitClient
    PROVE  Inv'
  <1>1. CASE Fail
    BY <1>1, CommandEnds DEF InitClient, Fail, Doing, RequestPhases, apiVars
  <1>2. ASSUME NEW config,
               cli' = [cli EXCEPT !.phase = "prerun", !.host = config.host, !.token = config.token]
        PROVE  Inv'
    <2>1. DOMAIN cli = CliFields
      BY Active DEF Inv, Doing, InitClient
    <2>2. DOMAIN cli' = CliFields /\ cli'.cmd = cli.cmd /\ cli'.phase = "prerun"
      BY <1>2, <2>1 DEF CliFields
    <2> QED BY <2>2, CommandGoesOn DEF InitClient, Doing, RequestPhases, apiVars
  <1> QED BY <1>1, <1>2 DEF InitClient

LEMMA PreRunSound ==
    ASSUME Inv, ListRuns \/ GetByUID \/ FindByName
    PROVE  Inv'
  <1>1. /\ cli.phase = "prerun" /\ cli.phase \notin RequestPhases /\ cli.phase # "idle"
        /\ UNCHANGED <<stored, granted, file, configured>>
    BY DEF ListRuns, GetByUID, FindByName, PreRun, Doing, RequestPhases
  <1>2. cli.cmd.limit \in Int
    BY <1>1, Active DEF Inv
  <1>3. CASE Fail /\ UNCHANGED call
    BY <1>1, <1>3, CommandEnds DEF Fail
  <1>4. CASE Send(ListRequest(BuildFilter(cli.cmd), cli.cmd.limit, 0), "page")
    <2>1. IsRequest(ListRequest(BuildFilter(cli.cmd), cli.cmd.limit, 0))
      BY <1>2, ListedRequest
    <2> QED BY <1>1, <1>4, <2>1, Sends DEF RequestPhases
  <1>5. CASE Send([Request("get", cli.ns, cli.cmd.uid) EXCEPT !.name = cli.cmd.uid], "get")
    <2>1. PICK q : q = [Request("get", cli.ns, cli.cmd.uid) EXCEPT !.name = cli.cmd.uid]
      OBVIOUS
    <2>2. IsRequest(q) /\ q.kind = "get"
      <3>1. /\ q.tokens = Request("get", cli.ns, cli.cmd.uid).tokens
            /\ q.imp = Request("get", cli.ns, cli.cmd.uid).imp /\ q.size = 0 /\ q.kind = "get"
            /\ q.mask = {}
        BY <2>1 DEF Request
      <3> QED BY <3>1, Requested
    <2> QED BY <1>1, <1>5, <2>1, <2>2, Sends DEF RequestPhases
  <1>6. CASE Send(ListRequest(BuildFilter(cli.cmd), FindPage, 0), "find")
    <2>1. IsRequest(ListRequest(BuildFilter(cli.cmd), FindPage, 0))
      BY ClientAssumption, ListedRequest
    <2> QED BY <1>1, <1>6, <2>1, Sends DEF RequestPhases
  <1> QED BY <1>3, <1>4, <1>5, <1>6 DEF ListRuns, GetByUID, FindByName, PreRun

\* The rows of an answer are stored in the table.
LEMMA AnswerRows ==
    ASSUME Inv, At("answered")
    PROVE  /\ CallSound(call)
           /\ call.answer.rows \in Seq(DOMAIN Rows)
           /\ call.answer.code = "OK" /\ call.req.kind \in {"get", "log"} => Len(call.answer.rows) = 1
  <1>1. CallSound(call) /\ AnswerSound(call)
    BY DEF Inv, ApiSound, CallsSound, CallSound, At, Idle
  <1>2. Scope(call.req) \subseteq DOMAIN Rows
    BY DEF Scope
  <1>3. call.answer.rows \in Seq(Scope(call.req))
    BY <1>1 DEF AnswerSound
  <1>4. call.answer.rows \in Seq(DOMAIN Rows)
    BY <1>2, <1>3, MoreRows
  <1> QED BY <1>1, <1>4 DEF AnswerSound

\* The command has found its run.
LEMMA FoundSound ==
    ASSUME Inv, cli.phase # "idle", UNCHANGED <<stored, granted, file, configured>>, call' = Idle,
           DOMAIN cli' = CliFields, cli'.cmd = cli.cmd, cli'.phase = "found",
           cli'.found \in DOMAIN Rows
    PROVE  Inv'
  <1>1. cli.cmd.limit \in Int
    BY Active DEF Inv
  <1>2. CliSound'
    BY <1>1 DEF CliSound, RequestPhases
  <1> QED BY <1>2, ApiRests, FileStays DEF Inv

LEMMA ResponseSound ==
    ASSUME Inv, ShowPage \/ GotRecord \/ Found \/ CopyLog
    PROVE  Inv'
  <1>1. /\ At("answered") /\ cli.phase # "idle" /\ UNCHANGED <<stored, granted, file, configured>>
    BY DEF ShowPage, GotRecord, Found, CopyLog, Response, Doing
  <1>2. DOMAIN cli = CliFields
    BY <1>1, Active DEF Inv
  <1>3. CASE ShowPage
    <2>1. call' = Idle
      BY <1>3 DEF ShowPage
    <2>2. CASE Answer.code # "OK"
      BY <1>1, <1>3, <2>1, <2>2, CommandEnds DEF ShowPage, Fail
    <2>3. CASE Answer.code = "OK"
      <3>1. DOMAIN cli' = CliFields /\ cli'.cmd = cli.cmd /\ cli'.phase \in {"done", "more"}
        BY <1>2, <1>3, <2>3 DEF ShowPage, CliFields
      <3> QED BY <1>1, <2>1, <3>1, CommandGoesOn DEF RequestPhases
    <2> QED BY <2>2, <2>3
  <1>4. CASE GotRecord
    <2>1. CASE Answer.code = "OK"
      <3>1. call.req.kind = "get"
        BY <1>4 DEF GotRecord, Response, Doing, Inv, CliSound
      <3>2. call.answer.rows[1] \in DOMAIN Rows
        BY <1>1, <2>1, <3>1, AnswerRows DEF Answer
      <3>3. /\ DOMAIN cli' = CliFields /\ cli'.cmd = cli.cmd /\ cli'.phase = "found"
            /\ cli'.found = call.answer.rows[1] /\ call' = Idle
        BY <1>2, <1>4, <2>1 DEF GotRecord, CliFields, Answer
      <3> QED BY <1>1, <3>2, <3>3, FoundSound
    <2>2. CASE Answer.code # "OK"
      <3>1. Send(ListRequest(UIDFilter(cli.cmd), FindPage, 0), "find")
        BY <1>4, <2>2 DEF GotRecord
      <3>2. IsRequest(ListRequest(UIDFilter(cli.cmd), FindPage, 0))
        BY ClientAssumption, ListedRequest
      <3> QED BY <1>1, <3>1, <3>2, Sends DEF RequestPhases
    <2> QED BY <2>1, <2>2
  <1>5. CASE Found
    <2>1. call' = Idle
      BY <1>5 DEF Found
    <2>2. CASE Answer.code = "OK" /\ Answer.rows # <<>>
      <3>1. call.answer.rows[1] \in DOMAIN Rows
        BY <1>1, <2>2, AnswerRows DEF Answer
      <3>2. /\ DOMAIN cli' = CliFields /\ cli'.cmd = cli.cmd /\ cli'.phase = "found"
            /\ cli'.found = call.answer.rows[1]
        BY <1>2, <1>5, <2>2 DEF Found, CliFields, Answer
      <3> QED BY <1>1, <2>1, <3>1, <3>2, FoundSound
    <2>3. CASE ~(Answer.code = "OK" /\ Answer.rows # <<>>)
      <3>1. DOMAIN cli' = CliFields /\ cli'.cmd = cli.cmd /\ cli'.phase = "done"
        BY <1>2, <1>5, <2>3 DEF Found, CliFields
      <3> QED BY <1>1, <2>1, <3>1, CommandGoesOn DEF RequestPhases
    <2> QED BY <2>2, <2>3
  <1>6. CASE CopyLog
    <2>1. DOMAIN cli' = CliFields /\ cli'.cmd = cli.cmd /\ cli'.phase = "done" /\ call' = Idle
      BY <1>2, <1>6 DEF CopyLog, CliFields
    <2> QED BY <1>1, <2>1, CommandGoesOn DEF RequestPhases
  <1> QED BY <1>3, <1>4, <1>5, <1>6

LEMMA MoreSound ==
    ASSUME Inv, More
    PROVE  Inv'
  <1>1. /\ cli.phase \notin RequestPhases /\ cli.phase # "idle"
        /\ UNCHANGED <<stored, granted, file, configured>>
    BY DEF More, Doing, RequestPhases
  <1>2. CASE Ended("ok") /\ UNCHANGED call
    BY <1>1, <1>2, CommandEnds
  <1>3. CASE Send(ListRequest(BuildFilter(cli.cmd), cli.cmd.limit, cli.found), "page")
    <2>1. IsRequest(ListRequest(BuildFilter(cli.cmd), cli.cmd.limit, cli.found))
      BY <1>1, Active, ListedRequest DEF Inv
    <2> QED BY <1>1, <1>3, <2>1, Sends DEF RequestPhases
  <1> QED BY <1>2, <1>3 DEF More

LEMMA ShowSound ==
    ASSUME Inv, Show
    PROVE  Inv'
  <1>1. /\ cli.phase \notin RequestPhases /\ cli.phase # "idle"
        /\ UNCHANGED <<stored, granted, file, configured>>
    BY DEF Show, Doing, RequestPhases
  <1>2. ASSUME NEW outcome, Ended(outcome), UNCHANGED call
        PROVE  Inv'
    BY <1>1, <1>2, CommandEnds
  <1>3. CASE Send(LogRequest(Rows[cli.found]), "log")
    <2>1. PICK q : q = LogRequest(Rows[cli.found])
      OBVIOUS
    <2>2. IsRequest(q)
      <3>1. PICK kind, parent, result :
               /\ q.tokens = Request(kind, parent, result).tokens
               /\ q.imp = Request(kind, parent, result).imp /\ q.size = 0 /\ q.mask = {}
        BY <2>1 DEF LogRequest, Request
      <3> QED BY <3>1, Requested
    <2> QED BY <1>1, <1>3, <2>1, <2>2, Sends DEF RequestPhases
  <1> QED BY <1>2, <1>3 DEF Show

LEMMA ExitSound ==
    ASSUME Inv, Exit
    PROVE  Inv'
  <1>1. cli'.phase = "idle" /\ cli' = NoCli
    BY DEF Exit, NoCli
  <1>2. cli.phase \notin RequestPhases /\ call' = call
    BY DEF Exit, Doing, RequestPhases, apiVars
  <1>3. CliSound'
    BY <1>1, <1>2 DEF Inv, CliSound, RequestPhases
  <1>4. ApiSound'
    BY ApiRests DEF Inv, Exit, apiVars
  <1>5. FileSound'
    BY <1>1, FileStays DEF Inv, Exit
  <1> QED BY <1>3, <1>4, <1>5 DEF Inv

\* A context added to a file, or replaced in it.
LEMMA ContextAdded ==
    ASSUME NEW f, IsFile(f), NEW n, NEW c, IsContext(c), NEW g, DOMAIN g = {"current", "contexts"},
           g.contexts = With(f.contexts, n, c), g.current \in {f.current, n},
           g.current = n => Head(n) # "tekton-results-config"
    PROVE  /\ IsFile(g) /\ DOMAIN g.contexts = DOMAIN f.contexts \cup {n} /\ g.contexts[n] = c
           /\ \A m \in DOMAIN f.contexts : m # n => g.contexts[m] = f.contexts[m]
  <1>1. /\ DOMAIN g.contexts = DOMAIN f.contexts \cup {n} /\ g.contexts[n] = c
        /\ \A m \in DOMAIN f.contexts : m # n => g.contexts[m] = f.contexts[m]
    BY DEF With
  <1>2. \A m \in DOMAIN g.contexts : IsContext(g.contexts[m])
    BY <1>1 DEF IsFile
  <1>3. g.current \in DOMAIN g.contexts \ ConfigContexts(g)
    BY <1>1 DEF IsFile, ConfigContexts
  <1> QED BY <1>1, <1>2, <1>3 DEF IsFile

LEMMA PersistSound ==
    ASSUME Inv, Persist
    PROVE  Inv'
  <1> DEFINE f == cli.conf
             context == Context(cli.conf, cli.cmd)
             name == BuildConfigContext(context)
             old == IF name \in DOMAIN f.contexts THEN f.contexts[name]
                    ELSE [cluster |-> context.cluster, user |-> <<UserName(context)>>,
                          ns |-> "default", ext |-> cli.ext]
             new == [old EXCEPT !.ext = cli.ext]
             key == <<context.cluster, UserName(context)>>
  <1>1. /\ cli.phase = "persist" /\ cli.phase \notin RequestPhases /\ cli.phase # "idle"
        /\ UNCHANGED <<stored, granted, call>>
    BY DEF Persist, Doing, RequestPhases, apiVars
  <1>2. CASE Fail /\ UNCHANGED <<file, configured>>
    BY <1>1, <1>2, CommandEnds DEF Fail
  <1>3. CASE /\ file' = Persisted(f, context, cli.ext)
             /\ configured' = With(configured, key, cli.ext)
             /\ Ended("ok")
    <2>1. IsFile(f) /\ HasConfigured(f) /\ \A k \in DOMAIN configured : k = <<k[1], k[2]>>
      BY <1>1 DEF Inv, FileSound
    <2>2. IsContext(new) /\ new.ext = cli.ext
      <3>1. IsContext(old)
        BY <2>1 DEF IsFile, IsContext
      <3> HIDE DEF old
      <3> QED BY <3>1 DEF IsContext
    <2>3. ConfigName(key) = name
      BY DEF ConfigName, BuildConfigContext
    <2>4. file' = [f EXCEPT !.contexts = With(@, name, new)]
      BY <1>3 DEF Persisted
    <2> HIDE DEF f, new, name, key
    <2>5. /\ DOMAIN f = {"current", "contexts"} /\ DOMAIN file' = {"current", "contexts"}
          /\ file'.contexts = With(f.contexts, name, new) /\ file'.current = f.current
      BY <2>1, <2>4 DEF IsFile
    <2>6. /\ IsFile(file') /\ DOMAIN file'.contexts = DOMAIN f.contexts \cup {name}
          /\ file'.contexts[name] = new
          /\ \A m \in DOMAIN f.contexts : m # name => file'.contexts[m] = f.contexts[m]
      <3>1. PICK e, g, n, c : e = f /\ g = file' /\ n = name /\ c = new
        OBVIOUS
      <3>2. /\ IsFile(e) /\ IsContext(c) /\ DOMAIN g = {"current", "contexts"}
            /\ g.contexts = With(e.contexts, n, c) /\ g.current \in {e.current, n}
        BY <2>1, <2>2, <2>5, <3>1
      <3>3. g.current # n
        <4>1. Head(n) = "tekton-results-config"
          BY <3>1 DEF name, BuildConfigContext
        <4>2. e.current \in DOMAIN e.contexts /\ Head(e.current) # "tekton-results-config"
          BY <3>2 DEF IsFile, ConfigContexts
        <4>3. g.current = e.current
          BY <2>5, <3>1
        <4> QED BY <4>1, <4>2, <4>3
      <3>4. /\ IsFile(g) /\ DOMAIN g.contexts = DOMAIN e.contexts \cup {n} /\ g.contexts[n] = c
            /\ \A m \in DOMAIN e.contexts : m # n => g.contexts[m] = e.contexts[m]
        BY ONLY <3>2, <3>3, ContextAdded, SMTT(30)
      <3> QED BY <3>1, <3>4
    <2>7. /\ DOMAIN configured' = DOMAIN configured \cup {key} /\ configured'[key] = cli.ext
          /\ \A k \in DOMAIN configured : k # key => configured'[k] = configured[k]
      BY <1>3 DEF With
    <2>8. \A k \in DOMAIN configured' : k = <<k[1], k[2]>>
      BY <2>1, <2>7 DEF key
    <2>9. ASSUME NEW k \in DOMAIN configured'
          PROVE  /\ ConfigName(k) \in DOMAIN file'.contexts
                 /\ file'.contexts[ConfigName(k)].ext = configured'[k]
      <3>1. CASE k = key
        BY <2>2, <2>3, <2>6, <2>7, <3>1
      <3>2. CASE k # key
        <4>1. k = <<k[1], k[2]>> /\ key = <<key[1], key[2]>>
          BY <2>8 DEF key
        <4>2. ConfigName(k) # ConfigName(key)
          BY <3>2, <4>1 DEF ConfigName
        <4>3. /\ k \in DOMAIN configured /\ ConfigName(k) \in DOMAIN f.contexts
              /\ f.contexts[ConfigName(k)].ext = configured[k]
          BY <2>1, <2>7, <3>2 DEF HasConfigured
        <4> QED BY <2>3, <2>6, <2>7, <3>2, <4>2, <4>3
      <3> QED BY <3>1, <3>2
    <2>10. HasConfigured(file)'
      BY <2>9 DEF HasConfigured
    <2>11. DOMAIN cli' = CliFields /\ cli'.cmd = cli.cmd /\ cli'.phase = "done"
      BY <1>1, <1>3, CliEnds DEF Inv
    <2>12. FileSound'
      BY <2>6, <2>8, <2>10, <2>11 DEF FileSound
    <2>13. CliSound'
      BY <1>1, <2>11, CliMoves DEF Inv, RequestPhases
    <2>14. ApiSound'
      BY <1>1, ApiRests DEF Inv
    <2> QED BY <2>12, <2>13, <2>14 DEF Inv
  <1> QED BY <1>2, <1>3 DEF Persist

\* What kubectl and oc write leaves the configurations alone.
LEMMA WrittenSound ==
    ASSUME Inv, UNCHANGED <<apiVars, cli, configured>>, IsFile(file'),
           \A n \in ConfigContexts(file) : /\ n \in DOMAIN file'.contexts
                                           /\ file'.contexts[n].ext = file.contexts[n].ext
    PROVE  Inv'
  <1>1. \A k : Head(ConfigName(k)) = "tekton-results-config"
    BY DEF ConfigName
  <1>2. HasConfigured(file)'
    BY <1>1 DEF Inv, FileSound, HasConfigured, ConfigContexts, ConfigName
  <1>3. cli.phase \in {"prompt", "persist"} => IsFile(cli'.conf) /\ HasConfigured(cli.conf)'
    BY DEF Inv, FileSound, HasConfigured, ConfigName
  <1>4. FileSound'
    BY <1>2, <1>3 DEF Inv, FileSound
  <1>5. CliSound'
    BY DEF Inv, CliSound, NoCli, apiVars
  <1>6. ApiSound'
    BY ApiRests DEF Inv, apiVars
  <1> QED BY <1>4, <1>5, <1>6 DEF Inv

LEMMA KubectlSound ==
    ASSUME Inv, UseContext \/ SetContext \/ Project
    PROVE  Inv'
  <1>1. IsFile(file) /\ DOMAIN file = {"current", "contexts"}
    BY DEF Inv, FileSound, IsFile
  <1>2. CASE UseContext
    <2>1. PICK n \in DOMAIN file.contexts \ ConfigContexts(file) : file' = [file EXCEPT !.current = n]
      BY <1>2 DEF UseContext
    <2>2. /\ DOMAIN file' = {"current", "contexts"} /\ file'.contexts = file.contexts
          /\ file'.current = n
      BY <1>1, <2>1
    <2>3. IsFile(file')
      BY <1>1, <2>1, <2>2 DEF IsFile, ConfigContexts
    <2> QED BY <1>2, <2>2, <2>3, WrittenSound DEF UseContext, ConfigContexts
  <1>3. CASE SetContext
    <2>1. PICK ns : file' = [file EXCEPT !.contexts[file.current].ns = ns]
      BY <1>3 DEF SetContext
    <2>2. PICK c : c = [file.contexts[file.current] EXCEPT !.ns = ns]
      OBVIOUS
    <2>3. /\ DOMAIN file' = {"current", "contexts"} /\ file'.current = file.current
          /\ file'.contexts = [file.contexts EXCEPT ![file.current] = c]
      BY <1>1, <2>1, <2>2
    <2>4. IsContext(c) /\ c.ext = file.contexts[file.current].ext
      BY <1>1, <2>2 DEF IsFile, IsContext
    <2>5. /\ DOMAIN file'.contexts = DOMAIN file.contexts
          /\ \A n \in DOMAIN file.contexts :
                file'.contexts[n] = IF n = file.current THEN c ELSE file.contexts[n]
      BY <2>3
    <2>6. IsFile(file')
      BY <1>1, <2>3, <2>4, <2>5 DEF IsFile, ConfigContexts
    <2> QED BY <1>3, <2>4, <2>5, <2>6, WrittenSound DEF SetContext, ConfigContexts
  <1>4. CASE Project
    <2>1. PICK n \in DOMAIN MoreContexts \ DOMAIN file.contexts :
             file' = [file EXCEPT !.contexts = With(@, n, MoreContexts[n]), !.current = n]
      BY <1>4 DEF Project
    <2>2. /\ DOMAIN file' = {"current", "contexts"} /\ file'.current = n
          /\ file'.contexts = With(file.contexts, n, MoreContexts[n])
      BY <1>1, <2>1
    <2>3. IsContext(MoreContexts[n]) /\ Head(n) # "tekton-results-config"
      BY ClientAssumption
    <2>4. /\ IsFile(file') /\ DOMAIN file'.contexts = DOMAIN file.contexts \cup {n}
          /\ \A m \in DOMAIN file.contexts : m # n => file'.contexts[m] = file.contexts[m]
      <3>1. PICK g, c : g = file' /\ c = MoreContexts[n]
        OBVIOUS
      <3>2. /\ IsFile(file) /\ IsContext(c) /\ DOMAIN g = {"current", "contexts"}
            /\ g.contexts = With(file.contexts, n, c) /\ g.current \in {file.current, n}
            /\ Head(n) # "tekton-results-config"
        BY <1>1, <2>2, <2>3, <3>1
      <3>3. /\ IsFile(g) /\ DOMAIN g.contexts = DOMAIN file.contexts \cup {n}
            /\ \A m \in DOMAIN file.contexts : m # n => g.contexts[m] = file.contexts[m]
        BY ONLY <3>2, ContextAdded, SMTT(30)
      <3> QED BY <3>1, <3>3
    <2> QED BY <1>4, <2>1, <2>3, <2>4, WrittenSound DEF Project, ConfigContexts
  <1> QED BY <1>2, <1>3, <1>4

----------------------------------------------------------------------------
(* All steps                                                               *)

\* A request that is served remains the same.
LEMMA Served ==
    ASSUME Inv, Serve
    PROVE  /\ call # Idle /\ UNCHANGED <<stored, granted>> /\ GoesOn
           /\ CallSound(call) /\ granted \subseteq call.held /\ call'.req = call.req
  <1>1. call # Idle /\ UNCHANGED <<stored, granted>>
    <2>1. CASE Check \/ ReviewToken \/ Impersonate \/ ReviewAccess
      BY <2>1 DEF Check, ReviewToken, Impersonate, ReviewAccess, At, Idle
    <2>2. CASE List
      BY <2>2 DEF List, At, Idle
    <2>3. CASE ListLogs
      <3>1. call.phase = "query" /\ UNCHANGED <<stored, granted>>
        BY <2>3, Zenon DEF ListLogs, At
      <3> QED BY <3>1 DEF Idle
    <2>4. CASE GetRecordListSummary
      BY <2>4 DEF GetRecordListSummary, At, Idle
    <2>5. CASE GetRecord
      <3>1. call.phase = "query" /\ UNCHANGED <<stored, granted>>
        BY <2>5, Zenon DEF GetRecord, At
      <3> QED BY <3>1 DEF Idle
    <2> QED BY <2>1, <2>2, <2>3, <2>4, <2>5 DEF Serve
  <1>2. CallSound(call) /\ granted \subseteq call.held /\ stored \subseteq DOMAIN Rows
    BY <1>1 DEF Inv, ApiSound, CallsSound
  <1>3. GoesOn
    BY <1>2, CheckSound, ReviewTokenSound, ImpersonateSound, ReviewAccessSound, ListSound,
       ListLogsSound, GetRecordListSummarySound, GetRecordSound DEF Serve
  <1> QED BY <1>1, <1>2, <1>3 DEF GoesOn

\* A step of the server, of the world around it, of another user and of kubectl.
LEMMA ServeSound ==
    ASSUME Inv, UNCHANGED clientVars, Serve
    PROVE  Inv'
  <1>1. /\ call # Idle /\ UNCHANGED <<stored, granted>> /\ GoesOn
        /\ CallSound(call) /\ granted \subseteq call.held
    BY Served
  <1>2. ApiSound'
    BY <1>1 DEF Inv, ApiSound, CallsSound, GoesOn
  <1>3. CliSound'
    BY <1>1 DEF Inv, CliSound, GoesOn, clientVars, NoCli, Idle
  <1>4. FileSound'
    BY FileStays DEF Inv, clientVars
  <1> QED BY <1>2, <1>3, <1>4 DEF Inv

\* Rows are written and purged, permissions granted.
LEMMA WorldSound ==
    ASSUME Inv, ~At("idle"), UNCHANGED clientVars, Write \/ Purge \/ Grant
    PROVE  Inv'
  <1>1. call # Idle
    BY IdleCall DEF Inv, ApiSound
  <1>2. CallSound(call) /\ granted \subseteq call.held
    BY <1>1 DEF Inv, ApiSound, CallsSound
  <1>3. FileSound'
    BY FileStays DEF Inv, clientVars
  <1>4. CASE Write \/ Purge
    <2>1. stored' \subseteq DOMAIN Rows /\ granted' = granted /\ call' = call
      BY <1>4, ApiAssumption DEF Write, Purge, Inv, ApiSound
    <2>2. ApiSound'
      BY <2>1, ZenonT(60) DEF Inv, ApiSound, CallsSound, CallSound, AnswerSound, Authorized, Authenticated,
                  Impersonates, Vouched, Caller, Idle
    <2>3. CliSound'
      BY <2>1 DEF Inv, CliSound, clientVars, NoCli, Idle
    <2> QED BY <1>3, <2>2, <2>3 DEF Inv
  <1>5. CASE Grant
    <2>1. /\ call' = [call EXCEPT !.held = @ \cup granted'] /\ stored' = stored
          /\ granted' \subseteq granted \cup Changing
      BY <1>5 DEF Grant
    <2>2. CallSound(call')
      BY <1>2, <2>1, SeenRemains
    <2>3. DOMAIN call = {"phase", "from", "req", "token", "attr", "held", "start", "rec", "answer"}
      <3>1. call = [phase |-> call.phase, from |-> call.from, req |-> call.req,
                    token |-> call.token, attr |-> call.attr, held |-> call.held,
                    start |-> call.start, rec |-> call.rec, answer |-> call.answer]
        BY <1>2 DEF CallSound
      <3> QED BY ONLY <3>1
    <2>4. /\ call'.from = call.from /\ call'.req = call.req
          /\ call'.held = call.held \cup granted' /\ DOMAIN call' = DOMAIN call
      BY <2>1, <2>3
    <2>5. call' # Idle
      BY <2>3, <2>4 DEF Idle
    <2>6. ApiSound'
      BY <2>1, <2>2, <2>4 DEF Inv, ApiSound, CallsSound
    <2>7. CliSound'
      BY <1>1, <2>4, <2>5 DEF Inv, CliSound, clientVars, NoCli, Idle
    <2> QED BY <1>3, <2>6, <2>7 DEF Inv
  <1> QED BY <1>4, <1>5

\* A request of another user begins, or its answer is taken.
LEMMA OtherSound ==
    ASSUME Inv, Other \/ OtherDone
    PROVE  Inv'
  <1>1. cli.phase = "idle" /\ UNCHANGED <<stored, granted, clientVars>>
    BY DEF Other, OtherDone, Doing
  <1>2. FileSound'
    BY <1>1, FileStays DEF Inv, clientVars
  <1>3. CASE Other
    <2>1. PICK k \in DOMAIN Requests : Begin(Requests[k], "other")
      BY <1>3 DEF Other
    <2>2. IsRequest(Requests[k])
      BY ClientAssumption
    <2>3. CallSound(call') /\ call'.held = granted /\ call'.from = "other"
      BY <2>1, <2>2, BeginSound
    <2>4. ApiSound'
      BY <1>1, <2>3 DEF Inv, ApiSound, CallsSound
    <2>5. CliSound'
      BY <1>1, <2>3 DEF Inv, CliSound, clientVars, NoCli, RequestPhases
    <2> QED BY <1>2, <2>4, <2>5 DEF Inv
  <1>4. CASE OtherDone
    <2>1. call' = Idle
      BY <1>4 DEF OtherDone
    <2>2. ApiSound'
      BY <1>1, <2>1, ApiRests DEF Inv
    <2>3. CliSound'
      BY <1>1, <2>1 DEF Inv, CliSound, clientVars, NoCli, RequestPhases, Idle
    <2> QED BY <1>2, <2>2, <2>3 DEF Inv
  <1> QED BY <1>3, <1>4

LEMMA InitSound ==
    ASSUME Init
    PROVE  Inv
  <1>1. ApiSound
    BY ApiAssumption DEF Init, ApiInit, ApiSound, CallsSound
  <1>2. cli.phase = "idle" /\ cli = NoCli /\ call = Idle
    BY DEF Init, ApiInit, NoCli
  <1>3. CliSound
    BY <1>2 DEF CliSound, RequestPhases
  <1>4. DOMAIN configured = {}
    BY DEF Init
  <1>5. FileSound
    BY <1>2, <1>4, ClientAssumption DEF Init, FileSound, HasConfigured
  <1> QED BY <1>1, <1>3, <1>5 DEF Inv

LEMMA NextSound ==
    ASSUME Inv, [Next]_vars
    PROVE  Inv'
  <1>1. CASE UNCHANGED vars
    <2>1. UNCHANGED <<apiVars, clientVars>> /\ UNCHANGED <<stored, granted, call, file, cli, configured>>
      BY <1>1 DEF vars, apiVars, clientVars
    <2>2. ApiSound'
      BY <2>1, ApiRests DEF Inv
    <2>3. CliSound'
      BY <2>1 DEF Inv, CliSound, NoCli, Idle
    <2>4. FileSound'
      BY <2>1, FileStays DEF Inv
    <2> QED BY <2>2, <2>3, <2>4 DEF Inv
  <1>2. CASE View \/ Reset \/ Set
    BY <1>2, LoadedSound DEF View, Reset, Set, NewConfig
  <1>3. CASE Run \/ InitParams \/ Prompt \/ Persist \/ InitClient
    BY <1>3, RunSound, InitParamsSound, PromptSound, PersistSound, InitClientSound
  <1>4. CASE ListRuns \/ GetByUID \/ FindByName
    BY <1>4, PreRunSound
  <1>5. CASE ShowPage \/ GotRecord \/ Found \/ CopyLog
    BY <1>5, ResponseSound
  <1>6. CASE More \/ Show \/ Exit
    BY <1>6, MoreSound, ShowSound, ExitSound
  <1>7. CASE UseContext \/ SetContext \/ Project
    BY <1>7, KubectlSound
  <1>8. CASE Other \/ OtherDone
    BY <1>8, OtherSound
  <1>9. CASE UNCHANGED clientVars /\ Serve
    BY <1>9, ServeSound
  <1>10. CASE ~At("idle") /\ Untouched /\ UNCHANGED clientVars /\ (Write \/ Purge \/ Grant)
    BY <1>10, WorldSound
  <1> QED BY <1>1, <1>2, <1>3, <1>4, <1>5, <1>6, <1>7, <1>8, <1>9, <1>10 DEF Next

\* The invariant holds of every reachable state.
LEMMA Sound == Spec => []Inv
  <1>1. Init => Inv
    BY InitSound
  <1>2. Inv /\ [Next]_vars => Inv'
    BY NextSound
  <1> QED BY <1>1, <1>2, PTL DEF Spec

----------------------------------------------------------------------------
(* What is asked                                                           *)

IsCommand(c) == \E k \in DOMAIN Commands : c = Commands[k]

Uses == cli.phase # "idle" => IsCommand(cli.cmd)

\* A step of a command.
LEMMA UsesStay ==
    ASSUME Uses, cli.phase # "idle", cli'.cmd = cli.cmd
    PROVE  Uses'
  BY DEF Uses

\* A request is sent for the same command.
LEMMA UsesSend ==
    ASSUME Inv, Uses, cli.phase # "idle", NEW req, NEW p, Send(req, p)
    PROVE  Uses'
  <1>1. DOMAIN cli = CliFields
    BY Active DEF Inv
  <1>2. CASE cli.host = ApiHost
    <2>1. cli' = [cli EXCEPT !.phase = p]
      BY <1>2 DEF Send
    <2>2. cli'.cmd = cli.cmd
      BY <1>1, <2>1 DEF CliFields
    <2> QED BY <2>2, UsesStay
  <1>3. CASE cli.host # ApiHost
    <2>1. Ended("failed")
      BY <1>3 DEF Send, Fail
    <2> QED BY <2>1, CliEnds, UsesStay DEF Inv
  <1> QED BY <1>2, <1>3

\* Every step is of a command that there is.
LEMMA UsesSound ==
    ASSUME Inv, Uses, [Next]_vars
    PROVE  Uses'
  <1>a. cli.phase # "idle" => DOMAIN cli = CliFields /\ IsCommand(cli.cmd)
    BY Active DEF Inv, Uses
  <1>d. ASSUME NEW outcome, Ended(outcome), cli.phase # "idle"
        PROVE  Uses'
    BY <1>d, CliEnds, UsesStay DEF Inv
  <1>1. CASE UNCHANGED vars
    BY <1>1 DEF vars, clientVars, Uses
  <1>2. CASE Run
    <2>0. PICK k \in DOMAIN Commands, p \in {"done", "params"} :
             cli' = [phase |-> p, cmd |-> Commands[k], ns |-> <<>>, conf |-> Kubeconfig,
                     ext |-> EmptyExtension, host |-> "", token |-> "", found |-> 0, scope |-> {},
                     pages |-> <<>>, title |-> <<>>, log |-> 0, outcome |-> "failed"]
      BY <1>2 DEF Run
    <2>1. cli'.cmd = Commands[k]
      BY <2>0
    <2> QED BY <2>1 DEF Uses, IsCommand
  <1>3. CASE InitParams \/ View \/ Reset \/ Set
    <2>1. cli.phase # "idle"
      BY <1>3 DEF InitParams, View, Reset, Set, NewConfig, Doing
    <2>2. CASE Fail
      BY <1>d, <2>1, <2>2 DEF Fail
    <2>3. CASE InitParams
      <3>1. cli'.cmd = cli.cmd
        BY <1>a, <2>1, <2>3 DEF InitParams, CliFields
      <3> QED BY <2>1, <3>1, UsesStay
    <2>4. ASSUME NEW p, NEW ext, Loaded(p, ext)
          PROVE  Uses'
      <3>1. CASE cli' = [cli EXCEPT !.phase = p, !.conf = file, !.ext = ext, !.outcome = "ok"]
        <4>1. cli'.cmd = cli.cmd
          BY <1>a, <2>1, <3>1, SMTT(30) DEF CliFields
        <4> QED BY <2>1, <4>1, UsesStay
      <3> QED BY <2>2, <2>4, <3>1 DEF Loaded
    <2> QED BY <1>3, <2>3, <2>4 DEF View, Reset, Set
  <1>4. CASE Prompt
    <2>1. cli.phase # "idle"
      BY <1>4 DEF Prompt, Doing
    <2>2. CASE Fail
      BY <1>d, <2>1, <2>2 DEF Fail
    <2>3. ASSUME NEW ext, cli' = [cli EXCEPT !.phase = "persist", !.ext = ext]
          PROVE  Uses'
      <3>1. cli'.cmd = cli.cmd
        BY <1>a, <2>1, <2>3 DEF CliFields
      <3> QED BY <2>1, <3>1, UsesStay
    <2> QED BY <1>4, <2>2, <2>3, Zenon DEF Prompt
  <1>5. CASE Persist
    <2>1. cli.phase # "idle"
      BY <1>5 DEF Persist, Doing
    <2> QED BY <1>5, <1>d, <2>1 DEF Persist, Fail
  <1>6. CASE InitClient
    <2>1. cli.phase # "idle"
      BY <1>6 DEF InitClient, Doing
    <2>2. CASE Fail
      BY <1>d, <2>1, <2>2 DEF Fail
    <2>3. ASSUME NEW config,
                 cli' = [cli EXCEPT !.phase = "prerun", !.host = config.host, !.token = config.token]
          PROVE  Uses'
      <3>1. cli'.cmd = cli.cmd
        BY <1>a, <2>1, <2>3 DEF CliFields
      <3> QED BY <2>1, <3>1, UsesStay
    <2> QED BY <1>6, <2>2, <2>3 DEF InitClient
  <1>7. CASE ListRuns \/ GetByUID \/ FindByName
    <2>1. cli.phase # "idle"
      BY <1>7 DEF ListRuns, GetByUID, FindByName, PreRun, Doing
    <2>2. CASE Fail
      BY <1>d, <2>1, <2>2 DEF Fail
    <2>3. ASSUME NEW q, NEW p, Send(q, p)
          PROVE  Uses'
      BY <2>1, <2>3, UsesSend
    <2>5. CASE ListRuns
      <3>1. \/ Fail
            \/ Send(ListRequest(BuildFilter(cli.cmd), cli.cmd.limit, 0), "page")
        BY <2>5 DEF ListRuns, PreRun
      <3> QED BY <2>2, <2>3, <3>1
    <2>6. CASE GetByUID
      <3>1. Send([Request("get", cli.ns, cli.cmd.uid) EXCEPT !.name = cli.cmd.uid], "get")
        BY <2>6 DEF GetByUID, PreRun
      <3> QED BY <2>3, <3>1
    <2>7. CASE FindByName
      <3>1. Send(ListRequest(BuildFilter(cli.cmd), FindPage, 0), "find")
        BY <2>7 DEF FindByName, PreRun
      <3> QED BY <2>3, <3>1
    <2> QED BY <1>7, <2>5, <2>6, <2>7
  <1>8. CASE ShowPage
    <2>1. cli.phase # "idle"
      BY <1>8 DEF ShowPage, Response, Doing
    <2>2. CASE Fail
      BY <1>d, <2>1, <2>2 DEF Fail
    <2>3. ASSUME NEW pages, NEW found, NEW p,
                 cli' = [cli EXCEPT !.pages = pages, !.found = found, !.phase = p, !.outcome = "ok"]
          PROVE  Uses'
      <3>1. cli'.cmd = cli.cmd
        BY <1>a, <2>1, <2>3 DEF CliFields
      <3> QED BY <2>1, <3>1, UsesStay
    <2> QED BY <1>8, <2>2, <2>3 DEF ShowPage
  <1>9. CASE GotRecord
    <2>1. cli.phase # "idle"
      BY <1>9 DEF GotRecord, Response, Doing
    <2>2. CASE Answer.code = "OK"
      <3>1. cli'.cmd = cli.cmd
        BY <1>9, <1>a, <2>1, <2>2 DEF GotRecord, CliFields
      <3> QED BY <2>1, <3>1, UsesStay
    <2>3. CASE Answer.code # "OK"
      <3>1. Send(ListRequest(UIDFilter(cli.cmd), FindPage, 0), "find")
        BY <1>9, <2>3 DEF GotRecord
      <3> QED BY <2>1, <3>1, UsesSend
    <2> QED BY <2>2, <2>3
  <1>10. CASE Found \/ CopyLog
    <2>1. cli.phase # "idle"
      BY <1>10 DEF Found, CopyLog, Response, Doing
    <2>2. cli'.cmd = cli.cmd
      BY <1>10, <1>a, <2>1 DEF Found, CopyLog, CliFields
    <2> QED BY <2>1, <2>2, UsesStay
  <1>11. CASE More
    <2>1. cli.phase # "idle"
      BY <1>11 DEF More, Doing
    <2>2. CASE Ended("ok")
      BY <1>d, <2>1, <2>2
    <2>3. CASE Send(ListRequest(BuildFilter(cli.cmd), cli.cmd.limit, cli.found), "page")
      BY <2>1, <2>3, UsesSend
    <2> QED BY <1>11, <2>2, <2>3 DEF More
  <1>12. CASE Show
    <2>1. cli.phase # "idle"
      BY <1>12 DEF Show, Doing
    <2>2. ASSUME NEW outcome, Ended(outcome)
          PROVE  Uses'
      BY <1>d, <2>1, <2>2
    <2>3. CASE Send(LogRequest(Rows[cli.found]), "log")
      BY <2>1, <2>3, UsesSend
    <2> QED BY <1>12, <2>2, <2>3 DEF Show
  <1>13. CASE Exit
    BY <1>13 DEF Exit, NoCli, Uses
  <1>14. CASE cli' = cli
    BY <1>14 DEF Uses
  <1> QED BY <1>1, <1>2, <1>3, <1>4, <1>5, <1>6, <1>7, <1>8, <1>9, <1>10, <1>11, <1>12, <1>13, <1>14
             DEF Next, UseContext, SetContext, Project, Other, OtherDone, clientVars

\* Initially there is none.
LEMMA UsesInit ==
    ASSUME Init
    PROVE  Uses
  BY DEF Init, Uses, NoCli

\* A page of rows, of those that the condition is true of.
LEMMA PageMeans ==
    ASSUME NEW req, req.kind \in {"results", "records"}, NEW scope,
           Executed(req, scope), ValidPage(req), NEW page, page = PageOf(req, scope), NEW i \in scope
    PROVE  LET hit == InScope(req, Rows[i]) /\ True(Selects(req.filter, FilterRow(Rows[i])))
           IN /\ i \in Range(page) => hit
              /\ hit => i \in Range(page) \/ MayMiss(req, Range(page), i)
  <1> DEFINE hit == InScope(req, Rows[i]) /\ True(Selects(req.filter, FilterRow(Rows[i])))
  <1>1. i \in Selected(req, scope) <=> hit
    BY DEF Selected
  <1>2. PICK S, n : S = Remaining(req, scope) /\ n = PageSize(req)
    OBVIOUS
  <1>3. S \subseteq DOMAIN Rows /\ n \in Nat \ {0}
    <2>1. n \in SmallestPage..LargestPage
      BY <1>2 DEF ValidPage
    <2>2. n \in Nat \ {0}
      BY <2>1, ApiAssumption
    <2> QED BY <1>2, <2>2 DEF Remaining, Selected, Executed
  <1>4. IsFirst(req.order, S, n, page)
    BY <1>2, <1>3 DEF PageOf, IsFirst
  <1>5. /\ page \in Seq(S)
        /\ i \in S => \/ i \in Range(page)
                      \/ /\ Cardinality(Range(page)) = n
                         /\ \A j \in Range(page) : Earlier(req.order, j, i)
    BY <1>3, <1>4, PageInOrder
  <1>6. i \in Range(page) => i \in S
    BY <1>5 DEF Range
  <1>7. i \in S <=> i \in Selected(req, scope) /\ (req.after = 0 \/ Earlier(req.order, req.after, i))
    BY <1>2 DEF Remaining
  <1> HIDE DEF hit
  <1>8. i \in Range(page) => hit
    BY <1>1, <1>6, <1>7
  <1>9. hit => i \in Range(page) \/ MayMiss(req, Range(page), i)
    BY <1>1, <1>2, <1>5, <1>7 DEF MayMiss
  <1> QED BY <1>8, <1>9 DEF hit

----------------------------------------------------------------------------
(* Summaries                                                               *)

States == {"succeeded", "failed", "cancelled", "running", "others"}

\* The states of a run that a summary counts.
LEMMA StatesListed == Range(Statuses) = States
  BY DEF Range, Statuses, States

\* The sum of a column over the lines of a summary, and what it counts of the rows.
ColumnSum(lines, f) == Cardinality(UNION {{l} \X (1..l.val[f].v) : l \in lines})
RowsCounted(S, f) == Cardinality({i \in S : Counts(f, Rows[i])})

\* What the lines of a summary count adds up to what is counted of all rows.
LEMMA LinesAddUp ==
    ASSUME NEW req, NEW S, S \subseteq DOMAIN Rows, NEW f \in Range(SummaryOf(req)),
           f \in {"total"} \cup States
    PROVE  ColumnSum(Summary(req, S), f) = RowsCounted(S, f)
  <1> DEFINE of(g) == {i \in S : GroupOf(req.group, Rows[i]) = g}
             lineOf(g) == [group |-> g,
                           val |-> [e \in Range(SummaryOf(req)) |-> Aggregate(e, of(g))]]
             C == {i \in S : Counts(f, Rows[i])}
             G == {GroupOf(req.group, Rows[i]) : i \in S}
                    \cup (IF req.group = <<>> THEN {Null} ELSE {})
             L == {lineOf(g) : g \in G}
             line == [i \in C |-> lineOf(GroupOf(req.group, Rows[i]))]
             count == [l \in L |-> l.val[f].v]
             own == [l \in L |-> {i \in C : line[i] = l}]
             U == UNION {{l} \X (1..l.val[f].v) : l \in L}
  <1>1. Summary(req, S) = L
    BY DEF Summary
  <1>2. f \notin {"max_duration", "last_runtime", "min_duration", "total_duration"}
    BY DEF States
  <1>3. ASSUME NEW T
        PROVE  Aggregate(f, T) = Num(Cardinality({i \in T : Counts(f, Rows[i])}))
    BY <1>2 DEF Aggregate
  <1>4. ASSUME NEW g
        PROVE  lineOf(g).val[f].v = Cardinality({i \in of(g) : Counts(f, Rows[i])}) /\ lineOf(g).group = g
    <2>1. PICK V : V = [e \in Range(SummaryOf(req)) |-> Aggregate(e, of(g))]
      OBVIOUS
    <2>2. V[f] = Aggregate(f, of(g))
      BY <2>1
    <2> HIDE DEF of
    <2>3. lineOf(g) = [group |-> g, val |-> V]
      BY <2>1
    <2>4. Aggregate(f, of(g)) = Num(Cardinality({i \in of(g) : Counts(f, Rows[i])}))
      BY <1>3
    <2>5. V[f].v = Cardinality({i \in of(g) : Counts(f, Rows[i])})
      BY <2>2, <2>4 DEF Num
    <2> QED BY <2>3, <2>5
  <1> HIDE DEF lineOf
  <1>5. ASSUME NEW g \in G
        PROVE  count[lineOf(g)] = Cardinality({i \in C : line[i] = lineOf(g)})
    <2>1. lineOf(g) \in L /\ count[lineOf(g)] = lineOf(g).val[f].v
      OBVIOUS
    <2>2. ASSUME NEW i \in C
          PROVE  line[i] = lineOf(g) <=> GroupOf(req.group, Rows[i]) = g
      <3>1. line[i] = lineOf(GroupOf(req.group, Rows[i]))
        OBVIOUS
      <3>2. lineOf(GroupOf(req.group, Rows[i])).group = GroupOf(req.group, Rows[i]) /\ lineOf(g).group = g
        BY <1>4
      <3> QED BY ONLY <3>1, <3>2
    <2>3. {i \in C : line[i] = lineOf(g)} = {i \in C : GroupOf(req.group, Rows[i]) = g}
      BY <2>2
    <2>4. {i \in C : GroupOf(req.group, Rows[i]) = g} = {i \in of(g) : Counts(f, Rows[i])}
      OBVIOUS
    <2> HIDE DEF line, count, C, of, L
    <2> QED BY <1>4, <2>1, <2>3, <2>4
  <1>6. \A l \in L : \E g \in G : l = lineOf(g)
    OBVIOUS
  <1>7. \A l \in L : count[l] = l.val[f].v
    OBVIOUS
  <1>8. line \in [C -> L]
    <2>1. \A i \in C : lineOf(GroupOf(req.group, Rows[i])) \in L
      OBVIOUS
    <2> HIDE DEF L, C
    <2> QED BY <2>1
  <1>9. Len(Rows) \in Nat /\ C \subseteq 1..Len(Rows)
    BY ApiAssumption
  <1> HIDE DEF L, C, G, line, count, own, U
  <1>10. \A l \in L : count[l] = Cardinality({i \in C : line[i] = l})
    BY <1>5, <1>6
  <1>11. \A u : u \in U <=> \E l \in L : \E k \in 1..count[l] : u = <<l, k>>
    BY <1>7 DEF U
  <1>12. /\ own \in [L -> SUBSET C] /\ \A l \in L : \A i \in C : i \in own[l] <=> line[i] = l
         /\ \A l \in L : count[l] = Cardinality(own[l])
    BY <1>10 DEF own
  <1>13. Cardinality(U) = Cardinality(C)
    <2>1. PICK n : n = Len(Rows)
      OBVIOUS
    <2>2. n \in Nat /\ C \subseteq 1..n
      BY <1>9, <2>1
    <2> HIDE DEF U, own
    <2>3. Counted(n, C, L, line, own, count, U)
      BY ONLY <1>8, <1>11, <1>12, <2>2 DEF Counted
    <2> QED BY ONLY <2>3, CountedByLine
  <1> QED BY <1>1, <1>13 DEF C, U, ColumnSum, RowsCounted

\* A row is in one state, in another one or in none.
LEMMA OneState ==
    ASSUME NEW r
    PROVE  /\ Counts("total", r)
           /\ Reason(r).t = "null" => \A f \in States : ~Counts(f, r)
           /\ Reason(r).t # "null" => \E f \in States : Counts(f, r)
           /\ \A f, g \in States : Counts(f, r) /\ Counts(g, r) => f = g
  <1> DEFINE is == Reason(r)
  <1>1. is.t \in {"string", "null"}
    BY DEF Reason, Leaf, Str, Null
  <1>2. PICK sc, co, fa, ca, ru : /\ sc = <<"Succeeded">> /\ co = <<"Completed">> /\ fa = <<"Failed">>
                                  /\ ca = <<"Cancelled">> /\ ru = <<"Running">>
    OBVIOUS
  <1>3. sc[1] = "Succeeded" /\ co[1] = "Completed" /\ fa[1] = "Failed" /\ ca[1] = "Cancelled" /\ ru[1] = "Running"
    BY ONLY <1>2
  <1>4. /\ fa \notin {sc, co, ca, ru} /\ ca \notin {sc, co, ru} /\ ru \notin {sc, co}
    BY ONLY <1>3
  <1>5. /\ Counts("total", r)
        /\ Counts("succeeded", r) <=> is.t = "string" /\ is.v \in {sc, co}
        /\ Counts("failed", r) <=> is.t = "string" /\ is.v = fa
        /\ Counts("cancelled", r) <=> is.t = "string" /\ is.v = ca
        /\ Counts("running", r) <=> is.t = "string" /\ is.v = ru
        /\ Counts("others", r) <=> is.t = "string" /\ is.v \notin {sc, co, fa, ca, ru}
    BY <1>2 DEF Counts, Listed, Succeeded
  <1> HIDE DEF is
  <1>6. \A f, g \in States : Counts(f, r) /\ Counts(g, r) => f = g
    BY <1>4, <1>5 DEF States
  <1>7. is.t = "null" => \A f \in States : ~Counts(f, r)
    BY <1>5 DEF States
  <1>8. is.t # "null" => \E f \in States : Counts(f, r)
    BY <1>1, <1>5 DEF States
  <1> QED BY <1>5, <1>6, <1>7, <1>8 DEF is

\* The states of rows add up to the rows.
LEMMA StatesAddUp ==
    ASSUME NEW S, IsFiniteSet(S), S \subseteq DOMAIN Rows
    PROVE  LET count(f) == Cardinality({i \in S : Counts(f, Rows[i])})
           IN /\ count("total") = Cardinality(S)
              /\ count("total") = count("succeeded") + count("failed") + count("cancelled")
                                    + count("running") + count("others")
                                    + Cardinality({i \in S : Reason(Rows[i]).t = "null"})
  <1> DEFINE of(f) == {i \in S : Counts(f, Rows[i])}
             none == {i \in S : Reason(Rows[i]).t = "null"}
  <1>1. of("total") = S
    BY OneState
  <1>2. S = of("succeeded") \cup of("failed") \cup of("cancelled") \cup of("running") \cup of("others") \cup none
    BY OneState DEF States
  <1>3. \A f, g \in States : f # g => of(f) \cap of(g) = {}
    BY OneState
  <1>4. \A f \in States : of(f) \cap none = {}
    BY OneState
  <1>5. PICK a, b, c, d, e, z : /\ a = of("succeeded") /\ b = of("failed") /\ c = of("cancelled")
                                /\ d = of("running") /\ e = of("others") /\ z = none
    OBVIOUS
  <1>6. /\ S = a \cup b \cup c \cup d \cup e \cup z
        /\ a \cap b = {} /\ a \cap c = {} /\ a \cap d = {} /\ a \cap e = {} /\ a \cap z = {}
        /\ b \cap c = {} /\ b \cap d = {} /\ b \cap e = {} /\ b \cap z = {}
        /\ c \cap d = {} /\ c \cap e = {} /\ c \cap z = {}
        /\ d \cap e = {} /\ d \cap z = {} /\ e \cap z = {}
    <2> HIDE DEF of, none
    <2> QED BY <1>2, <1>3, <1>4, <1>5 DEF States
  <1>7. PICK B, D, E, F : B = b \cup D /\ D = c \cup E /\ E = d \cup F /\ F = e \cup z
    OBVIOUS
  <1>8. /\ S = a \cup B /\ a \cap B = {} /\ b \cap D = {} /\ c \cap E = {} /\ d \cap F = {} /\ e \cap z = {}
    BY ONLY <1>6, <1>7
  <1>9. /\ IsFiniteSet(B) /\ Cardinality(S) = Cardinality(a) + Cardinality(B)
        /\ Cardinality(a) \in Nat /\ Cardinality(B) \in Nat
    BY ONLY IsFiniteSet(S), <1>8, TwoParts
  <1>10. /\ IsFiniteSet(D) /\ Cardinality(B) = Cardinality(b) + Cardinality(D)
         /\ Cardinality(b) \in Nat /\ Cardinality(D) \in Nat
    <2>1. IsFiniteSet(B) /\ B = b \cup D /\ b \cap D = {}
      BY ONLY <1>7, <1>8, <1>9
    <2> QED BY ONLY <2>1, TwoParts
  <1>11. /\ IsFiniteSet(E) /\ Cardinality(D) = Cardinality(c) + Cardinality(E)
         /\ Cardinality(c) \in Nat /\ Cardinality(E) \in Nat
    <2>1. IsFiniteSet(D) /\ D = c \cup E /\ c \cap E = {}
      BY ONLY <1>7, <1>8, <1>10
    <2> QED BY ONLY <2>1, TwoParts
  <1>12. /\ IsFiniteSet(F) /\ Cardinality(E) = Cardinality(d) + Cardinality(F)
         /\ Cardinality(d) \in Nat /\ Cardinality(F) \in Nat
    <2>1. IsFiniteSet(E) /\ E = d \cup F /\ d \cap F = {}
      BY ONLY <1>7, <1>8, <1>11
    <2> QED BY ONLY <2>1, TwoParts
  <1>13. /\ Cardinality(F) = Cardinality(e) + Cardinality(z)
         /\ Cardinality(e) \in Nat /\ Cardinality(z) \in Nat /\ IsFiniteSet(z)
    <2>1. IsFiniteSet(F) /\ F = e \cup z /\ e \cap z = {}
      BY ONLY <1>7, <1>8, <1>12
    <2> QED BY ONLY <2>1, TwoParts
  <1>14. Cardinality(S) = Cardinality(a) + Cardinality(b) + Cardinality(c) + Cardinality(d)
                            + Cardinality(e) + Cardinality(z)
    BY ONLY <1>9, <1>10, <1>11, <1>12, <1>13
  <1> QED BY <1>1, <1>5, <1>14

----------------------------------------------------------------------------
(* What is shown                                                           *)

\* The newest first, and none twice.
Descending(s) == \A k, l \in DOMAIN s : k < l => s[k] > s[l]

\* The order of the lists.
Newest == "create_time desc"

\* The request is a list, in the namespace of the command.
Lists(c, q, filter) ==
    /\ q.kind = "records" /\ q.result = All /\ q.parent = (IF c.cmd.all THEN All ELSE c.ns)
    /\ q.filter = filter /\ q.order = Newest

\* The run that was found is the one that was asked for.
FoundAsked(c) ==
    /\ c.found \in DOMAIN Rows /\ IsAsked(c.cmd, c.ns, c.found)
    /\ c.cmd.uid = <<>> =>
          /\ \A i \in c.scope : IsAsked(c.cmd, c.ns, i) => i <= c.found
          /\ c.title[Value \o <<"metadata", "name">>] = c.cmd.name
    /\ c.cmd.cmd = "logs" => (CompletionTime \notin DOMAIN c.title <=> End(Rows[c.found]).t = "null")

\* What the pages so far show.
PagesAsked(c) ==
    /\ c.pages \in Seq(DOMAIN Rows) /\ Descending(c.pages)
    /\ \A k \in DOMAIN c.pages : IsAsked(Heeded(c.cmd), c.ns, c.pages[k])

\* The next page begins after the row n.
PagesBefore(c, n) == n \in DOMAIN Rows /\ \A k \in DOMAIN c.pages : c.pages[k] >= n

\* What a command that is over has shown.
Complete(c) ==
    /\ c.cmd.cmd \in {"describe", "logs"} /\ c.outcome \in {"ok", "running"} =>
          /\ FoundAsked(c) /\ c.log \in {0, c.found}
          /\ c.cmd.cmd = "logs" => (c.outcome = "running" <=> End(Rows[c.found]).t = "null")
    /\ c.outcome = "notfound" =>
          SearchesInVain(c.cmd) \/ ~\E i \in c.scope : IsAsked(c.cmd, c.ns, i)

\* The command c, which has sent the request q, has shown what it was asked for, and
\* asks for the same.
Asking(c, q) ==
    /\ c.cmd.cmd = "list" => PagesAsked(c)
    /\ c.phase = "done" => Complete(c)
    /\ c.phase # "done" =>
          /\ c.log = 0
          /\ c.cmd.cmd \in {"describe", "logs"} => c.cmd.uid # <<>> \/ c.cmd.name # <<>>
    /\ c.phase \in {"prompt", "persist"} => c.cmd.cmd \in ConfigCommands
    /\ c.phase \in {"client", "prerun"} => c.cmd.cmd \notin ConfigCommands
    /\ c.phase \in {"params", "client", "prerun"} => c.pages = <<>>
    /\ c.phase \in {"page", "more"} => c.cmd.cmd = "list"
    /\ c.phase = "page" =>
          /\ Lists(c, q, BuildFilter(c.cmd))
          /\ IF q.after = 0 THEN c.pages = <<>> ELSE PagesBefore(c, q.after)
    /\ c.phase = "more" => PagesBefore(c, c.found)
    /\ c.phase \in {"get", "find", "found", "log"} => c.cmd.cmd \in {"describe", "logs"}
    /\ c.phase = "get" => c.cmd.uid # <<>> /\ q.parent = c.ns /\ q.name = c.cmd.uid /\ q.mask = {}
    /\ c.phase = "find" =>
          /\ Lists(c, q, IF c.cmd.uid = <<>> THEN BuildFilter(c.cmd) ELSE UIDFilter(c.cmd))
          /\ q.after = 0 /\ q.mask = Fields(c.cmd)
    /\ c.phase \in {"found", "log"} => FoundAsked(c)
    /\ c.phase = "log" =>
          /\ c.cmd.cmd = "logs" /\ End(Rows[c.found]).t # "null"
          /\ q.kind \in {"get", "log"} /\ q.name = Rows[c.found].name

Shown == cli.phase # "idle" => Asking(cli, call.req)

\* The path of a leaf of the data.
IsLeafPath(p, a, b) == p = Value \o <<a, b>>

\* A leaf of the data of a Record, in its message.
LEMMA MessageLeaf ==
    ASSUME NEW i \in DOMAIN Rows, Rows[i].table = "records", NEW a, NEW b,
           NEW p, IsLeafPath(p, a, b)
    PROVE  /\ p \in DOMAIN Message(Rows[i]) <=> <<a, b>> \in DOMAIN Rows[i].data
           /\ <<a, b>> \in DOMAIN Rows[i].data => Message(Rows[i])[p] = Rows[i].data[<<a, b>>]
           /\ Len(p) = 4 /\ p[1] = "data" /\ p[2] = "value"
  <1>0. p = Value \o <<a, b>>
    BY DEF IsLeafPath
  <1>1. PICK q, full, data : q = <<a, b>> /\ full = Message(Rows[i]) /\ data = Rows[i].data
    OBVIOUS
  <1>2. Len(q) = 2 /\ q[1] = a /\ q[2] = b /\ Len(Value) = 2 /\ Value[1] = "data" /\ Value[2] = "value"
    BY <1>1 DEF Value
  <1>3. /\ Len(p) = 4 /\ p[1] = "data" /\ p[2] = "value" /\ p[3] = a /\ p[4] = b
        /\ p \in Seq({"data", "value", a, b})
    <2>1. PICK S : S = {"data", "value", a, b}
      OBVIOUS
    <2>2. Value \in Seq(S) /\ q \in Seq(S)
      BY <1>1, <2>1 DEF Value
    <2>3. /\ p \in Seq(S) /\ Len(p) = Len(Value) + Len(q)
          /\ \A k \in 1..Len(p) : p[k] = IF k <= Len(Value) THEN Value[k] ELSE q[k - Len(Value)]
      BY <1>0, <1>1, <2>2, ConcatProperties
    <2> QED BY <1>2, <2>1, <2>3
  <1>4. full = [x \in {<<"name">>, <<"uid">>} \cup {Value \o y : y \in DOMAIN data} |->
                  IF x \in {<<"name">>, <<"uid">>} THEN Rows[i].name
                  ELSE data[SubSeq(x, Len(Value) + 1, Len(x))]]
    BY <1>1 DEF Message
  <1>5. p # <<"name">> /\ p # <<"uid">>
    BY <1>3
  <1>6. ASSUME NEW y \in DOMAIN data, p = Value \o y
        PROVE  y = q
    <2>1. y \in Paths /\ Value \in Paths
      BY <1>1, ApiAssumption, Literals DEF Paths
    <2>2. y \in Seq(Names) /\ Value \in Seq(Names) /\ Len(y) \in Nat
      BY <2>1 DEF Paths
    <2>3. /\ Len(p) = Len(Value) + Len(y)
          /\ \A k \in 1..Len(p) : p[k] = IF k <= Len(Value) THEN Value[k] ELSE y[k - Len(Value)]
      <3>1. PICK V : V = Value
        OBVIOUS
      <3>2. p = V \o y /\ V \in Seq(Names) /\ y \in Seq(Names)
        BY ONLY <1>6, <2>2, <3>1
      <3>3. /\ Len(p) = Len(V) + Len(y)
            /\ \A k \in 1..Len(V) + Len(y) : p[k] = IF k <= Len(V) THEN V[k] ELSE y[k - Len(V)]
        BY ONLY <3>2, ConcatProperties
      <3> QED BY <3>1, <3>3
    <2>4. Len(y) = 2
      <3>1. Len(p) = Len(Value) + Len(y) /\ Len(p) = 4 /\ Len(Value) = 2 /\ Len(y) \in Nat
        BY <1>2, <1>3, <2>2, <2>3, Zenon
      <3>2. PICK m \in Nat : m = Len(y)
        BY <3>1, Zenon
      <3>3. 4 = 2 + m
        BY ONLY <3>1, <3>2, Zenon
      <3>4. m = 2
        BY ONLY <3>3, m \in Nat
      <3> QED BY ONLY <3>2, <3>4, Zenon
    <2>5. y[1] = a /\ y[2] = b
      BY <1>2, <1>3, <2>3
    <2> QED BY <1>1, <2>2, <2>4, <2>5
  <1>7. p \in DOMAIN full <=> q \in DOMAIN data
    <2>1. DOMAIN full = {<<"name">>, <<"uid">>} \cup {Value \o y : y \in DOMAIN data}
      BY <1>4
    <2>2. p = Value \o q
      BY <1>0, <1>1
    <2> QED BY <1>5, <1>6, <2>1, <2>2
  <1>8. SubSeq(p, 3, 4) = q
    <2>1. PICK S : S = {"data", "value", a, b}
      OBVIOUS
    <2>2. p \in Seq(S) /\ 3 \in 1..Len(p) + 1 /\ 4 \in (3 - 1)..Len(p)
      BY <1>3, <2>1
    <2>3. PICK t : t = SubSeq(p, 3, 4)
      OBVIOUS
    <2>4. /\ t \in Seq(S) /\ Len(t) = IF 3 <= 4 THEN 4 - 3 + 1 ELSE 0
          /\ \A k \in 1..4 - 3 + 1 : t[k] = p[3 + k - 1]
      BY ONLY <2>2, <2>3, SubSeqProperties
    <2>5. Len(t) = 2 /\ t[1] = a /\ t[2] = b
      BY ONLY <1>3, <2>4
    <2>6. t = <<a, b>>
      BY ONLY <2>4, <2>5
    <2> QED BY <1>1, <2>3, <2>6
  <1>9. q \in DOMAIN data => full[p] = data[q]
    <2>1. PICK D, l : D = DOMAIN full /\ l = Len(Value) + 1
      OBVIOUS
    <2>2. full = [x \in D |-> IF x \in {<<"name">>, <<"uid">>} THEN Rows[i].name
                              ELSE data[SubSeq(x, l, Len(x))]]
      BY <1>4, <2>1, Zenon
    <2>3. p \in D => full[p] = data[SubSeq(p, l, Len(p))]
      BY <1>5, <2>2
    <2>4. l = 3
      BY <1>2, <2>1
    <2>5. p \in D => full[p] = data[SubSeq(p, 3, 4)]
      BY <1>3, <2>3, <2>4
    <2> QED BY <1>7, <1>8, <2>1, <2>5
  <1> QED BY <1>1, <1>3, <1>7, <1>9

\* The field masks of `describe` and `logs` take nothing away of the data.
LEMMA TitleLeaf ==
    ASSUME NEW cmd, cmd.cmd \in {"describe", "logs"}, NEW req, IsRequest(req),
           \/ req.kind = "get" /\ req.mask = {}
           \/ req.kind = "records" /\ req.mask = Fields(cmd),
           NEW i \in DOMAIN Rows, Rows[i].table = "records", NEW a, NEW b,
           NEW title, title = Masked(req, Message(Rows[i])), NEW p, IsLeafPath(p, a, b)
    PROVE  /\ p \in DOMAIN title <=> <<a, b>> \in DOMAIN Rows[i].data
           /\ <<a, b>> \in DOMAIN Rows[i].data => title[p] = Rows[i].data[<<a, b>>]
  <1>1. PICK full : full = Message(Rows[i])
    OBVIOUS
  <1>2. /\ p \in DOMAIN full <=> <<a, b>> \in DOMAIN Rows[i].data
        /\ <<a, b>> \in DOMAIN Rows[i].data => full[p] = Rows[i].data[<<a, b>>]
        /\ Len(p) = 4 /\ p[1] = "data" /\ p[2] = "value"
    BY <1>1, MessageLeaf
  <1>3. CASE ~PartialResponse \/ req.mask = {}
    <2>1. title = full
      BY <1>1, <1>3 DEF Masked
    <2> QED BY <1>2, <2>1
  <1>4. CASE PartialResponse /\ req.mask # {}
    <2>1. req.kind = "records" /\ req.mask = Fields(cmd) /\ cmd.cmd = "logs"
      <3>1. cmd.cmd = "describe" => Fields(cmd) = {}
        BY DEF Fields
      <3> QED BY <1>4, <3>1
    <2>2. PICK v : v = Under(<<>>)
      OBVIOUS
    <2>3. req.mask = {<<"records", "name">>, <<"records", "uid">>, v}
      BY <2>1, <2>2 DEF Fields
    <2>4. v \in Paths /\ Len(v) = 3 /\ v[1] = "records" /\ v[2] = "data" /\ v[3] = "value"
      <3>1. v \in Paths
        BY <2>3, IsRequest(req) DEF IsRequest, Paths
      <3>2. PICK w : w = <<"records">> \o Value
        OBVIOUS
      <3>3. w = <<"records", "data", "value">>
        <4>1. PICK S : S = {"records", "data", "value"}
          OBVIOUS
        <4>2. PICK r : r = <<"records">>
          OBVIOUS
        <4>3. r \in Seq(S) /\ Value \in Seq(S) /\ Len(r) = 1 /\ Len(Value) = 2 /\ r[1] = "records"
              /\ Value[1] = "data" /\ Value[2] = "value"
          BY <4>1, <4>2 DEF Value
        <4>4. /\ w \in Seq(S) /\ Len(w) = Len(r) + Len(Value)
              /\ \A k \in 1..Len(w) : w[k] = IF k <= Len(r) THEN r[k] ELSE Value[k - Len(r)]
          <5>1. PICK V : V = Value
            OBVIOUS
          <5>2. w = r \o V /\ r \in Seq(S) /\ V \in Seq(S)
            BY <3>2, <4>2, <4>3, <5>1
          <5>3. /\ w \in Seq(S) /\ Len(w) = Len(r) + Len(V)
                /\ \A k \in 1..Len(r) + Len(V) : w[k] = IF k <= Len(r) THEN r[k] ELSE V[k - Len(r)]
            BY ONLY <5>2, ConcatProperties
          <5> QED BY <5>1, <5>3
        <4> QED BY <4>3, <4>4
      <3>4. v = w \o <<>>
        BY <2>2, <3>2 DEF Under
      <3> QED BY <3>1, <3>3, <3>4
    <2>5. DOMAIN full \subseteq Paths
      BY <1>1, MessagePaths
    <2>6. /\ \A x \in DOMAIN full :
               (\E m \in req.mask : StartsWith(<<"records">> \o x, m))
                  => x \in DOMAIN title /\ title[x] = full[x]
          /\ \A x \in DOMAIN title \ DOMAIN full : <<"records">> \o x \in req.mask
      <3>1. LET path(x) == IF req.kind = "get" THEN x ELSE <<"records">> \o x
            IN /\ \A x \in DOMAIN full :
                    LET covered == \E m \in req.mask : StartsWith(path(x), m)
                    IN /\ covered => x \in DOMAIN title /\ title[x] = full[x]
                       /\ x \in DOMAIN title /\ ~covered => \E m \in req.mask : Longer(m, path(x))
               /\ \A x \in DOMAIN title \ DOMAIN full : title[x] = <<"null">> /\ path(x) \in req.mask
        BY <1>1, <1>4, <2>1, <2>5, MaskedExactly
      <3> QED BY <2>1, <3>1
    <2>7. PICK e : e = <<"records">> \o p
      OBVIOUS
    <2>8. Len(e) = 5 /\ e[1] = "records" /\ e[2] = "data" /\ e[3] = "value"
      <3>1. PICK S, r : S = {"records", "data", "value", a, b} /\ r = <<"records">>
        OBVIOUS
      <3>2. r \in Seq(S) /\ Len(r) = 1 /\ r[1] = "records"
        BY <3>1
      <3>3. p \in Seq(S)
        <4>1. Value \in Seq(S) /\ <<a, b>> \in Seq(S)
          BY <3>1 DEF Value
        <4> QED BY <4>1, ConcatProperties DEF IsLeafPath
      <3>4. /\ Len(e) = Len(r) + Len(p)
            /\ \A k \in 1..Len(e) : e[k] = IF k <= Len(r) THEN r[k] ELSE p[k - Len(r)]
        BY <2>7, <3>1, <3>2, <3>3, ConcatProperties
      <3> QED BY <1>2, <3>2, <3>4
    <2>9. e \notin req.mask
      <3>1. Len(<<"records", "name">>) = 2 /\ Len(<<"records", "uid">>) = 2
        OBVIOUS
      <3> QED BY ONLY <2>3, <2>4, <2>8, <3>1
    <2>10. p \in DOMAIN full => e \in Paths /\ IsPrefix(v, e)
      <3>1. p \in DOMAIN full => e \in Paths
        BY <2>5, <2>7, Literals, JoinedPaths
      <3>2. ASSUME e \in Paths
            PROVE  IsPrefix(v, e)
        <4>1. IsPrefix(v, e) <=> Len(v) <= Len(e) /\ \A k \in 1..Len(v) : v[k] = e[k]
          BY ONLY <2>4, <3>2, Prefix
        <4> QED BY ONLY <2>4, <2>8, <4>1
      <3> QED BY <3>1, <3>2
    <2>11. p \in DOMAIN full => p \in DOMAIN title /\ title[p] = full[p]
      <3>1. p \in DOMAIN full => StartsWith(e, v)
        BY <2>10 DEF StartsWith
      <3> QED BY <2>3, <2>6, <2>7, <3>1
    <2> QED BY <1>2, <2>6, <2>7, <2>9, <2>11
  <1> QED BY <1>3, <1>4

\* The newest rows come first.
LEMMA NewestFirst == \A i, j : Earlier(Newest, i, j) <=> i > j
  BY Zenon DEF Earlier, Newest

\* A page of a list with the newest rows first.
LEMMA ListAnswered ==
    ASSUME NEW req, req.kind = "records", req.order = Newest, ~Quoted(req.filter), NEW x,
           x.code = "OK", AnswerExact(req, x), req.after = 0 \/ req.after \in DOMAIN Rows
    PROVE  /\ x.scope \subseteq DOMAIN Rows /\ x.rows \in Seq(DOMAIN Rows) /\ Descending(x.rows)
           /\ \A k \in DOMAIN x.rows :
                 /\ x.rows[k] \in x.scope /\ InScope(req, Rows[x.rows[k]])
                 /\ True(Selects(req.filter, FilterRow(Rows[x.rows[k]])))
                 /\ req.after # 0 => req.after > x.rows[k]
           /\ \A i \in x.scope :
                 req.after = 0 /\ InScope(req, Rows[i]) /\ True(Selects(req.filter, FilterRow(Rows[i])))
                    => x.rows # <<>> /\ i <= x.rows[1]
           /\ x.next # 0 =>
                 /\ \E k \in DOMAIN x.rows : x.rows[k] = x.next
                 /\ \A k \in DOMAIN x.rows : x.rows[k] >= x.next
  <1>1. PICK page, scope, next, n, S :
           /\ page = x.rows /\ scope = x.scope /\ next = x.next /\ n = PageSize(req)
           /\ S = Remaining(req, x.scope)
    OBVIOUS
  <1>2. /\ Executed(req, scope) /\ ValidPage(req) /\ page = PageOf(req, scope)
        /\ next # 0 => page # <<>> /\ next = Last(page)
    BY <1>1 DEF AnswerExact
  <1>3. scope \subseteq DOMAIN Rows /\ S \subseteq DOMAIN Rows /\ n \in Nat \ {0}
    <2>1. n \in SmallestPage..LargestPage
      BY <1>1, <1>2 DEF ValidPage
    <2>2. n \in Nat \ {0}
      BY <2>1, ApiAssumption
    <2> QED BY <1>1, <1>2, <2>2 DEF Remaining, Selected, Executed
  <1>4. IsFirst(req.order, S, n, page)
    BY <1>1, <1>2, <1>3 DEF PageOf, IsFirst
  <1>5. /\ page \in Seq(S)
        /\ \A k, l \in DOMAIN page : k < l => Earlier(req.order, page[k], page[l]) /\ page[k] # page[l]
        /\ \A i \in S : \/ i \in Range(page)
                        \/ /\ Cardinality(Range(page)) = n
                           /\ \A j \in Range(page) : Earlier(req.order, j, i)
    BY <1>4, PageInOrder
  <1>6. \A i, j : Earlier(req.order, i, j) <=> i > j
    BY <1>1, NewestFirst
  <1>7. \A k, l \in DOMAIN page : k < l => page[k] > page[l]
    BY <1>5, <1>6
  <1>8. \A i \in S : /\ i \in scope /\ InScope(req, Rows[i])
                     /\ True(Selects(req.filter, FilterRow(Rows[i])))
                     /\ req.after # 0 => req.after > i
    <2> SUFFICES ASSUME NEW i \in S
                 PROVE  /\ i \in scope /\ InScope(req, Rows[i])
                        /\ True(Selects(req.filter, FilterRow(Rows[i])))
                        /\ req.after # 0 => req.after > i
      OBVIOUS
    <2>1. i \in Selected(req, scope) /\ (req.after = 0 \/ Earlier(req.order, req.after, i))
      BY <1>1 DEF Remaining
    <2>2. i \in scope /\ InScope(req, Rows[i])
      BY <2>1 DEF Selected
    <2>3. True(Selects(req.filter, FilterRow(Rows[i])))
      BY <2>1 DEF Selected
    <2> QED BY <1>6, <2>1, <2>2, <2>3
  <1>9. \A k \in DOMAIN page : page[k] \in S
    BY <1>5
  <1>10. ASSUME NEW i \in scope, req.after = 0, InScope(req, Rows[i]),
                True(Selects(req.filter, FilterRow(Rows[i])))
         PROVE  page # <<>> /\ i <= page[1]
    <2>1. i \in Selected(req, scope)
      BY <1>10 DEF Selected
    <2>2. i \in S
      BY <1>1, <1>10, <2>1 DEF Remaining
    <2>3. i \in Int /\ \A k \in DOMAIN page : page[k] \in Int
      BY <1>3, <1>9, <2>2, ApiAssumption
    <2>4. CASE i \in Range(page)
      <3>1. PICK k \in DOMAIN page : i = page[k]
        BY <2>4 DEF Range
      <3>2. k \in 1..Len(page) /\ Len(page) \in Nat /\ DOMAIN page = 1..Len(page)
        BY <1>5, <3>1
      <3>3. 1 \in DOMAIN page /\ page # <<>> /\ (k = 1 \/ 1 < k)
        BY <3>2
      <3> QED BY <1>7, <2>3, <3>1, <3>3
    <2>5. CASE Cardinality(Range(page)) = n /\ \A j \in Range(page) : Earlier(req.order, j, i)
      <3>1. page # <<>>
        <4>1. Range(<<>>) = {}
          BY DEF Range
        <4> QED BY <1>3, <2>5, <4>1, FS_EmptySet
      <3>2. 1 \in DOMAIN page
        BY <1>5, <3>1
      <3>3. page[1] \in Range(page)
        BY <3>2 DEF Range
      <3> QED BY <1>6, <2>3, <2>5, <3>1, <3>2, <3>3
    <2> QED BY <1>5, <2>2, <2>4, <2>5
  <1>11. ASSUME next # 0
         PROVE  /\ \E k \in DOMAIN page : page[k] = next
                /\ \A k \in DOMAIN page : page[k] >= next
    <2>1. page # <<>> /\ next = page[Len(page)]
      BY <1>2, <1>11 DEF Last
    <2>2. PICK l : l = Len(page)
      OBVIOUS
    <2>3. l \in DOMAIN page /\ DOMAIN page = 1..l /\ l \in Nat
      BY <1>5, <2>1, <2>2
    <2>4. \A k \in DOMAIN page : page[k] \in Int
      BY <1>3, <1>9, ApiAssumption
    <2>5. \A k \in DOMAIN page : k = l \/ k < l
      BY <2>3
    <2> QED BY <1>7, <2>1, <2>2, <2>3, <2>4, <2>5
  <1>12. page \in Seq(DOMAIN Rows)
    BY <1>3, <1>5, MoreRows
  <1> QED BY <1>1, <1>3, <1>7, <1>8, <1>9, <1>10, <1>11, <1>12 DEF Descending

\* The rows in the scope of a list are those in the namespaces of the command.
LEMMA ListScope ==
    ASSUME NEW c, NEW q, NEW filter, Lists(c, q, filter), NEW i
    PROVE  InScope(q, Rows[i]) <=>
              Rows[i].table = "records" /\ (c.cmd.all \/ c.ns \in {All, Rows[i].parent})
  <1>1. q.kind = "records" /\ q.result = All /\ q.parent = (IF c.cmd.all THEN All ELSE c.ns)
    BY DEF Lists
  <1>2. InScope(q, Rows[i]) <=> Rows[i].table = "records" /\ q.parent \in {All, Rows[i].parent}
    BY <1>1 DEF InScope, Table
  <1> QED BY <1>1, <1>2

\* What the filter of a command selects is what the command asks for.
LEMMA FilterAsks ==
    ASSUME FiltersAsk, NEW c, IsCommand(c.cmd), c.cmd.cmd \notin ConfigCommands,
           c.cmd.cmd = "list" \/ (c.cmd.uid = <<>> /\ c.cmd.name # <<>>),
           NEW q, Lists(c, q, BuildFilter(c.cmd))
    PROVE  /\ ~Quoted(q.filter)
           /\ \A i \in DOMAIN Rows :
                 InScope(q, Rows[i]) /\ True(Selects(q.filter, FilterRow(Rows[i])))
                    <=> IsAsked(Heeded(c.cmd), c.ns, i)
  <1>1. PICK cmd, heeded : cmd = c.cmd /\ heeded = Heeded(cmd)
    OBVIOUS
  <1>2. /\ ~Quoted(BuildFilter(cmd))
        /\ \A i \in DOMAIN Rows : Rows[i].table = "records" =>
              (True(Selects(BuildFilter(cmd), FilterRow(Rows[i]))) <=> Asks(heeded, Rows[i]))
    BY <1>1 DEF FiltersAsk, IsCommand
  <1>3. q.filter = BuildFilter(cmd)
    BY <1>1 DEF Lists
  <1>4. heeded.all = cmd.all
    BY <1>1 DEF Heeded
  <1>5. \A i : IsAsked(heeded, c.ns, i) <=>
                 /\ Rows[i].table = "records" /\ (cmd.all \/ c.ns \in {All, Rows[i].parent})
                 /\ Asks(heeded, Rows[i])
    BY <1>4 DEF IsAsked
  <1>6. \A i : InScope(q, Rows[i]) <=>
                 Rows[i].table = "records" /\ (cmd.all \/ c.ns \in {All, Rows[i].parent})
    BY <1>1, ListScope
  <1> QED BY <1>1, <1>2, <1>3, <1>5, <1>6

\* A command other than a list heeds all that it is given.
LEMMA AllHeeded ==
    ASSUME NEW cmd, cmd.cmd # "list"
    PROVE  Heeded(cmd) = cmd
  BY DEF Heeded, DropsName

\* The filter on a UID asks for the run of that UID, as far as the command may see it.
LEMMA UIDAsks ==
    ASSUME FiltersAsk, NEW c, IsCommand(c.cmd), c.cmd.cmd \in {"describe", "logs"}, c.cmd.uid # <<>>,
           NEW q, Lists(c, q, UIDFilter(c.cmd))
    PROVE  /\ ~Quoted(q.filter)
           /\ \A i \in DOMAIN Rows :
                 /\ InScope(q, Rows[i]) /\ True(Selects(q.filter, FilterRow(Rows[i]))) => IsAsked(c.cmd, c.ns, i)
                 /\ IsAsked(c.cmd, c.ns, i) =>
                       \/ SearchesInVain(c.cmd)
                       \/ InScope(q, Rows[i]) /\ True(Selects(q.filter, FilterRow(Rows[i])))
  <1>1. PICK cmd : cmd = c.cmd
    OBVIOUS
  <1>2. /\ ~Quoted(UIDFilter(cmd))
        /\ \A i \in DOMAIN Rows : Rows[i].table = "records" =>
              LET byUID == True(Selects(UIDFilter(cmd), FilterRow(Rows[i])))
              IN (byUID => Asks(cmd, Rows[i])) /\ (Asks(cmd, Rows[i]) => byUID \/ SearchesInVain(cmd))
    BY <1>1 DEF FiltersAsk, IsCommand, ConfigCommands
  <1>3. q.filter = UIDFilter(cmd)
    BY <1>1 DEF Lists
  <1>4. \A i : InScope(q, Rows[i]) <=>
                 Rows[i].table = "records" /\ (cmd.all \/ c.ns \in {All, Rows[i].parent})
    BY <1>1, ListScope
  <1> QED BY <1>1, <1>2, <1>3, <1>4 DEF IsAsked

\* A page that comes after another one.
LEMMA NextPage ==
    ASSUME NEW s \in Seq(DOMAIN Rows), NEW t \in Seq(DOMAIN Rows), Descending(s), Descending(t),
           NEW n, s = <<>> \/ (n \in Int /\ (\A k \in DOMAIN s : s[k] >= n) /\ (\A k \in DOMAIN t : n > t[k]))
    PROVE  /\ s \o t \in Seq(DOMAIN Rows) /\ Descending(s \o t)
           /\ \A k \in DOMAIN (s \o t) : \/ \E l \in DOMAIN s : (s \o t)[k] = s[l]
                                         \/ \E l \in DOMAIN t : (s \o t)[k] = t[l]
  <1>1. PICK u, a, b : u = s \o t /\ a = Len(s) /\ b = Len(t)
    OBVIOUS
  <1>2. /\ u \in Seq(DOMAIN Rows) /\ Len(u) = Len(s) + Len(t)
        /\ \A k \in 1..Len(s) + Len(t) : u[k] = IF k <= Len(s) THEN s[k] ELSE t[k - Len(s)]
    BY <1>1, s \in Seq(DOMAIN Rows), t \in Seq(DOMAIN Rows), ConcatProperties
  <1>3. /\ a \in Nat /\ b \in Nat /\ DOMAIN s = 1..a /\ DOMAIN t = 1..b /\ DOMAIN u = 1..a + b
        /\ \A k \in 1..a + b : u[k] = IF k <= a THEN s[k] ELSE t[k - a]
    BY <1>1, <1>2
  <1>4. (\A k \in 1..a : s[k] \in Int) /\ (\A k \in 1..b : t[k] \in Int)
    <2>1. (\A k \in 1..a : s[k] \in DOMAIN Rows) /\ (\A k \in 1..b : t[k] \in DOMAIN Rows)
      BY <1>3
    <2>2. DOMAIN Rows \subseteq Int
      BY ApiAssumption
    <2> QED BY <2>1, <2>2
  <1>5. ASSUME NEW k \in 1..a + b, NEW l \in 1..a + b, k < l
        PROVE  u[k] > u[l]
    <2>1. CASE l <= a
      <3>1. k \in 1..a /\ l \in 1..a /\ u[k] = s[k] /\ u[l] = s[l]
        BY <1>3, <1>5, <2>1
      <3> QED BY <1>3, <1>5, <3>1 DEF Descending
    <2>2. CASE a < k
      <3>1. PICK x, y : x = k - a /\ y = l - a
        OBVIOUS
      <3>2. x \in 1..b /\ y \in 1..b /\ x < y /\ u[k] = t[x] /\ u[l] = t[y]
        BY <1>3, <1>5, <2>2, <3>1, SMTT(30)
      <3> QED BY <1>3, <3>2 DEF Descending
    <2>3. CASE k <= a /\ a < l
      <3>1. PICK y : y = l - a
        OBVIOUS
      <3>2. k \in 1..a /\ y \in 1..b /\ u[k] = s[k] /\ u[l] = t[y]
        BY <1>3, <1>5, <2>3, <3>1
      <3>3. s # <<>>
        BY <1>1, <1>3, <3>2
      <3>4. n \in Int /\ s[k] >= n /\ n > t[y] /\ s[k] \in Int /\ t[y] \in Int
        BY <1>3, <1>4, <3>2, <3>3
      <3> QED BY <3>2, <3>4
    <2> QED BY <1>3, <2>1, <2>2, <2>3
  <1>6. \A k \in 1..a + b : \/ \E l \in 1..a : u[k] = s[l]
                            \/ \E l \in 1..b : u[k] = t[l]
    <2> SUFFICES ASSUME NEW k \in 1..a + b
                 PROVE  (\E l \in 1..a : u[k] = s[l]) \/ (\E l \in 1..b : u[k] = t[l])
      OBVIOUS
    <2>1. k <= a => k \in 1..a /\ u[k] = s[k]
      BY <1>3
    <2>2. ~(k <= a) => k - a \in 1..b /\ u[k] = t[k - a]
      BY <1>3
    <2> QED BY <2>1, <2>2
  <1>7. Descending(u)
    BY <1>3, <1>5 DEF Descending
  <1>8. \A k \in DOMAIN u : (\E l \in DOMAIN s : u[k] = s[l]) \/ (\E l \in DOMAIN t : u[k] = t[l])
    BY <1>3, <1>6
  <1> QED BY ONLY <1>1, <1>2, <1>7, <1>8, Zenon

\* A run is over once it has a completion time.
LEMMA EndOfRun ==
    ASSUME NEW r
    PROVE  End(r).t = "null" <=> <<"status", "completionTime">> \notin DOMAIN r.data
  <1>1. PICK path : path = <<"status", "completionTime">>
    OBVIOUS
  <1>2. End(r) = TimeOf(Leaf(r, path))
    BY <1>1 DEF End
  <1>3. CASE path \notin DOMAIN r.data
    <2>1. Leaf(r, path) = Null /\ Null.t = "null"
      BY <1>3 DEF Leaf, Null
    <2>2. TimeOf(Null).t = "null"
      BY <2>1 DEF TimeOf
    <2> QED BY <1>1, <1>2, <1>3, <2>1, <2>2
  <1>4. CASE path \in DOMAIN r.data
    <2>1. PICK v : v = r.data[path]
      OBVIOUS
    <2>2. Leaf(r, path) = Str(v) /\ Str(v).t = "string" /\ Str(v).v = v
      BY <1>4, <2>1 DEF Leaf, Str
    <2>3. TimeOf(Str(v)) = Parsed(v)
      BY <2>2 DEF TimeOf
    <2>4. Parsed(v) = Err \/ \E n : Parsed(v) = Time(n)
      BY DEF Parsed
    <2>5. Parsed(v).t # "null"
      BY <2>4 DEF Err, Time
    <2> QED BY <1>1, <1>2, <1>4, <2>2, <2>3, <2>5
  <1> QED BY <1>3, <1>4

\* A leaf that has a name has it as its value.
LEMMA NamedLeaf ==
    ASSUME NEW r, NEW path, NEW n, Leaf(r, path) = Str(n)
    PROVE  path \in DOMAIN r.data /\ r.data[path] = n
  <1>1. Null.t = "null" /\ \A x : Str(x).t = "string" /\ Str(x).v = x
    BY DEF Null, Str
  <1>2. Leaf(r, path) = IF path \in DOMAIN r.data THEN Str(r.data[path]) ELSE Null
    BY DEF Leaf
  <1>3. path \in DOMAIN r.data
    <2>1. SUFFICES ASSUME path \notin DOMAIN r.data PROVE FALSE
      OBVIOUS
    <2>2. Str(n) = Null
      BY <1>2, <2>1, Leaf(r, path) = Str(n), Zenon
    <2>3. Str(n).t = "null" /\ Str(n).t = "string"
      BY ONLY <1>1, <2>2
    <2> QED BY ONLY <2>3
  <1>4. PICK v : v = r.data[path]
    OBVIOUS
  <1>5. Str(n) = Str(v)
    BY <1>2, <1>3, <1>4, Leaf(r, path) = Str(n), Zenon
  <1>6. n = v
    BY ONLY <1>1, <1>5
  <1> QED BY <1>3, <1>4, <1>6

\* What a command takes from the message of the run that it has found.
LEMMA FoundTitle ==
    ASSUME NEW cmd, cmd.cmd \in {"describe", "logs"}, NEW req, IsRequest(req),
           \/ req.kind = "get" /\ req.mask = {}
           \/ req.kind = "records" /\ req.mask = Fields(cmd),
           NEW i \in DOMAIN Rows, Rows[i].table = "records",
           NEW title, title = Masked(req, Message(Rows[i]))
    PROVE  /\ CompletionTime \notin DOMAIN title <=> End(Rows[i]).t = "null"
           /\ Leaf(Rows[i], <<"metadata", "name">>) = Str(cmd.name) =>
                 title[Value \o <<"metadata", "name">>] = cmd.name
  <1>1. PICK p, q, a, b, m, n : /\ p = CompletionTime /\ q = Value \o <<"metadata", "name">>
                                /\ a = "status" /\ b = "completionTime" /\ m = "metadata" /\ n = "name"
    OBVIOUS
  <1>2. IsLeafPath(p, a, b) /\ IsLeafPath(q, m, n)
    BY <1>1 DEF IsLeafPath, CompletionTime
  <1>3. p \in DOMAIN title <=> <<a, b>> \in DOMAIN Rows[i].data
    BY <1>2, TitleLeaf
  <1>4. <<m, n>> \in DOMAIN Rows[i].data => title[q] = Rows[i].data[<<m, n>>]
    BY <1>2, TitleLeaf
  <1>5. End(Rows[i]).t = "null" <=> <<a, b>> \notin DOMAIN Rows[i].data
    BY <1>1, EndOfRun
  <1>6. ASSUME Leaf(Rows[i], <<m, n>>) = Str(cmd.name)
        PROVE  title[q] = cmd.name
    BY <1>4, <1>6, NamedLeaf
  <1> QED BY <1>1, <1>3, <1>5, <1>6

----------------------------------------------------------------------------
(* What a command goes on to show                                          *)

\* A command that goes on keeps what it has found and shown.
Keeping(c, d) ==
    /\ d.cmd = c.cmd /\ d.ns = c.ns /\ d.pages = c.pages /\ d.found = c.found /\ d.scope = c.scope
    /\ d.title = c.title /\ d.log = c.log

\* Then it keeps what it was asked for.
LEMMA Kept ==
    ASSUME NEW c, NEW d, Keeping(c, d)
    PROVE  /\ d.cmd = c.cmd /\ d.ns = c.ns /\ d.pages = c.pages /\ d.found = c.found /\ d.log = c.log
           /\ PagesAsked(d) <=> PagesAsked(c)
           /\ FoundAsked(d) <=> FoundAsked(c)
           /\ \A n : PagesBefore(d, n) <=> PagesBefore(c, n)
           /\ \A q, filter : Lists(d, q, filter) <=> Lists(c, q, filter)
  <1>1. /\ d.cmd = c.cmd /\ d.ns = c.ns /\ d.pages = c.pages /\ d.found = c.found
        /\ d.scope = c.scope /\ d.title = c.title /\ d.log = c.log
    BY DEF Keeping
  <1>2. PagesAsked(d) <=> PagesAsked(c)
    BY <1>1 DEF PagesAsked
  <1>3. FoundAsked(d) <=> FoundAsked(c)
    BY <1>1, Zenon DEF FoundAsked
  <1>4. \A n : PagesBefore(d, n) <=> PagesBefore(c, n)
    BY <1>1 DEF PagesBefore
  <1>5. \A q, filter : Lists(d, q, filter) <=> Lists(c, q, filter)
    BY <1>1 DEF Lists
  <1> QED BY <1>1, <1>2, <1>3, <1>4, <1>5

\* No page shows what was not asked for.
LEMMA NoPages ==
    ASSUME NEW c, c.pages = <<>>
    PROVE  PagesAsked(c)
  BY DEF PagesAsked, Descending

\* A new phase keeps it,
LEMMA MovesOn ==
    ASSUME DOMAIN cli = CliFields, NEW p, cli' = [cli EXCEPT !.phase = p]
    PROVE  cli'.phase = p /\ Keeping(cli, cli')
  BY DEF CliFields, Keeping

\* the end as well.
LEMMA EndsAs ==
    ASSUME DOMAIN cli = CliFields, NEW outcome, Ended(outcome)
    PROVE  cli'.phase = "done" /\ cli'.outcome = outcome /\ Keeping(cli, cli')
  BY DEF Ended, CliFields, Keeping

\* A command that fails shows no run, one that configures none either.
LEMMA AskingEnds ==
    ASSUME NEW c, NEW d, NEW q, NEW r, Asking(c, q), Keeping(c, d), d.phase = "done",
           d.outcome = "failed" \/ (d.outcome = "ok" /\ c.cmd.cmd \notin {"describe", "logs"})
    PROVE  Asking(d, r)
  <1>1. d.cmd = c.cmd /\ (PagesAsked(d) <=> PagesAsked(c))
    BY Kept
  <1>2. Complete(d)
    BY <1>1 DEF Complete
  <1>3. c.cmd.cmd = "list" => PagesAsked(c)
    BY DEF Asking
  <1> QED BY <1>1, <1>2, <1>3 DEF Asking

\* A command that configures.
LEMMA AskingConfig ==
    ASSUME NEW d, NEW r, d.cmd.cmd \in ConfigCommands, d.phase \in {"done", "prompt", "persist"},
           d.log = 0, d.outcome = "ok" \/ d.phase # "done"
    PROVE  Asking(d, r)
  BY DEF Asking, Complete, ConfigCommands

\* The steps of a command preserve Shown: the start,
LEMMA ShownRun ==
    ASSUME Inv, Run
    PROVE  Shown'
  <1> DEFINE Started(k, e, x) ==
          cli' = [phase |-> IF Commands[k].cmd \in {"describe", "logs"} /\ Commands[k].uid = <<>>
                               /\ Commands[k].name = <<>> THEN "done" ELSE "params",
                  cmd |-> Commands[k], ns |-> <<>>, conf |-> Kubeconfig,
                  ext |-> x, host |-> e, token |-> e, found |-> 0, scope |-> {},
                  pages |-> <<>>, title |-> <<>>, log |-> 0, outcome |-> "failed"]
  <1>a. PICK k \in DOMAIN Commands : \E e, x : Started(k, e, x)
    BY Zenon DEF Run
  <1>1. PICK e, x : Started(k, e, x)
    BY <1>a, Zenon
  <1>2. /\ cli'.cmd = Commands[k] /\ cli'.pages = <<>> /\ cli'.log = 0 /\ cli'.outcome = "failed"
        /\ cli'.phase = IF Commands[k].cmd \in {"describe", "logs"} /\ Commands[k].uid = <<>>
                           /\ Commands[k].name = <<>> THEN "done" ELSE "params"
    BY ONLY <1>1
  <1>3. PICK c, q : c = cli' /\ q = call'.req
    OBVIOUS
  <1>4. PagesAsked(c) /\ (c.phase = "done" => Complete(c))
    BY <1>2, <1>3, NoPages DEF Complete
  <1>5. Asking(c, q)
    BY <1>2, <1>3, <1>4 DEF Asking
  <1> QED BY <1>3, <1>5 DEF Shown

\* the parameters,
LEMMA ShownInitParams ==
    ASSUME Inv, Shown, InitParams
    PROVE  Shown'
  <1>1. DOMAIN cli = CliFields /\ cli.phase = "params" /\ Asking(cli, call.req)
    BY Active DEF Inv, InitParams, Doing, Shown
  <1>2. /\ cli'.cmd = cli.cmd /\ cli'.pages = cli.pages /\ cli'.log = cli.log
        /\ cli'.phase = IF cli.cmd.cmd \in ConfigCommands THEN "config" ELSE "client"
    BY <1>1 DEF InitParams, CliFields
  <1>3. PICK c, q : c = cli' /\ q = call'.req
    OBVIOUS
  <1>4. /\ cli.pages = <<>> /\ cli.log = 0
        /\ cli.cmd.cmd \in {"describe", "logs"} => cli.cmd.uid # <<>> \/ cli.cmd.name # <<>>
    BY <1>1 DEF Asking
  <1>5. PagesAsked(c)
    BY <1>2, <1>3, <1>4, NoPages
  <1>6. Asking(c, q)
    BY <1>2, <1>3, <1>4, <1>5 DEF Asking
  <1> QED BY <1>3, <1>6 DEF Shown

\* a configuration that is loaded,
LEMMA ShownLoaded ==
    ASSUME Inv, Shown, Doing("config"), cli.cmd.cmd \in ConfigCommands,
           NEW p \in {"done", "prompt", "persist"}, NEW ext, Loaded(p, ext)
    PROVE  Shown'
  <1>1. DOMAIN cli = CliFields /\ cli.phase = "config" /\ Asking(cli, call.req)
    BY Active DEF Inv, Doing, Shown
  <1>2. PICK c, q : c = cli' /\ q = call'.req
    OBVIOUS
  <1>3. CASE Fail
    <2>1. c.phase = "done" /\ c.outcome = "failed" /\ Keeping(cli, c)
      BY <1>1, <1>2, <1>3, EndsAs DEF Fail
    <2>2. Asking(c, q)
      BY <1>1, <2>1, AskingEnds
    <2> QED BY <1>2, <2>2 DEF Shown
  <1>4. CASE cli' = [cli EXCEPT !.phase = p, !.conf = file, !.ext = ext, !.outcome = "ok"]
    <2>1. c.cmd = cli.cmd /\ c.log = cli.log /\ c.phase = p /\ c.outcome = "ok"
      BY <1>1, <1>2, <1>4 DEF CliFields
    <2>2. cli.log = 0
      BY <1>1 DEF Asking
    <2>3. Asking(c, q)
      BY <2>1, <2>2, AskingConfig, SMTT(30)
    <2> QED BY <1>2, <2>3 DEF Shown
  <1> QED BY <1>3, <1>4 DEF Loaded

\* prompted for or persisted,
LEMMA ShownConfig ==
    ASSUME Inv, Shown, Prompt \/ Persist
    PROVE  Shown'
  <1>1. DOMAIN cli = CliFields /\ cli.phase \in {"prompt", "persist"} /\ Asking(cli, call.req)
    BY Active DEF Inv, Doing, Shown, Prompt, Persist
  <1>2. PICK c, q : c = cli' /\ q = call'.req
    OBVIOUS
  <1>3. cli.cmd.cmd \in ConfigCommands /\ cli.log = 0
    BY <1>1 DEF Asking
  <1>4. CASE Ended("failed") \/ Ended("ok")
    <2>1. c.phase = "done" /\ c.outcome \in {"failed", "ok"} /\ Keeping(cli, c)
      BY <1>1, <1>2, <1>4, EndsAs
    <2>2. Asking(c, q)
      BY <1>1, <1>3, <2>1, AskingEnds DEF ConfigCommands
    <2> QED BY <1>2, <2>2 DEF Shown
  <1>5. ASSUME NEW ext, cli' = [cli EXCEPT !.phase = "persist", !.ext = ext]
        PROVE  Shown'
    <2>1. c.cmd = cli.cmd /\ c.log = cli.log /\ c.phase = "persist"
      BY <1>1, <1>2, <1>5 DEF CliFields
    <2>2. Asking(c, q)
      BY <1>3, <2>1, AskingConfig
    <2> QED BY <1>2, <2>2 DEF Shown
  <1> QED BY <1>4, <1>5, Zenon DEF Prompt, Persist, Fail

\* and the client.
LEMMA ShownInitClient ==
    ASSUME Inv, Shown, InitClient
    PROVE  Shown'
  <1>1. DOMAIN cli = CliFields /\ cli.phase = "client" /\ Asking(cli, call.req)
    BY Active DEF Inv, Doing, Shown, InitClient
  <1>2. PICK c, q : c = cli' /\ q = call'.req
    OBVIOUS
  <1>3. CASE Fail
    <2>1. c.phase = "done" /\ c.outcome = "failed" /\ Keeping(cli, c)
      BY <1>1, <1>2, <1>3, EndsAs DEF Fail
    <2>2. Asking(c, q)
      BY <1>1, <2>1, AskingEnds
    <2> QED BY <1>2, <2>2 DEF Shown
  <1>4. ASSUME NEW config,
               cli' = [cli EXCEPT !.phase = "prerun", !.host = config.host, !.token = config.token]
        PROVE  Shown'
    <2>1. c.phase = "prerun" /\ Keeping(cli, c)
      BY <1>1, <1>2, <1>4 DEF CliFields, Keeping
    <2>2. c.cmd = cli.cmd /\ c.pages = cli.pages /\ c.log = cli.log /\ (PagesAsked(c) <=> PagesAsked(cli))
      BY <2>1, Kept
    <2>3. Asking(c, q)
      BY <1>1, <2>1, <2>2 DEF Asking
    <2> QED BY <1>2, <2>3 DEF Shown
  <1> QED BY <1>3, <1>4 DEF InitClient

\* A command sends a request for what it was asked for, or fails.
LEMMA ShownSends ==
    ASSUME Inv, Shown, cli.phase # "idle", NEW req, NEW p, Send(req, p),
           \A d : Keeping(cli, d) /\ d.phase = p => Asking(d, req)
    PROVE  Shown'
  <1>1. DOMAIN cli = CliFields /\ Asking(cli, call.req)
    BY Active DEF Inv, Shown
  <1>2. PICK c, q : c = cli' /\ q = call'.req
    OBVIOUS
  <1>3. CASE cli.host = ApiHost
    <2>1. Begin(req, "cli") /\ cli' = [cli EXCEPT !.phase = p]
      BY <1>3 DEF Send
    <2>2. q = req
      BY <1>2, <2>1 DEF Begin
    <2>3. c.phase = p /\ Keeping(cli, c)
      BY <1>1, <1>2, <2>1, MovesOn
    <2>4. Asking(c, q)
      BY <2>2, <2>3
    <2> QED BY <1>2, <2>4 DEF Shown
  <1>4. CASE cli.host # ApiHost
    <2>1. Ended("failed")
      BY <1>4 DEF Send, Fail
    <2>2. c.phase = "done" /\ c.outcome = "failed" /\ Keeping(cli, c)
      BY <1>1, <1>2, <2>1, EndsAs
    <2>3. Asking(c, q)
      BY <1>1, <2>2, AskingEnds
    <2> QED BY <1>2, <2>3 DEF Shown
  <1> QED BY <1>3, <1>4

\* What a list request says.
LEMMA ListSent ==
    ASSUME NEW filter, NEW size, NEW after, NEW q, q = ListRequest(filter, size, after)
    PROVE  Lists(cli, q, filter) /\ q.after = after /\ q.mask = Fields(cli.cmd)
  <1>1. PICK o, e : o = Newest /\ e = ""
    OBVIOUS
  <1>2. q = [[kind |-> "records", tokens |-> IF cli.token = e THEN <<>> ELSE <<cli.token>>,
              imp |-> NoImpersonation, parent |-> IF cli.cmd.all THEN All ELSE cli.ns, result |-> All,
              name |-> <<>>, filter |-> NoFilter, mask |-> {}, size |-> 0, after |-> 0,
              summary |-> <<>>, group |-> <<>>, order |-> e] EXCEPT
                !.filter = filter, !.size = size, !.after = after, !.mask = Fields(cli.cmd), !.order = o]
    BY <1>1, Zenon DEF ListRequest, Request, Newest
  <1>3. /\ q.kind = "records" /\ q.result = All /\ q.parent = (IF cli.cmd.all THEN All ELSE cli.ns)
        /\ q.filter = filter /\ q.order = o /\ q.after = after /\ q.mask = Fields(cli.cmd)
    BY ONLY <1>2
  <1> QED BY <1>1, <1>3 DEF Lists

\* A command is one of those there are.
LEMMA CommandKinds ==
    ASSUME NEW c, IsCommand(c), c.cmd \notin ConfigCommands
    PROVE  c.cmd \in {"list", "describe", "logs"}
  BY ClientAssumption DEF IsCommand

\* The first request of a command.
LEMMA ShownPreRun ==
    ASSUME Inv, Uses, Shown, ListRuns \/ GetByUID \/ FindByName
    PROVE  Shown'
  <1>1. DOMAIN cli = CliFields /\ cli.phase = "prerun" /\ Asking(cli, call.req) /\ IsCommand(cli.cmd)
    BY Active DEF Inv, Doing, Shown, Uses, ListRuns, GetByUID, FindByName, PreRun
  <1>2. /\ cli.cmd.cmd \in {"list", "describe", "logs"} /\ cli.pages = <<>> /\ cli.log = 0
        /\ cli.cmd.cmd \in {"describe", "logs"} => cli.cmd.uid # <<>> \/ cli.cmd.name # <<>>
    BY <1>1, CommandKinds DEF Asking
  <1>3. PagesAsked(cli)
    BY <1>2, NoPages
  <1>4. PICK c, q : c = cli' /\ q = call'.req
    OBVIOUS
  <1>5. CASE Fail
    <2>1. c.phase = "done" /\ c.outcome = "failed" /\ Keeping(cli, c)
      BY <1>1, <1>4, <1>5, EndsAs DEF Fail
    <2>2. Asking(c, q)
      BY <1>1, <2>1, AskingEnds
    <2> QED BY <1>4, <2>2 DEF Shown
  <1>6. ASSUME cli.cmd.cmd = "list", Send(ListRequest(BuildFilter(cli.cmd), cli.cmd.limit, 0), "page")
        PROVE  Shown'
    <2>1. PICK r, f : r = ListRequest(BuildFilter(cli.cmd), cli.cmd.limit, 0) /\ f = BuildFilter(cli.cmd)
      OBVIOUS
    <2>2. Lists(cli, r, f) /\ r.after = 0
      BY <2>1, ListSent
    <2>3. ASSUME NEW d, Keeping(cli, d), d.phase = "page"
          PROVE  Asking(d, r)
      <3>1. /\ d.cmd = cli.cmd /\ d.pages = cli.pages /\ d.log = cli.log
            /\ PagesAsked(d) /\ Lists(d, r, f)
        BY <1>3, <2>2, <2>3, Kept
      <3> QED BY <1>2, <1>6, <2>1, <2>2, <2>3, <3>1 DEF Asking
    <2>4. Send(r, "page")
      BY ONLY <1>6, <2>1
    <2> QED BY <1>1, <2>3, <2>4, ShownSends
  <1>7. ASSUME cli.cmd.cmd # "list", cli.cmd.uid # <<>>,
               Send([Request("get", cli.ns, cli.cmd.uid) EXCEPT !.name = cli.cmd.uid], "get")
        PROVE  Shown'
    <2>1. PICK r : r = [Request("get", cli.ns, cli.cmd.uid) EXCEPT !.name = cli.cmd.uid]
      OBVIOUS
    <2>2. r.parent = cli.ns /\ r.name = cli.cmd.uid /\ r.mask = {}
      BY <2>1 DEF Request
    <2>3. ASSUME NEW d, Keeping(cli, d), d.phase = "get"
          PROVE  Asking(d, r)
      <3>1. d.cmd = cli.cmd /\ d.ns = cli.ns /\ d.pages = cli.pages /\ d.log = cli.log
        BY <2>3, Kept
      <3> QED BY <1>2, <1>7, <2>2, <2>3, <3>1 DEF Asking
    <2>4. Send(r, "get")
      BY ONLY <1>7, <2>1
    <2> QED BY <1>1, <2>3, <2>4, ShownSends
  <1>8. ASSUME cli.cmd.cmd # "list", cli.cmd.uid = <<>>,
               Send(ListRequest(BuildFilter(cli.cmd), FindPage, 0), "find")
        PROVE  Shown'
    <2>1. PICK r, f : r = ListRequest(BuildFilter(cli.cmd), FindPage, 0) /\ f = BuildFilter(cli.cmd)
      OBVIOUS
    <2>2. Lists(cli, r, f) /\ r.after = 0 /\ r.mask = Fields(cli.cmd)
      BY <2>1, ListSent
    <2>3. ASSUME NEW d, Keeping(cli, d), d.phase = "find"
          PROVE  Asking(d, r)
      <3>1. d.cmd = cli.cmd /\ d.pages = cli.pages /\ d.log = cli.log /\ Lists(d, r, f)
        BY <2>2, <2>3, Kept
      <3> QED BY <1>2, <1>8, <2>1, <2>2, <2>3, <3>1 DEF Asking
    <2>4. Send(r, "find")
      BY ONLY <1>8, <2>1
    <2> QED BY <1>1, <2>3, <2>4, ShownSends
  <1> QED BY <1>5, <1>6, <1>7, <1>8 DEF ListRuns, GetByUID, FindByName, PreRun

\* The next page.
LEMMA ShownMore ==
    ASSUME Inv, Shown, More
    PROVE  Shown'
  <1>1. DOMAIN cli = CliFields /\ cli.phase = "more" /\ Asking(cli, call.req)
    BY Active DEF Inv, Doing, Shown, More
  <1>2. /\ cli.cmd.cmd = "list" /\ PagesAsked(cli) /\ PagesBefore(cli, cli.found) /\ cli.log = 0
    BY <1>1 DEF Asking
  <1>3. PICK c, q : c = cli' /\ q = call'.req
    OBVIOUS
  <1>4. CASE Ended("ok")
    <2>1. c.phase = "done" /\ c.outcome = "ok" /\ Keeping(cli, c)
      BY <1>1, <1>3, <1>4, EndsAs
    <2>2. Asking(c, q)
      BY <1>1, <1>2, <2>1, AskingEnds
    <2> QED BY <1>3, <2>2 DEF Shown
  <1>5. CASE Send(ListRequest(BuildFilter(cli.cmd), cli.cmd.limit, cli.found), "page")
    <2>1. PICK r, f, n : /\ r = ListRequest(BuildFilter(cli.cmd), cli.cmd.limit, cli.found)
                         /\ f = BuildFilter(cli.cmd) /\ n = cli.found
      OBVIOUS
    <2>2. Lists(cli, r, f) /\ r.after = n
      BY <2>1, ListSent
    <2>3. n # 0
      BY <1>2, <2>1, ApiAssumption DEF PagesBefore
    <2>4. ASSUME NEW d, Keeping(cli, d), d.phase = "page"
          PROVE  Asking(d, r)
      <3>1. /\ d.cmd = cli.cmd /\ d.log = cli.log /\ PagesAsked(d) /\ Lists(d, r, f)
            /\ PagesBefore(d, n)
        BY <1>2, <2>1, <2>2, <2>4, Kept
      <3> QED BY <1>2, <2>1, <2>2, <2>3, <2>4, <3>1 DEF Asking
    <2>5. Send(r, "page")
      BY ONLY <1>5, <2>1
    <2> QED BY <1>1, <2>4, <2>5, ShownSends
  <1> QED BY <1>4, <1>5 DEF More

\* The description, or the request for the log, of what was found.
LEMMA ShownShow ==
    ASSUME Inv, Shown, Show
    PROVE  Shown'
  <1>1. DOMAIN cli = CliFields /\ cli.phase = "found" /\ Asking(cli, call.req)
    BY Active DEF Inv, Doing, Shown, Show
  <1>2. /\ cli.cmd.cmd \in {"describe", "logs"} /\ FoundAsked(cli) /\ cli.log = 0
        /\ cli.cmd.uid # <<>> \/ cli.cmd.name # <<>>
    BY <1>1 DEF Asking
  <1>3. cli.cmd.cmd = "logs" => (CompletionTime \notin DOMAIN cli.title <=> End(Rows[cli.found]).t = "null")
    BY <1>2 DEF FoundAsked
  <1>4. PICK c, q : c = cli' /\ q = call'.req
    OBVIOUS
  <1>5. ASSUME NEW outcome \in {"ok", "running"}, Ended(outcome),
               cli.cmd.cmd = "logs" => (outcome = "running" <=> End(Rows[cli.found]).t = "null")
        PROVE  Shown'
    <2>1. c.phase = "done" /\ c.outcome = outcome /\ Keeping(cli, c)
      BY <1>1, <1>4, <1>5, EndsAs
    <2>2. /\ c.cmd = cli.cmd /\ c.found = cli.found /\ c.log = cli.log /\ FoundAsked(c)
      BY <1>2, <2>1, Kept
    <2>3. Complete(c)
      BY <1>2, <1>5, <2>1, <2>2 DEF Complete
    <2>4. Asking(c, q)
      BY <1>2, <2>1, <2>2, <2>3 DEF Asking
    <2> QED BY <1>4, <2>4 DEF Shown
  <1>6. ASSUME cli.cmd.cmd = "logs", CompletionTime \in DOMAIN cli.title, Send(LogRequest(Rows[cli.found]), "log")
        PROVE  Shown'
    <2>1. PICK r : r = LogRequest(Rows[cli.found])
      OBVIOUS
    <2>2. r.kind \in {"get", "log"} /\ r.name = Rows[cli.found].name
      BY <2>1 DEF LogRequest, Request
    <2>3. ASSUME NEW d, Keeping(cli, d), d.phase = "log"
          PROVE  Asking(d, r)
      <3>1. d.cmd = cli.cmd /\ d.found = cli.found /\ d.log = cli.log /\ FoundAsked(d)
        BY <1>2, <2>3, Kept
      <3> QED BY <1>2, <1>3, <1>6, <2>2, <2>3, <3>1 DEF Asking
    <2>4. Send(r, "log")
      BY ONLY <1>6, <2>1
    <2> QED BY <1>1, <2>3, <2>4, ShownSends
  <1>7. CASE cli.cmd.cmd = "describe" /\ Ended("ok")
    BY <1>5, <1>7
  <1>8. CASE cli.cmd.cmd = "logs" /\ CompletionTime \notin DOMAIN cli.title /\ Ended("running")
    BY <1>3, <1>5, <1>8
  <1>9. \/ cli.cmd.cmd = "describe" /\ Ended("ok")
        \/ cli.cmd.cmd = "logs" /\ CompletionTime \notin DOMAIN cli.title /\ Ended("running")
        \/ /\ cli.cmd.cmd = "logs" /\ CompletionTime \in DOMAIN cli.title
           /\ Send(LogRequest(Rows[cli.found]), "log")
    BY <1>2 DEF Show
  <1> QED BY <1>6, <1>7, <1>8, <1>9

\* The answer to a request of a command.
LEMMA Responded ==
    ASSUME Inv, At("answered"), NEW q, q = call.req, NEW x, x = call.answer
    PROVE  /\ IsRequest(q) /\ AnswerExact(q, x) /\ x.rows \in Seq(DOMAIN Rows)
           /\ x.code = "OK" /\ q.kind \in {"get", "log"} => Len(x.rows) = 1
           /\ x.code = "OK" /\ q.kind \in {"records", "get"} =>
                 \A k \in DOMAIN x.rows : x.body[k] = Masked(q, Message(Rows[x.rows[k]]))
  <1>1. CallSound(call) /\ call # Idle
    BY AnswerRows DEF At, Idle
  <1>2. AnswerSound(call) /\ IsRequest(q)
    BY <1>1 DEF CallSound, At
  <1>3. /\ x.rows \in Seq(DOMAIN Rows)
        /\ x.code = "OK" /\ q.kind \in {"get", "log"} => Len(x.rows) = 1
    BY AnswerRows
  <1>4. AnswerExact(q, x)
    BY <1>2 DEF AnswerSound
  <1>5. ASSUME x.code = "OK", q.kind \in {"records", "get"}, NEW k \in DOMAIN x.rows
        PROVE  x.body[k] = Masked(q, Message(Rows[x.rows[k]]))
    <2>1. x.body = [n \in 1..Len(x.rows) |-> Masked(q, Message(Rows[x.rows[n]]))]
      BY <1>2, <1>5 DEF AnswerSound
    <2>2. k \in 1..Len(x.rows)
      BY <1>3, <1>5
    <2> QED BY ONLY <2>1, <2>2
  <1> QED BY <1>2, <1>3, <1>4, <1>5

\* A page that arrives continues those shown before it.
LEMMA ShownPage ==
    ASSUME FiltersAsk, Inv, Uses, Shown, ShowPage
    PROVE  Shown'
  <1>1. /\ DOMAIN cli = CliFields /\ cli.phase = "page" /\ Asking(cli, call.req) /\ IsCommand(cli.cmd)
        /\ At("answered")
    BY Active DEF Inv, Doing, Shown, Uses, ShowPage, Response
  <1>2. PICK c, d, q, x, r : c = cli /\ d = cli' /\ q = call.req /\ x = call.answer /\ r = call'.req
    OBVIOUS
  <1>3. /\ c.cmd.cmd = "list" /\ PagesAsked(c) /\ c.log = 0 /\ Lists(c, q, BuildFilter(c.cmd))
        /\ IF q.after = 0 THEN c.pages = <<>> ELSE PagesBefore(c, q.after)
    BY <1>1, <1>2 DEF Asking
  <1>4. CASE x.code # "OK"
    <2>1. Ended("failed")
      BY <1>2, <1>4 DEF ShowPage, Answer, Fail
    <2>2. d.phase = "done" /\ d.outcome = "failed" /\ Keeping(c, d)
      BY <1>1, <1>2, <2>1, EndsAs
    <2>3. Asking(d, r)
      BY <1>1, <1>2, <2>2, AskingEnds
    <2> QED BY <1>2, <2>3 DEF Shown
  <1>5. CASE x.code = "OK"
    <2>1. cli' = [cli EXCEPT !.pages = @ \o x.rows, !.found = x.next,
                             !.phase = IF cli.cmd.single \/ x.next = 0 THEN "done" ELSE "more",
                             !.outcome = "ok"]
      BY <1>2, <1>5 DEF ShowPage, Answer
    <2>2. /\ d.cmd = c.cmd /\ d.ns = c.ns /\ d.log = c.log /\ d.pages = c.pages \o x.rows /\ d.found = x.next
          /\ d.phase = (IF c.cmd.single \/ x.next = 0 THEN "done" ELSE "more") /\ d.outcome = "ok"
      BY <1>1, <1>2, <2>1 DEF CliFields
    <2>3. q.kind = "records" /\ q.order = Newest
      BY <1>3 DEF Lists
    <2>a. IsCommand(c.cmd) /\ c.cmd.cmd \notin ConfigCommands
      BY <1>1, <1>2, <1>3 DEF ConfigCommands
    <2>b. /\ ~Quoted(q.filter)
          /\ \A i \in DOMAIN Rows :
                InScope(q, Rows[i]) /\ True(Selects(q.filter, FilterRow(Rows[i])))
                   <=> IsAsked(Heeded(c.cmd), c.ns, i)
      BY <1>3, <2>a, FilterAsks
    <2>4. AnswerExact(q, x)
      BY <1>1, <1>2, Responded
    <2>5. q.after = 0 \/ q.after \in DOMAIN Rows
      BY <1>3 DEF PagesBefore
    <2>6. /\ x.scope \subseteq DOMAIN Rows /\ x.rows \in Seq(DOMAIN Rows) /\ Descending(x.rows)
          /\ \A k \in DOMAIN x.rows :
                /\ x.rows[k] \in x.scope /\ InScope(q, Rows[x.rows[k]])
                /\ True(Selects(q.filter, FilterRow(Rows[x.rows[k]])))
                /\ q.after # 0 => q.after > x.rows[k]
          /\ x.next # 0 =>
                /\ \E k \in DOMAIN x.rows : x.rows[k] = x.next
                /\ \A k \in DOMAIN x.rows : x.rows[k] >= x.next
      BY <1>5, <2>3, <2>4, <2>5, <2>b, ListAnswered
    <2>7. ASSUME NEW k \in DOMAIN x.rows
          PROVE  IsAsked(Heeded(c.cmd), c.ns, x.rows[k])
      <3>1. PICK i : i = x.rows[k]
        OBVIOUS
      <3>2. i \in DOMAIN Rows /\ InScope(q, Rows[i]) /\ True(Selects(q.filter, FilterRow(Rows[i])))
        BY <2>6, <3>1
      <3> QED BY <2>b, <3>1, <3>2
    <2>8. PICK s, t, n, next : s = c.pages /\ t = x.rows /\ n = q.after /\ next = x.next
      OBVIOUS
    <2>9. /\ s \in Seq(DOMAIN Rows) /\ Descending(s) /\ t \in Seq(DOMAIN Rows) /\ Descending(t)
          /\ \A k \in DOMAIN s : IsAsked(Heeded(c.cmd), c.ns, s[k])
      BY <1>3, <2>6, <2>8 DEF PagesAsked
    <2>10. s = <<>> \/ (n \in Int /\ (\A k \in DOMAIN s : s[k] >= n) /\ (\A k \in DOMAIN t : n > t[k]))
      <3>1. CASE n = 0
        BY <1>3, <2>8, <3>1
      <3>2. CASE n # 0
        <4>1. n \in DOMAIN Rows /\ \A k \in DOMAIN s : s[k] >= n
          BY <1>3, <2>8, <3>2 DEF PagesBefore
        <4> QED BY <2>6, <2>8, <3>2, <4>1, ApiAssumption
      <3> QED BY <3>1, <3>2
    <2>11. /\ s \o t \in Seq(DOMAIN Rows) /\ Descending(s \o t)
           /\ \A k \in DOMAIN (s \o t) : \/ \E l \in DOMAIN s : (s \o t)[k] = s[l]
                                         \/ \E l \in DOMAIN t : (s \o t)[k] = t[l]
      BY ONLY <2>9, <2>10, NextPage
    <2>12. PICK u : u = s \o t
      OBVIOUS
    <2>13. d.pages = u /\ d.cmd = c.cmd /\ d.ns = c.ns
      BY <2>2, <2>8, <2>12
    <2>14. /\ u \in Seq(DOMAIN Rows) /\ Descending(u)
           /\ \A k \in DOMAIN u : (\E l \in DOMAIN s : u[k] = s[l]) \/ (\E l \in DOMAIN t : u[k] = t[l])
      BY ONLY <2>11, <2>12
    <2>15. \A l \in DOMAIN t : IsAsked(Heeded(c.cmd), c.ns, t[l])
      BY <2>7, <2>8
    <2>16. \A k \in DOMAIN u : IsAsked(Heeded(c.cmd), c.ns, u[k])
      BY ONLY <2>9, <2>14, <2>15
    <2>17. PagesAsked(d)
      BY <2>13, <2>14, <2>16 DEF PagesAsked
    <2>18. next # 0 => PagesBefore(d, next)
      <3> SUFFICES ASSUME next # 0
                   PROVE  PagesBefore(d, next)
        OBVIOUS
      <3>1. PICK m \in DOMAIN t : t[m] = next
        BY <2>6, <2>8
      <3>2. next \in DOMAIN Rows /\ \A l \in DOMAIN t : t[l] >= next
        BY <2>6, <2>8, <3>1
      <3>3. DOMAIN Rows \subseteq Int /\ \A l \in DOMAIN s : s[l] \in DOMAIN Rows
        BY <2>9, ApiAssumption
      <3>4. \A l \in DOMAIN s : s[l] >= next
        <4>1. CASE s = <<>>
          BY <4>1
        <4>2. CASE s # <<>>
          <5>1. n \in Int /\ next \in Int /\ n > next /\ \A l \in DOMAIN s : s[l] >= n
            BY <2>10, <3>1, <3>2, <3>3, <4>2
          <5>2. \A l \in DOMAIN s : s[l] \in Int
            BY <3>3
          <5> QED BY ONLY <5>1, <5>2
        <4> QED BY <4>1, <4>2
      <3>5. \A k \in DOMAIN u : u[k] >= next
        BY ONLY <2>14, <3>2, <3>4
      <3> QED BY <2>13, <3>2, <3>5 DEF PagesBefore
    <2>19. d.phase = "done" => Complete(d)
      BY <1>3, <2>2 DEF Complete
    <2>20. d.phase = "more" => PagesBefore(d, d.found)
      BY <2>2, <2>8, <2>18
    <2>21. Asking(d, r)
      BY <1>3, <2>2, <2>17, <2>19, <2>20 DEF Asking
    <2> QED BY <1>2, <2>21 DEF Shown
  <1> QED BY <1>4, <1>5

\* A run that is read by its name is the one found.
LEMMA ShownGotRecord ==
    ASSUME Inv, Shown, GotRecord
    PROVE  Shown'
  <1>1. /\ DOMAIN cli = CliFields /\ cli.phase = "get" /\ Asking(cli, call.req) /\ At("answered")
        /\ call.req.kind = "get"
    BY Active DEF Inv, CliSound, Doing, Shown, GotRecord, Response
  <1>2. PICK c, d, q, x, r : c = cli /\ d = cli' /\ q = call.req /\ x = call.answer /\ r = call'.req
    OBVIOUS
  <1>3. /\ c.cmd.cmd \in {"describe", "logs"} /\ c.log = 0 /\ c.cmd.uid # <<>>
        /\ q.parent = c.ns /\ q.name = c.cmd.uid /\ q.mask = {} /\ q.kind = "get"
    BY <1>1, <1>2 DEF Asking
  <1>4. CASE x.code = "OK"
    <2>1. cli' = [cli EXCEPT !.phase = "found", !.found = x.rows[1], !.scope = x.scope, !.title = x.body[1]]
      BY <1>2, <1>4 DEF GotRecord, Answer
    <2>2. /\ d.phase = "found" /\ d.cmd = c.cmd /\ d.ns = c.ns /\ d.log = c.log /\ d.found = x.rows[1]
          /\ d.title = x.body[1]
      BY <1>1, <1>2, <2>1 DEF CliFields
    <2>3. /\ IsRequest(q) /\ AnswerExact(q, x) /\ x.rows \in Seq(DOMAIN Rows) /\ Len(x.rows) = 1
          /\ \A k \in DOMAIN x.rows : x.body[k] = Masked(q, Message(Rows[x.rows[k]]))
      BY <1>1, <1>2, <1>3, <1>4, Responded
    <2>4. PICK i : i = x.rows[1]
      OBVIOUS
    <2>5. i \in DOMAIN Rows /\ IsNamed(q, i) /\ x.body[1] = Masked(q, Message(Rows[i]))
      <3>1. 1 \in DOMAIN x.rows
        BY <2>3
      <3> QED BY <1>3, <1>4, <2>3, <2>4, <3>1 DEF AnswerExact
    <2>6. Rows[i].table = "records" /\ Rows[i].parent = c.ns /\ Rows[i].name = c.cmd.uid
      BY <1>3, <2>5 DEF IsNamed
    <2>7. IsAsked(c.cmd, c.ns, i)
      BY <1>3, <2>6 DEF IsAsked, Asks
    <2>8. PICK title : title = d.title
      OBVIOUS
    <2>9. CompletionTime \notin DOMAIN title <=> End(Rows[i]).t = "null"
      <3>1. title = Masked(q, Message(Rows[i]))
        BY <2>2, <2>5, <2>8
      <3> QED BY <1>3, <2>3, <2>5, <2>6, <3>1, FoundTitle
    <2>10. FoundAsked(d)
      BY <1>3, <2>2, <2>4, <2>5, <2>7, <2>8, <2>9 DEF FoundAsked
    <2>11. Asking(d, r)
      BY <1>3, <2>2, <2>10 DEF Asking
    <2> QED BY <1>2, <2>11 DEF Shown
  <1>5. CASE x.code # "OK"
    <2>1. Send(ListRequest(UIDFilter(cli.cmd), FindPage, 0), "find")
      BY <1>2, <1>5 DEF GotRecord, Answer
    <2>2. PICK p, f : p = ListRequest(UIDFilter(cli.cmd), FindPage, 0) /\ f = UIDFilter(cli.cmd)
      OBVIOUS
    <2>3. Lists(cli, p, f) /\ p.after = 0 /\ p.mask = Fields(cli.cmd)
      BY <2>2, ListSent
    <2>4. ASSUME NEW e, Keeping(cli, e), e.phase = "find"
          PROVE  Asking(e, p)
      <3>1. e.cmd = cli.cmd /\ e.log = cli.log /\ Lists(e, p, f)
        BY <2>3, <2>4, Kept
      <3> QED BY <1>2, <1>3, <2>2, <2>3, <2>4, <3>1 DEF Asking
    <2>5. Send(p, "find")
      BY ONLY <2>1, <2>2
    <2> QED BY <1>1, <2>4, <2>5, ShownSends
  <1> QED BY <1>4, <1>5

\* The first row of the list is the most recent run asked for; an empty list has none.
LEMMA ShownFound ==
    ASSUME FiltersAsk, Inv, Uses, Shown, Found
    PROVE  Shown'
  <1>1. /\ DOMAIN cli = CliFields /\ cli.phase = "find" /\ Asking(cli, call.req) /\ At("answered")
        /\ IsCommand(cli.cmd)
    BY Active DEF Inv, Doing, Shown, Uses, Found, Response
  <1>2. PICK c, d, q, x, r : c = cli /\ d = cli' /\ q = call.req /\ x = call.answer /\ r = call'.req
    OBVIOUS
  <1>3. /\ c.cmd.cmd \in {"describe", "logs"} /\ c.log = 0 /\ (c.cmd.uid # <<>> \/ c.cmd.name # <<>>)
        /\ Lists(c, q, IF c.cmd.uid = <<>> THEN BuildFilter(c.cmd) ELSE UIDFilter(c.cmd))
        /\ q.after = 0 /\ q.mask = Fields(c.cmd)
    BY <1>1, <1>2 DEF Asking
  <1>4. q.kind = "records" /\ q.order = Newest
    BY <1>3 DEF Lists
  <1>5. /\ IsRequest(q) /\ AnswerExact(q, x)
        /\ x.code = "OK" => \A k \in DOMAIN x.rows : x.body[k] = Masked(q, Message(Rows[x.rows[k]]))
    BY <1>1, <1>2, <1>4, Responded
  <1>6. /\ ~Quoted(q.filter)
        /\ \A i \in DOMAIN Rows :
              /\ InScope(q, Rows[i]) /\ True(Selects(q.filter, FilterRow(Rows[i]))) => IsAsked(c.cmd, c.ns, i)
              /\ IsAsked(c.cmd, c.ns, i) =>
                    \/ SearchesInVain(c.cmd) /\ c.cmd.uid # <<>>
                    \/ InScope(q, Rows[i]) /\ True(Selects(q.filter, FilterRow(Rows[i])))
    <2>1. CASE c.cmd.uid = <<>>
      <3>1. Lists(c, q, BuildFilter(c.cmd)) /\ c.cmd.cmd \notin ConfigCommands /\ c.cmd.name # <<>>
        BY <1>3, <2>1 DEF ConfigCommands
      <3>2. Heeded(c.cmd) = c.cmd
        BY <1>3, AllHeeded
      <3>3. /\ ~Quoted(q.filter)
            /\ \A i \in DOMAIN Rows :
                  InScope(q, Rows[i]) /\ True(Selects(q.filter, FilterRow(Rows[i])))
                     <=> IsAsked(Heeded(c.cmd), c.ns, i)
        BY <1>1, <1>2, <2>1, <3>1, FilterAsks
      <3> QED BY <3>2, <3>3
    <2>2. CASE c.cmd.uid # <<>>
      <3>1. Lists(c, q, UIDFilter(c.cmd))
        BY <1>3, <2>2
      <3> QED BY <1>1, <1>2, <1>3, <2>2, <3>1, UIDAsks
    <2> QED BY <2>1, <2>2
  <1>7. ASSUME x.code = "OK"
        PROVE  /\ x.scope \subseteq DOMAIN Rows /\ x.rows \in Seq(DOMAIN Rows)
               /\ \A k \in DOMAIN x.rows :
                     /\ x.rows[k] \in x.scope /\ InScope(q, Rows[x.rows[k]])
                     /\ True(Selects(q.filter, FilterRow(Rows[x.rows[k]])))
               /\ \A i \in x.scope :
                     InScope(q, Rows[i]) /\ True(Selects(q.filter, FilterRow(Rows[i])))
                        => x.rows # <<>> /\ i <= x.rows[1]
    BY <1>3, <1>4, <1>5, <1>7, <1>6, ListAnswered
  <1>8. CASE x.code = "OK" /\ x.rows # <<>>
    <2>1. cli' = [cli EXCEPT !.phase = "found", !.found = x.rows[1], !.scope = x.scope, !.title = x.body[1]]
      BY <1>2, <1>8 DEF Found, Answer
    <2>2. /\ d.phase = "found" /\ d.cmd = c.cmd /\ d.ns = c.ns /\ d.log = c.log /\ d.found = x.rows[1]
          /\ d.scope = x.scope /\ d.title = x.body[1]
      BY <1>1, <1>2, <2>1 DEF CliFields
    <2>3. PICK i, title : i = x.rows[1] /\ title = d.title
      OBVIOUS
    <2>4. 1 \in DOMAIN x.rows
      BY <1>7, <1>8
    <2>5. /\ i \in DOMAIN Rows /\ IsAsked(c.cmd, c.ns, i) /\ title = Masked(q, Message(Rows[i]))
      BY <1>5, <1>6, <1>7, <1>8, <2>2, <2>3, <2>4
    <2>6. /\ Rows[i].table = "records"
          /\ c.cmd.uid = <<>> => Leaf(Rows[i], <<"metadata", "name">>) = Str(c.cmd.name)
      BY <1>3, <2>5 DEF IsAsked, Asks
    <2>7. /\ CompletionTime \notin DOMAIN title <=> End(Rows[i]).t = "null"
          /\ Leaf(Rows[i], <<"metadata", "name">>) = Str(c.cmd.name) =>
                title[Value \o <<"metadata", "name">>] = c.cmd.name
      BY <1>3, <1>4, <1>5, <2>5, <2>6, FoundTitle
    <2>8. c.cmd.uid = <<>> => \A j \in x.scope : IsAsked(c.cmd, c.ns, j) => j <= i
      BY <1>6, <1>7, <1>8, <2>3
    <2>9. FoundAsked(d)
      BY <2>2, <2>3, <2>5, <2>6, <2>7, <2>8 DEF FoundAsked
    <2>10. Asking(d, r)
      BY <1>3, <2>2, <2>9 DEF Asking
    <2> QED BY <1>2, <2>10 DEF Shown
  <1>9. CASE ~(x.code = "OK" /\ x.rows # <<>>)
    <2>1. cli' = [cli EXCEPT !.phase = "done", !.scope = x.scope,
                             !.outcome = IF x.code = "OK" THEN "notfound" ELSE "failed"]
      BY <1>2, <1>9 DEF Found, Answer
    <2>2. /\ d.phase = "done" /\ d.cmd = c.cmd /\ d.ns = c.ns /\ d.scope = x.scope
          /\ d.outcome = IF x.code = "OK" THEN "notfound" ELSE "failed"
      BY <1>1, <1>2, <2>1 DEF CliFields
    <2>3. x.code = "OK" => SearchesInVain(c.cmd) \/ ~\E i \in x.scope : IsAsked(c.cmd, c.ns, i)
      BY <1>6, <1>7, <1>9
    <2>4. Complete(d)
      BY <2>2, <2>3 DEF Complete
    <2>5. Asking(d, r)
      BY <1>3, <2>2, <2>4 DEF Asking
    <2> QED BY <1>2, <2>5 DEF Shown
  <1> QED BY <1>8, <1>9

\* The log is that of the run found, as no other has its UID.
LEMMA ShownLog ==
    ASSUME UIDsDistinct, Inv, Shown, CopyLog
    PROVE  Shown'
  <1>1. DOMAIN cli = CliFields /\ cli.phase = "log" /\ Asking(cli, call.req) /\ At("answered")
    BY Active DEF Inv, Doing, Shown, CopyLog, Response
  <1>2. PICK c, d, q, x, r : c = cli /\ d = cli' /\ q = call.req /\ x = call.answer /\ r = call'.req
    OBVIOUS
  <1>3. /\ c.cmd.cmd = "logs" /\ FoundAsked(c) /\ End(Rows[c.found]).t # "null"
        /\ q.kind \in {"get", "log"} /\ q.name = Rows[c.found].name
    BY <1>1, <1>2 DEF Asking
  <1>4. CASE x.code # "OK"
    <2>1. Ended("failed")
      BY <1>2, <1>4 DEF CopyLog, Answer, Ended
    <2>2. d.phase = "done" /\ d.outcome = "failed" /\ Keeping(c, d)
      BY <1>1, <1>2, <2>1, EndsAs
    <2>3. Asking(d, r)
      BY <1>1, <1>2, <2>2, AskingEnds
    <2> QED BY <1>2, <2>3 DEF Shown
  <1>5. CASE x.code = "OK"
    <2>1. cli' = [cli EXCEPT !.phase = "done", !.outcome = "ok", !.log = x.rows[1]]
      BY <1>2, <1>5 DEF CopyLog, Answer
    <2>2. /\ d.phase = "done" /\ d.outcome = "ok" /\ d.cmd = c.cmd /\ d.ns = c.ns /\ d.found = c.found
          /\ d.scope = c.scope /\ d.title = c.title /\ d.log = x.rows[1]
      BY <1>1, <1>2, <2>1 DEF CliFields
    <2>3. AnswerExact(q, x) /\ x.rows \in Seq(DOMAIN Rows) /\ Len(x.rows) = 1
      BY <1>1, <1>2, <1>3, <1>5, Responded
    <2>4. PICK i : i = x.rows[1]
      OBVIOUS
    <2>5. i \in DOMAIN Rows /\ IsNamed(q, i)
      <3>1. 1 \in DOMAIN x.rows
        BY <2>3
      <3> QED BY <1>3, <1>5, <2>3, <2>4, <3>1 DEF AnswerExact
    <2>6. c.found \in DOMAIN Rows /\ Rows[c.found].table = "records"
      BY <1>3 DEF FoundAsked, IsAsked
    <2>7. i = c.found
      BY <1>3, <2>5, <2>6 DEF IsNamed, UIDsDistinct
    <2>8. FoundAsked(d)
      BY <1>3, <2>2, Zenon DEF FoundAsked
    <2>9. Complete(d)
      BY <1>3, <2>2, <2>4, <2>7, <2>8 DEF Complete
    <2>10. Asking(d, r)
      BY <1>3, <2>2, <2>9 DEF Asking
    <2> QED BY <1>2, <2>10 DEF Shown
  <1> QED BY <1>4, <1>5

\* A command, and its request, while others go on.
LEMMA ShownRests ==
    ASSUME Inv, Shown, cli' = cli, cli.phase = "idle" \/ call'.req = call.req
    PROVE  Shown'
  <1>1. PICK c, q : c = cli /\ q = call.req
    OBVIOUS
  <1>2. c.phase # "idle" => Asking(c, q)
    BY <1>1 DEF Shown
  <1> QED BY <1>1, <1>2 DEF Shown

\* All steps preserve Shown.
LEMMA ShownSound ==
    ASSUME FiltersAsk, UIDsDistinct, Inv, Uses, Shown, [Next]_vars
    PROVE  Shown'
  <1>1. CASE UNCHANGED vars
    BY <1>1, ShownRests DEF vars, apiVars, clientVars
  <1>2. CASE Run \/ InitParams \/ Prompt \/ Persist \/ InitClient
    BY <1>2, ShownRun, ShownInitParams, ShownConfig, ShownInitClient
  <1>3. CASE View \/ Reset \/ Set
    BY <1>3, ShownLoaded DEF View, Reset, Set, NewConfig, ConfigCommands, Doing
  <1>4. CASE ListRuns \/ GetByUID \/ FindByName
    BY <1>4, ShownPreRun
  <1>5. CASE ShowPage \/ GotRecord \/ Found \/ CopyLog
    BY <1>5, ShownPage, ShownGotRecord, ShownFound, ShownLog
  <1>6. CASE More \/ Show
    BY <1>6, ShownMore, ShownShow
  <1>7. CASE Exit
    BY <1>7 DEF Exit, NoCli, Shown
  <1>8. CASE UseContext \/ SetContext \/ Project
    BY <1>8, ShownRests DEF UseContext, SetContext, Project, apiVars
  <1>9. CASE Other \/ OtherDone
    BY <1>9, ShownRests DEF Other, OtherDone, clientVars, Doing
  <1>10. CASE UNCHANGED clientVars /\ Serve
    BY <1>10, Served, ShownRests DEF clientVars
  <1>11. CASE ~At("idle") /\ Untouched /\ UNCHANGED clientVars /\ (Write \/ Purge \/ Grant)
    <2>1. CallSound(call)
      BY <1>11, IdleCall DEF Inv, ApiSound, CallsSound
    <2>2. "req" \in DOMAIN call
      <3>1. call = [phase |-> call.phase, from |-> call.from, req |-> call.req,
                    token |-> call.token, attr |-> call.attr, held |-> call.held,
                    start |-> call.start, rec |-> call.rec, answer |-> call.answer]
        BY <2>1 DEF CallSound
      <3> QED BY ONLY <3>1
    <2>3. call'.req = call.req
      BY <1>11, <2>2 DEF Write, Purge, Grant
    <2> QED BY <1>11, <2>3, ShownRests DEF clientVars
  <1> QED BY <1>1, <1>2, <1>3, <1>4, <1>5, <1>6, <1>7, <1>8, <1>9, <1>10, <1>11 DEF Next

----------------------------------------------------------------------------
(* Theorems                                                                *)

\* Of every rows, users, permissions, requests and commands: a request has a phase
\* and a token of its own, a command waits for an answer only if its request is
\* served, and has found a row.
THEOREM ClientTypeCorrect == Spec => []TypeOK
  <1>1. Inv => TypeOK
    <2> SUFFICES ASSUME Inv
                 PROVE  TypeOK
      OBVIOUS
    <2>1. \/ call = Idle
          \/ /\ call.phase \in {"check", "token", "impersonate", "access", "query", "answered"}
             /\ call.token \in DOMAIN call.req.tokens \cup {1}
             /\ granted \subseteq call.held
      BY DEF Inv, ApiSound, CallsSound, CallSound, Phases
    <2>2. file.current \in DOMAIN file.contexts \ ConfigContexts(file)
      BY DEF Inv, FileSound, IsFile
    <2> QED BY <2>1, <2>2 DEF Inv, ApiSound, CliSound, TypeOK, RequestPhases
  <1> QED BY <1>1, Sound, PTL

\* RBAC.Check and the queries: whatever is granted and revoked while a request is
\* served, and whatever tokens it brings, what it is answered was granted to one of
\* its users, or to those that the user may impersonate, for the namespace of every
\* row that the answer tells of; the rows of a list or a summary whose filter has a
\* quote in one of its texts aside, for which only the request itself was granted.
THEOREM AnswersAreGranted == Spec => []NothingUngranted
  <1>1. Inv => NothingUngranted
    <2> SUFFICES ASSUME Inv, At("answered"), call.answer.code \in {"OK", "NotFound", "Internal"}
                 PROVE  \E k \in DOMAIN call.req.tokens :
                          LET token == call.req.tokens[k]
                              imp   == call.req.imp
                          IN /\ token \in DOMAIN Users
                             /\ AnyImpersonation(imp) =>
                                  \A a \in {imp.user, imp.uid} \cup imp.groups \cup imp.extra :
                                      a = "" \/ Allows(call.held, [Users[token] EXCEPT !.groups = {}],
                                                       "impersonate", <<a>>)
                             /\ Allows(call.held, Identity(call.req, Users[token]), Verb(call.req),
                                       call.req.parent)
                             /\ Escapes(call.req) \/
                                   \A i \in Told : Allows(call.held, Identity(call.req, Users[token]),
                                                          Verb(call.req), Rows[i].parent)
      BY DEF NothingUngranted
    <2>1. CallSound(call) /\ AnswerSound(call) /\ IsRequest(call.req)
      BY DEF Inv, ApiSound, CallsSound, CallSound, At, Idle
    <2>2. Authorized(call)
      BY <2>1 DEF AnswerSound
    <2>3. call.token \in DOMAIN call.req.tokens /\ call.req.tokens[call.token] \in DOMAIN Users
      BY <2>1, <2>2 DEF Authorized, Authenticated, IsRequest
    <2>4. ASSUME AnyImpersonation(call.req.imp),
                 NEW a \in {call.req.imp.user, call.req.imp.uid} \cup call.req.imp.groups
                             \cup call.req.imp.extra, a # ""
          PROVE  Allows(call.held, [Caller(call) EXCEPT !.groups = {}], "impersonate", <<a>>)
      <3>1. PICK n \in 1..Len(ResourceAttributes(call.req.imp)) : ResourceAttributes(call.req.imp)[n] = a
        BY <2>1, <2>4, Attributes DEF IsRequest
      <3>2. Vouched(call, Len(ResourceAttributes(call.req.imp)))
        BY <2>2, <2>4 DEF Authorized, Impersonates
      <3> QED BY <3>1, <3>2 DEF Vouched
    <2>5. Allows(call.held, Identity(call.req, Caller(call)), Verb(call.req), call.req.parent)
      BY <2>2 DEF Authorized
    <2>6. ASSUME ~Escapes(call.req), NEW i \in Told
          PROVE  Allows(call.held, Identity(call.req, Caller(call)), Verb(call.req), Rows[i].parent)
      <3>1. InScope(call.req, Rows[i])
        <4>1. CASE call.req.kind = "summary"
          BY <4>1 DEF Told
        <4>2. CASE call.req.kind # "summary"
          <5>1. i \in Range(call.answer.rows)
            BY <4>2 DEF Told
          <5>2. call.answer.rows \in Seq(Scope(call.req))
            BY <2>1 DEF AnswerSound
          <5>3. i \in Scope(call.req)
            BY <5>1, <5>2 DEF Range
          <5> QED BY <2>6, <5>3 DEF Scope
        <4> QED BY <4>1, <4>2
      <3>2. call.req.parent \in {All, Rows[i].parent}
        BY <3>1 DEF InScope
      <3> QED BY <2>5, <3>2 DEF Allows
    <2> USE <2>3
    <2> WITNESS call.token \in DOMAIN call.req.tokens
    <2> QED BY <2>4, <2>5, <2>6 DEF Caller
  <1> QED BY <1>1, Sound, PTL

\* UnaryServerInterceptor and Filter: of every Record that a field mask was given
\* for, on its own or in a list, the answer holds exactly the fields that the paths
\* of the mask lead to or through; what else it holds is the null of a path that
\* leads nowhere in its JSON.
THEOREM MasksAreExact == Spec => []MaskExact
  <1>1. Inv => MaskExact
    <2> SUFFICES ASSUME Inv, Ok({"records", "get"}), PartialResponse, call.req.mask # {},
                        NEW k \in DOMAIN call.answer.rows
                 PROVE  LET full == Message(Rows[call.answer.rows[k]])
                            left == call.answer.body[k]
                            path(p) == IF call.req.kind = "get" THEN p ELSE <<"records">> \o p
                        IN /\ \A p \in DOMAIN full :
                                LET covered == \E m \in call.req.mask : StartsWith(path(p), m)
                                IN /\ covered => p \in DOMAIN left /\ left[p] = full[p]
                                   /\ p \in DOMAIN left /\ ~covered =>
                                         \E m \in call.req.mask : Longer(m, path(p))
                           /\ \A p \in DOMAIN left \ DOMAIN full :
                                left[p] = <<"null">> /\ path(p) \in call.req.mask
      BY DEF MaskExact
    <2>1. call.phase = "answered" /\ call.req.kind \in {"records", "get"} /\ call.answer.code = "OK"
      BY DEF Ok, At
    <2>2. AnswerSound(call) /\ IsRequest(call.req)
      BY <2>1 DEF Inv, ApiSound, CallsSound, CallSound, Idle
    <2>3. /\ call.answer.rows \in Seq(Scope(call.req))
          /\ call.answer.body = [n \in 1..Len(call.answer.rows) |->
                                   Masked(call.req, Message(Rows[call.answer.rows[n]]))]
      BY <2>1, <2>2 DEF AnswerSound
    <2>4. PICK i : i = call.answer.rows[k]
      OBVIOUS
    <2>5. k \in 1..Len(call.answer.rows) /\ i \in DOMAIN Rows
      BY <2>3, <2>4 DEF Scope
    <2>6. PICK full, left, req : full = Message(Rows[i]) /\ left = call.answer.body[k] /\ req = call.req
      OBVIOUS
    <2>7. left = Masked(req, full)
      BY <2>3, <2>4, <2>5, <2>6
    <2>8. DOMAIN full \subseteq Paths
      BY <2>5, <2>6, MessagePaths
    <2>9. IsRequest(req) /\ req.mask # {} /\ req.kind \in {"records", "get"}
      BY <2>1, <2>2, <2>6
    <2>10. LET path(p) == IF req.kind = "get" THEN p ELSE <<"records">> \o p
           IN /\ \A p \in DOMAIN full :
                   LET covered == \E m \in req.mask : StartsWith(path(p), m)
                   IN /\ covered => p \in DOMAIN left /\ left[p] = full[p]
                      /\ p \in DOMAIN left /\ ~covered => \E m \in req.mask : Longer(m, path(p))
              /\ \A p \in DOMAIN left \ DOMAIN full : left[p] = <<"null">> /\ path(p) \in req.mask
      BY <2>7, <2>8, <2>9, MaskedExactly
    <2> QED BY <2>4, <2>6, <2>10
  <1> QED BY <1>1, Sound, PTL

\* Persist and LoadExtension: what was configured last for a cluster and a user is
\* what every context of them loads, whatever kubectl and oc write between and
\* whatever commands are interrupted.
THEOREM ConfigurationPersists == Spec => []ConfigPersists
  <1>1. Inv => ConfigPersists
    <2> SUFFICES ASSUME Inv, NEW c, <<c.cluster, UserName(c)>> \in DOMAIN configured
                 PROVE  LoadExtension(file, c) = configured[<<c.cluster, UserName(c)>>]
      BY DEF ConfigPersists
    <2> DEFINE k == <<c.cluster, UserName(c)>>
    <2>1. ConfigName(k) = BuildConfigContext(c)
      BY DEF ConfigName, BuildConfigContext
    <2>2. /\ ConfigName(k) \in DOMAIN file.contexts
          /\ file.contexts[ConfigName(k)].ext = configured[k]
      BY DEF Inv, FileSound, HasConfigured
    <2> QED BY <2>1, <2>2 DEF LoadExtension
  <1> QED BY <1>1, Sound, PTL

\* List, PageSize and order.build, for any language of filters and any conversion to
\* SQL: a list holds the rows of the parent that its condition is true of, none but
\* those, and one is missing only where the page began after it or is full of rows
\* that come before it, whatever is written and purged meanwhile. A filter with a quote
\* in one of its texts is left out.
THEOREM PagesAreExact == Spec => []PageExact
  <1>1. Inv => PageExact
    <2> SUFFICES ASSUME Inv, Ok({"results", "records"}), ~Quoted(call.req.filter),
                        NEW i \in call.answer.scope
                 PROVE  LET req  == call.req
                            rows == Range(call.answer.rows)
                            hit  == InScope(req, Rows[i]) /\ True(Selects(req.filter, FilterRow(Rows[i])))
                        IN /\ i \in rows => hit
                           /\ hit => i \in rows \/ MayMiss(req, rows, i)
      BY DEF PageExact
    <2>1. PICK req, scope, page : req = call.req /\ scope = call.answer.scope /\ page = call.answer.rows
      OBVIOUS
    <2>2. call.phase = "answered" /\ req.kind \in {"results", "records"} /\ call.answer.code = "OK"
      BY <2>1 DEF Ok, At
    <2>3. AnswerExact(call.req, call.answer)
      BY <2>2 DEF Inv, ApiSound, CallsSound, CallSound, AnswerSound, Idle
    <2>4. Executed(req, scope) /\ ValidPage(req) /\ page = PageOf(req, scope)
      BY <2>1, <2>2, <2>3 DEF AnswerExact
    <2>5. LET hit == InScope(req, Rows[i]) /\ True(Selects(req.filter, FilterRow(Rows[i])))
          IN /\ i \in Range(page) => hit
             /\ hit => i \in Range(page) \/ MayMiss(req, Range(page), i)
      BY <2>1, <2>2, <2>4, PageMeans
    <2> QED BY <2>1, <2>5
  <1> QED BY <1>1, Sound, PTL

\* getCount, getStatus and the groups: the totals of the lines of a summary add up to
\* the rows that its condition is true of, and so do the states of the runs, with the
\* runs that have none. Whatever the rows are grouped by, no row is in two lines or in
\* none. A filter with a quote in one of its texts is left out.
THEOREM SummariesAddUp == Spec => []SummaryAddsUp
  <1>1. Inv => SummaryAddsUp
    <2> SUFFICES ASSUME Inv, Ok({"summary"}), ~call.answer.failed, ~Quoted(call.req.filter),
                        {"total"} \cup Range(Statuses) \subseteq Range(call.req.summary)
                 PROVE  LET lines == call.answer.summary
                            rows == {i \in call.answer.scope :
                                       /\ InScope(call.req, Rows[i])
                                       /\ True(Selects(call.req.filter, FilterRow(Rows[i])))}
                            sum(f) == Cardinality(UNION {{l} \X (1..l.val[f].v) : l \in lines})
                        IN /\ sum("total") = Cardinality(rows)
                           /\ sum("total") = sum("succeeded") + sum("failed") + sum("cancelled")
                                               + sum("running") + sum("others")
                                               + Cardinality({i \in rows : Reason(Rows[i]).t = "null"})
      BY DEF SummaryAddsUp
    <2>1. PICK req, scope, lines :
             req = call.req /\ scope = call.answer.scope /\ lines = call.answer.summary
      OBVIOUS
    <2>2. call.phase = "answered" /\ req.kind = "summary" /\ call.answer.code = "OK"
      BY <2>1 DEF Ok, At
    <2>3. AnswerExact(call.req, call.answer)
      BY <2>1, <2>2 DEF Inv, ApiSound, CallsSound, CallSound, AnswerSound, Idle
    <2>4. PICK S : S = Selected(req, scope)
      OBVIOUS
    <2>5. Executed(req, scope) /\ lines = Summary(req, S)
      BY <2>1, <2>2, <2>3, <2>4 DEF AnswerExact
    <2>6. S \subseteq DOMAIN Rows /\ IsFiniteSet(S)
      <3>1. S \subseteq DOMAIN Rows
        BY <2>4, <2>5 DEF Selected, Executed
      <3> QED BY <3>1, RowsOrdered
    <2>7. S = {i \in scope : InScope(req, Rows[i]) /\ True(Selects(req.filter, FilterRow(Rows[i])))}
      BY <2>4 DEF Selected
    <2>8. {"total"} \cup States \subseteq Range(SummaryOf(req))
      <3>1. {"total"} \cup States \subseteq Range(req.summary)
        BY <2>1, StatesListed
      <3>2. req.summary # <<"">>
        <4>1. SUFFICES ASSUME req.summary = <<"">> PROVE FALSE
          BY Zenon
        <4>2. PICK x : x = ""
          BY Zenon
        <4>3. req.summary = <<x>>
          BY <4>1, <4>2, Zenon
        <4>4. "total" = x
          BY ONLY <3>1, <4>3 DEF Range
        <4> QED BY ONLY <4>2, <4>4, Zenon
      <3> QED BY <3>1, <3>2 DEF SummaryOf
    <2>9. \A f \in {"total"} \cup States :
             Cardinality(UNION {{l} \X (1..l.val[f].v) : l \in lines})
                = Cardinality({i \in S : Counts(f, Rows[i])})
      <3> SUFFICES ASSUME NEW f \in {"total"} \cup States
                   PROVE  ColumnSum(lines, f) = RowsCounted(S, f)
        BY DEF ColumnSum, RowsCounted
      <3>1. f \in Range(SummaryOf(req))
        BY <2>8
      <3> QED BY <2>5, <2>6, <3>1, LinesAddUp, Zenon
    <2> DEFINE sum(f) == Cardinality(UNION {{l} \X (1..l.val[f].v) : l \in lines})
               count(f) == Cardinality({i \in S : Counts(f, Rows[i])})
    <2>10. /\ count("total") = Cardinality(S)
           /\ count("total") = count("succeeded") + count("failed") + count("cancelled")
                                 + count("running") + count("others")
                                 + Cardinality({i \in S : Reason(Rows[i]).t = "null"})
      BY <2>6, StatesAddUp
    <2>11. \A f \in {"total"} \cup States : sum(f) = count(f)
      BY <2>9
    <2> HIDE DEF sum, count
    <2>12. /\ sum("total") = Cardinality(S)
           /\ sum("total") = sum("succeeded") + sum("failed") + sum("cancelled") + sum("running")
                               + sum("others") + Cardinality({i \in S : Reason(Rows[i]).t = "null"})
      BY <2>10, <2>11 DEF States
    <2> QED BY <2>1, <2>7, <2>12 DEF sum
  <1> QED BY <1>1, Sound, PTL

\* The whole way of a command: if the conditions of its filters select what its arguments
\* and flags ask for, a list shows runs that were asked for, the newest first and none
\* twice over all its pages, but for the name in a list by label and name; a
\* description or a log is that of the run with the UID or of the most recent one with
\* the name, and a run that is said to be missing was not there, whatever is written,
\* purged, granted and configured meanwhile.
THEOREM CommandsShowWhatIsAsked ==
    ASSUME FiltersAsk, UIDsDistinct
    PROVE  Spec => []ShownIsAsked
  <1>1. Init => Inv /\ Uses /\ Shown
    <2>1. Init => Shown
      BY DEF Init, NoCli, Shown
    <2> QED BY <2>1, InitSound, UsesInit
  <1>2. Inv /\ Uses /\ Shown /\ [Next]_vars => (Inv /\ Uses /\ Shown)'
    BY NextSound, UsesSound, ShownSound
  <1>3. Shown => ShownIsAsked
    <2> SUFFICES ASSUME Shown, cli.phase = "done"
                 PROVE  ShownIsAsked
      BY DEF ShownIsAsked
    <2>1. PICK c, q : c = cli /\ q = call.req
      OBVIOUS
    <2>2. Asking(c, q) /\ c.phase = "done"
      BY <2>1 DEF Shown
    <2>3. Complete(c) /\ (c.cmd.cmd = "list" => PagesAsked(c))
      BY <2>2 DEF Asking
    <2>4. c.cmd.cmd = "list" =>
             /\ \A k \in DOMAIN c.pages : IsAsked(Heeded(c.cmd), c.ns, c.pages[k])
             /\ \A k, l \in DOMAIN c.pages : k < l => c.pages[k] > c.pages[l]
      BY <2>3 DEF PagesAsked, Descending
    <2>5. c.cmd.cmd \in {"describe", "logs"} /\ c.outcome \in {"ok", "running"} =>
             /\ IsAsked(c.cmd, c.ns, c.found)
             /\ c.cmd.uid = <<>> =>
                   /\ \A i \in c.scope : IsAsked(c.cmd, c.ns, i) => i <= c.found
                   /\ c.title[Value \o <<"metadata", "name">>] = c.cmd.name
             /\ c.cmd.cmd = "logs" => (c.outcome = "running" <=> End(Rows[c.found]).t = "null")
             /\ c.log \in {0, c.found}
      BY <2>3, Zenon DEF Complete, FoundAsked
    <2>6. c.outcome = "notfound" =>
             SearchesInVain(c.cmd) \/ ~\E i \in c.scope : IsAsked(c.cmd, c.ns, i)
      BY <2>3 DEF Complete
    <2> QED BY <2>1, <2>4, <2>5, <2>6, Zenon DEF ShownIsAsked
  <1> QED BY <1>1, <1>2, <1>3, PTL DEF Spec
=============================================================================
