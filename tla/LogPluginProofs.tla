--------------------------- MODULE LogPluginProofs ---------------------------
(***************************************************************************)
(* Proofs about the log plugin, for any containers, configurations and     *)
(* bounds: what an answer shows is of the run, in order, and complete      *)
(* unless it says otherwise.                                               *)
(***************************************************************************)
EXTENDS LogPlugin, RankLemmas, FiniteSetTheorems, TLAPS

----------------------------------------------------------------------------
(* The inductive invariant                                                 *)

Names   == Steps \cup {"log"}
LineSet == [run : {"mine", "other"}, step : Names, n : Nat, at : Nat]
Texts   == [head : Names \cup {"error"}] \cup [cut : LineSet]
Items   == LineSet \cup Texts

Records == [exists : BOOLEAN, completed : Nat]
Busy    == [pc : {"check", "loki", "blob", "splunk", "write", "part", "poll", "fetch"},
            via : {"grpc", "http"}, rec : Records, parts : Seq(LineSet),
            out : Seq(Items), seen : SUBSET LineSet, ticks : 0..PollTicks]

Statuses == {"none", "OK", "InvalidArgument", "Denied", "NotFound", "Internal",
             "Unimplemented"}
Answers  == [status : Statuses, via : {"grpc", "http"}, out : Seq(Items),
             seen : SUBSET LineSet, end : Nat]

Shapes ==
    /\ setup \in Setup /\ kind \in Searched \cup Legacy \cup {"CustomRun"}
    /\ server \in {"down", "off", "on", "exited"}
    /\ clock \in 1..MaxTime
    /\ completed \in 0..clock
    /\ written \in [Names -> 0..MaxLines]
    /\ stored \subseteq LineSet /\ IsFiniteSet(stored) /\ \A l \in stored : l.at \in 1..clock
    /\ rec \in Records /\ rec.completed \in {0, completed}
    /\ job \in [state : {"none", "RUNNING", "DONE", "FAILED"}, rows : Seq(LineSet)]
    /\ req \in {Idle} \cup Busy
    /\ answer \in Answers
    /\ faults \in 0..MaxFaults

\* The lines of a container are numbered in the order of their arrival; the log
\* of the old API has one.
Delivered ==
    /\ \A l \in Mine : /\ l.n \in 1..Cardinality({k \in Mine : k.step = l.step})
                       /\ l.n <= written[l.step]
    /\ \A a, b \in Mine : a.step = b.step => /\ a.n = b.n => a = b
                                             /\ a.n < b.n => a.at <= b.at
    /\ kind \in Legacy => written["log"] <= 1 /\ \A l \in Mine : l.step = "log"

\* Which steps a request takes with which back end.
PhasesOf(type) == CASE type = "loki"   -> {"check", "loki", "write"}
                    [] type = "blob"   -> {"check", "blob", "part"}
                    [] type = "splunk" -> {"check", "splunk", "poll", "fetch", "write"}
                    [] type = "file"   -> {"check"}

Phase ==
    /\ server = "on" => setup.type # "file"
    /\ req # Idle => /\ req.pc \in PhasesOf(setup.type)
                     /\ req.rec.exists <=> req.pc # "check"
                     /\ req.pc \notin {"part", "write"} => req.out = <<>>
                     /\ req.seen \subseteq Mine
    /\ job.state # "none" => setup.type = "splunk" /\ req # Idle /\ req.pc \in {"poll", "fetch", "write"}
    /\ req.pc = "fetch" => job.state = "DONE"

\* One line may come after another in an answer.
Follows(a, b) ==
    /\ a # b
    /\ setup.type # "splunk" /\ a.step = b.step /\ a.at # b.at => a.n < b.n

Own(out)     == \A i \in LinesIn(out) : out[i] \in Mine
Ordered(out) == \A i, j \in LinesIn(out) : i < j => Follows(out[i], out[j])

Has(out, l)   == \E i \in DOMAIN out : out[i] = l
BrokenOff(out) == \E i \in DOMAIN out : "cut" \in DOMAIN out[i]

\* The request may be answered with out, if it is owed a complete answer.
Owed == /\ setup.type = "loki" => Cardinality(req.seen) <= Limit
        /\ setup.type = "blob" => kind # "TaskRunV1Beta1"
Covers(out) == Owed /\ ~BrokenOff(out) => \A l \in req.seen : Window(l) => Has(out, l)

OutSound ==
    req # Idle => /\ Own(req.out) /\ Ordered(req.out)
                  /\ req.pc = "write" => Covers(req.out)

JobSound ==
    job.state = "DONE" =>
        /\ \A i \in DOMAIN job.rows : job.rows[i] \in Mine
        /\ \A i, j \in DOMAIN job.rows : i # j => job.rows[i] # job.rows[j]
        /\ \A l \in req.seen : Window(l) => Has(job.rows, l)

\* The parts still to be read continue what was written and complete it.
PartsFollow ==
    \/ /\ \A i \in DOMAIN req.parts : req.parts[i] \in Mine
       /\ \A i, j \in DOMAIN req.parts : i < j => Follows(req.parts[i], req.parts[j])
       /\ \A i \in LinesIn(req.out), j \in DOMAIN req.parts : Follows(req.out[i], req.parts[j])
    \/ req.parts = LogPath /\ LinesIn(req.out) = {}

PartsCover ==
    kind # "TaskRunV1Beta1" /\ ~BrokenOff(req.out) =>
        \A l \in req.seen :
            \/ Has(req.out, l)
            \/ \E j \in DOMAIN req.parts : req.parts[j].step = l.step /\ req.parts[j].n = l.n

PartsSound == req.pc = "part" => PartsFollow /\ PartsCover

IInv ==
    /\ Shapes /\ Delivered
    /\ Phase /\ OutSound /\ JobSound /\ PartsSound
    /\ OwnLinesInOrder /\ CompleteAnswer
----------------------------------------------------------------------------
(* The operators                                                           *)

\* mergeLogParts has the parts of the listing, once each, and those of one
\* container in the order of the listing.
LEMMA MergedParts ==
    ASSUME NEW T, NEW paths \in Seq(T)
    PROVE  /\ mergeLogParts(paths) \in Seq(T) /\ DOMAIN mergeLogParts(paths) = DOMAIN paths
           /\ \E f \in [DOMAIN paths -> DOMAIN paths] :
                 /\ \A k \in DOMAIN paths : mergeLogParts(paths)[k] = paths[f[k]]
                 /\ \A i \in DOMAIN paths : \E k \in DOMAIN paths : f[k] = i
                 /\ \A k, l \in DOMAIN paths :
                       k < l => /\ f[k] # f[l]
                                /\ paths[f[k]].step = paths[f[l]].step => f[k] < f[l]
  <1> DEFINE D == DOMAIN paths
             first(i) == Min({j \in D : paths[j].step = paths[i].step})
             fs == [i \in D |-> first(i)]
             before(i) == {j \in D : first(j) < first(i) \/ (first(j) = first(i) /\ j < i)}
             R == {e \in D \X D : fs[e[1]] < fs[e[2]] \/ (fs[e[1]] = fs[e[2]] /\ e[1] < e[2])}
             n == Len(paths)
             f == [k \in D |-> CHOOSE i \in D : Cardinality(before(i)) = k - 1]
  <1>1. n \in Nat /\ D = 1..n /\ IsFiniteSet(D) /\ Cardinality(D) = n
    BY Interval
  <1>2. \A i \in D : fs[i] \in D
    <2> SUFFICES ASSUME NEW i \in D PROVE fs[i] \in D
      OBVIOUS
    <2> DEFINE P == {j \in D : paths[j].step = paths[i].step}
    <2>1. P \subseteq 1..n /\ i \in P
      BY <1>1
    <2>2. P # {}
      BY <2>1
    <2>3. Min(P) \in P
      <3> HIDE DEF P, n
      <3> QED BY <1>1, <2>1, <2>2, FirstPosition
    <2>4. fs[i] = Min(P)
      OBVIOUS
    <2>5. P \subseteq D
      OBVIOUS
    <2> HIDE DEF P, fs
    <2> QED BY <2>3, <2>4, <2>5
  <1>3. \A i, j \in D : paths[i].step = paths[j].step => fs[i] = fs[j]
    <2> SUFFICES ASSUME NEW i \in D, NEW j \in D, paths[i].step = paths[j].step
                 PROVE  fs[i] = fs[j]
      OBVIOUS
    <2>1. {l \in D : paths[l].step = paths[i].step} = {l \in D : paths[l].step = paths[j].step}
      OBVIOUS
    <2> QED BY <2>1
  <1>4. \A i, j \in D : <<i, j>> \in R <=> (fs[i] < fs[j] \/ (fs[i] = fs[j] /\ i < j))
    BY DEF R
  <1>5. \A i \in D : i \in Int /\ fs[i] \in Int
    <2> HIDE DEF fs
    <2> QED BY <1>1, <1>2
  <1>6. \A i \in D : before(i) = {j \in D : <<j, i>> \in R}
    <2>1. \A i \in D : first(i) = fs[i]
      OBVIOUS
    <2>2. \A i \in D : \A j \in D :
             (first(j) < first(i) \/ (first(j) = first(i) /\ j < i)) <=> <<j, i>> \in R
      <3> HIDE DEF first, fs, R, D
      <3> QED BY <1>4, <2>1
    <2> HIDE DEF first, R, D
    <2> QED BY <2>2
  <1>t. /\ \A i \in D : <<i, i>> \notin R
        /\ \A i, j \in D : i # j => <<i, j>> \in R \/ <<j, i>> \in R
        /\ \A i, j, k \in D : <<i, j>> \in R /\ <<j, k>> \in R => <<i, k>> \in R
    <2> HIDE DEF R, fs, D, n
    <2> QED BY <1>4, <1>5
  <1>7. mergeLogParts(paths) = [k \in D |-> paths[f[k]]]
    BY DEF mergeLogParts
  <1>8. /\ f \in [D -> D]
        /\ \A i \in D : \E k \in D : f[k] = i
        /\ \A k, l \in D : k < l => <<f[k], f[l]>> \in R /\ f[k] # f[l]
    <2>1. \A k \in D : f[k] \in D /\ Cardinality({j \in D : <<j, f[k]>> \in R}) = k - 1
      <3> SUFFICES ASSUME NEW k \in D
                   PROVE  f[k] \in D /\ Cardinality({j \in D : <<j, f[k]>> \in R}) = k - 1
        OBVIOUS
      <3>1. PICK i \in D : Cardinality({j \in D : <<j, i>> \in R}) = k - 1
        <4>1. k \in 1..Cardinality(D) /\ IsFiniteSet(D)
          BY <1>1
        <4> HIDE DEF R, D
        <4>2. \A m \in 1..Cardinality(D) : \E i \in D : Cardinality({j \in D : <<j, i>> \in R}) = m - 1
          BY ONLY <1>t, <4>1, Ranks, ZenonT(60)
        <4> QED BY ONLY <4>1, <4>2
      <3>2. Cardinality(before(i)) = k - 1
        BY <1>6, <3>1
      <3>3. f[k] = CHOOSE x \in D : Cardinality(before(x)) = k - 1
        OBVIOUS
      <3>4. f[k] \in D /\ Cardinality(before(f[k])) = k - 1
        <4> HIDE DEF before, f
        <4> QED BY <3>2, <3>3
      <3>5. before(f[k]) = {j \in D : <<j, f[k]>> \in R}
        <4> HIDE DEF before, f, R
        <4> QED BY <1>6, <3>4
      <3> QED BY ONLY <3>4, <3>5
    <2> HIDE DEF before
    <2>2. f \in [D -> D]
      <3>1. f = [k \in D |-> f[k]]
        OBVIOUS
      <3> HIDE DEF f
      <3> QED BY <2>1, <3>1
    <2> HIDE DEF f, R
    <2>3. /\ f \in [1..Cardinality(D) -> D]
          /\ \A k \in 1..Cardinality(D) : Cardinality({j \in D : <<j, f[k]>> \in R}) = k - 1
      BY <1>1, <2>1, <2>2
    <2>f. IsFiniteSet(D)
      BY <1>1
    <2> HIDE DEF D
    <2>4. /\ \A i \in D : \E k \in 1..Cardinality(D) : f[k] = i
          /\ \A k, l \in 1..Cardinality(D) : k < l => <<f[k], f[l]>> \in R /\ f[k] # f[l]
      BY ONLY <1>t, <2>3, <2>f, RankOrder
    <2> HIDE DEF n
    <2> QED BY <1>1, <2>2, <2>4
  <1>9. \A k, l \in D : k < l /\ paths[f[k]].step = paths[f[l]].step => f[k] < f[l]
    <2> SUFFICES ASSUME NEW k \in D, NEW l \in D, k < l, paths[f[k]].step = paths[f[l]].step
                 PROVE  f[k] < f[l]
      OBVIOUS
    <2> HIDE DEF f, R, fs
    <2>1. <<f[k], f[l]>> \in R /\ f[k] \in D /\ f[l] \in D
      BY <1>8
    <2>2. fs[f[k]] = fs[f[l]]
      BY <1>3, <2>1
    <2>3. fs[f[k]] \in Int /\ fs[f[l]] \in Int
      BY <1>5, <2>1
    <2> QED BY <1>4, <2>1, <2>2, <2>3
  <1> HIDE DEF f
  <1>10. /\ mergeLogParts(paths) \in Seq(T) /\ DOMAIN mergeLogParts(paths) = D
         /\ \A k \in D : mergeLogParts(paths)[k] = paths[f[k]]
    BY <1>1, <1>7, <1>8
  <1>11. /\ f \in [D -> D]
         /\ \A k \in D : mergeLogParts(paths)[k] = paths[f[k]]
         /\ \A i \in D : \E k \in D : f[k] = i
         /\ \A k, l \in D :
               k < l => f[k] # f[l] /\ (paths[f[k]].step = paths[f[l]].step => f[k] < f[l])
    <2> HIDE DEF R
    <2> QED BY <1>8, <1>9, <1>10
  <1> QED BY <1>10, <1>11

\* WithHeaders has every row once, in their order, and nothing else but headers.
LEMMA HeadedRows ==
    ASSUME NEW rows \in Seq(LineSet)
    PROVE  /\ WithHeaders(rows) \in Seq(Items)
           /\ \A i \in DOMAIN rows : Has(WithHeaders(rows), rows[i])
           /\ \A k \in LinesIn(WithHeaders(rows)) : \E i \in DOMAIN rows : WithHeaders(rows)[k] = rows[i]
           /\ (\A i, j \in DOMAIN rows : i # j => rows[i] # rows[j])
                 => \A k, l \in LinesIn(WithHeaders(rows)) :
                       k # l => WithHeaders(rows)[k] # WithHeaders(rows)[l]
  <1> DEFINE D == DOMAIN rows
             starts == {i \in D : i = 1 \/ rows[i - 1].step # rows[i].step}
             upto(i) == {j \in starts : j <= i}
             place(i) == i + Cardinality(upto(i))
             pl == [i \in D |-> place(i)]
             from(k) == {i \in D : place(i) >= k}
             next(k) == Min(from(k))
             nx == [k \in 1..(Len(rows) + Cardinality(starts)) |-> next(k)]
             n == Len(rows)
             m == n + Cardinality(starts)
             w == WithHeaders(rows)
  <1>1. n \in Nat /\ D = 1..n /\ starts \subseteq 1..n
    OBVIOUS
  <1>2. IsFiniteSet(starts) /\ Cardinality(starts) \in Nat /\ m \in Nat
    <2>1. IsFiniteSet(1..n)
      BY <1>1, Interval
    <2>2. IsFiniteSet(starts) /\ Cardinality(starts) \in Nat
      <3> HIDE DEF starts, n
      <3> QED BY <1>1, <2>1, FewerElements
    <2> HIDE DEF starts, n
    <2> QED BY <1>1, <2>2
  <1>3. \A i \in D : Cardinality(upto(i)) \in Nat /\ Cardinality(upto(i)) <= Cardinality(starts)
    <2> SUFFICES ASSUME NEW i \in D
                 PROVE  Cardinality(upto(i)) \in Nat /\ Cardinality(upto(i)) <= Cardinality(starts)
      OBVIOUS
    <2>1. upto(i) \subseteq starts
      OBVIOUS
    <2> HIDE DEF upto, starts
    <2> QED BY <1>2, <2>1, FewerElements
  <1>4. \A i \in D : pl[i] \in 1..m
    <2> SUFFICES ASSUME NEW i \in D PROVE i + Cardinality(upto(i)) \in 1..m
      OBVIOUS
    <2> HIDE DEF upto, starts
    <2> QED BY <1>1, <1>2, <1>3
  <1>5. \A i, j \in D : i < j => pl[i] < pl[j]
    <2> SUFFICES ASSUME NEW i \in D, NEW j \in D, i < j
                 PROVE  i + Cardinality(upto(i)) < j + Cardinality(upto(j))
      OBVIOUS
    <2>1. upto(i) \subseteq upto(j)
      BY <1>1
    <2>2. IsFiniteSet(upto(j))
      <3>1. upto(j) \subseteq starts
        OBVIOUS
      <3> HIDE DEF upto, starts
      <3> QED BY <1>2, <3>1, FewerElements
    <2> HIDE DEF upto, starts
    <2>3. Cardinality(upto(i)) <= Cardinality(upto(j))
      BY <2>1, <2>2, FewerElements
    <2> QED BY <1>1, <1>3, <2>3
  <1>6. \A k \in 1..m : nx[k] \in D /\ pl[nx[k]] >= k /\ \A i \in D : pl[i] >= k => nx[k] <= i
    <2> SUFFICES ASSUME NEW k \in 1..m
                 PROVE  nx[k] \in D /\ pl[nx[k]] >= k /\ \A i \in D : pl[i] >= k => nx[k] <= i
      OBVIOUS
    <2> DEFINE F == {i \in D : pl[i] >= k}
    <2>1. F = from(k) /\ nx[k] = next(k)
      OBVIOUS
    <2>2. F \subseteq 1..n
      BY <1>1
    <2>3. F # {}
      <3>1. n # 0
        <4>1. SUFFICES ASSUME n = 0 PROVE FALSE
          OBVIOUS
        <4>2. starts = {}
          BY <1>1, <4>1
        <4>3. Cardinality(starts) = 0
          <5> HIDE DEF starts
          <5> QED BY <4>2, FS_EmptySet
        <4>4. m = 0
          BY <4>1, <4>3
        <4> HIDE DEF m
        <4> QED BY <4>4
      <3>2. n \in D
        BY <1>1, <3>1
      <3>3. upto(n) = starts
        BY <1>1
      <3>4. pl[n] = n + Cardinality(upto(n))
        BY <3>2
      <3>5. pl[n] = m
        <4> HIDE DEF upto, starts, pl
        <4> QED BY <3>3, <3>4
      <3>6. n \in F
        <4> HIDE DEF pl, m
        <4> QED BY <1>2, <3>2, <3>5
      <3> QED BY <3>6
    <2>4. Min(F) \in F /\ \A j \in F : Min(F) <= j
      <3> HIDE DEF F, n
      <3> QED BY <1>1, <2>2, <2>3, FirstPosition
    <2>5. nx[k] = Min(F)
      BY <2>1
    <2> HIDE DEF nx, pl
    <2> QED BY <2>4, <2>5
  <1>7. w = [k \in 1..m |-> IF pl[nx[k]] = k THEN rows[nx[k]] ELSE Header(rows[nx[k]].step)]
    <2>1. w = [k \in 1..m |-> IF place(next(k)) = k THEN rows[next(k)] ELSE Header(rows[next(k)].step)]
      BY DEF WithHeaders
    <2>2. \A k \in 1..m : next(k) = nx[k] /\ nx[k] \in D
      BY <1>6
    <2>3. \A i \in D : place(i) = pl[i]
      OBVIOUS
    <2>4. ASSUME NEW k \in 1..m
          PROVE  (IF place(next(k)) = k THEN rows[next(k)] ELSE Header(rows[next(k)].step))
                   = IF pl[nx[k]] = k THEN rows[nx[k]] ELSE Header(rows[nx[k]].step)
      <3>1. next(k) = nx[k] /\ place(nx[k]) = pl[nx[k]]
        <4> HIDE DEF place, next, pl, nx
        <4> QED BY <2>2, <2>3
      <3>2. place(next(k)) = place(nx[k])
        BY ONLY <3>1
      <3> HIDE DEF place, next, pl, nx
      <3> QED BY <3>1, <3>2
    <2> HIDE DEF place, next, pl, nx, m, w
    <2> QED BY <2>1, <2>4, Zenon
  <1> HIDE DEF w, pl, nx, m, n, starts, place, next
  <1>8. \A k \in 1..m : IF pl[nx[k]] = k THEN w[k] = rows[nx[k]]
                        ELSE w[k] = Header(rows[nx[k]].step)
    BY <1>7
  <1>9. \A i \in D : rows[i] \in LineSet /\ rows[i].step \in Names /\ Header(rows[i].step) \in Items
                     /\ IsLine(rows[i])
    <2>1. \A i \in D : rows[i] \in LineSet
      OBVIOUS
    <2>2. \A l \in LineSet : l.step \in Names /\ Header(l.step) \in Items /\ IsLine(l)
      BY DEF LineSet, Items, Texts, Header, IsLine
    <2> QED BY <2>1, <2>2
  <1>10. w \in [1..m -> Items]
    <2>1. \A k \in 1..m : w[k] \in Items
      BY <1>6, <1>8, <1>9 DEF Items
    <2> QED BY <1>7, <2>1
  <1>11. w \in Seq(Items) /\ DOMAIN w = 1..m
    BY <1>2, <1>10
  <1>12. \A i \in D : w[pl[i]] = rows[i]
    <2> SUFFICES ASSUME NEW i \in D PROVE w[pl[i]] = rows[i]
      OBVIOUS
    <2> DEFINE k == pl[i]
    <2>1. k \in 1..m /\ k \in Int
      BY <1>2, <1>4
    <2>2. nx[k] \in D /\ pl[nx[k]] >= k /\ nx[k] <= i
      BY <1>6, <2>1
    <2>3. nx[k] = i
      <3>1. SUFFICES ASSUME nx[k] # i PROVE FALSE
        OBVIOUS
      <3>2. nx[k] < i
        BY <1>1, <2>2, <3>1
      <3>3. pl[nx[k]] < pl[i]
        BY <1>5, <2>2, <3>2
      <3>4. pl[nx[k]] \in Int
        BY <1>2, <1>4, <2>2
      <3> QED BY <2>1, <2>2, <3>3, <3>4
    <2> QED BY <1>8, <2>1, <2>3
  <1>13. \A k \in LinesIn(w) : k \in 1..m /\ pl[nx[k]] = k /\ nx[k] \in D /\ w[k] = rows[nx[k]]
    <2> SUFFICES ASSUME NEW k \in LinesIn(w)
                 PROVE  k \in 1..m /\ pl[nx[k]] = k /\ nx[k] \in D /\ w[k] = rows[nx[k]]
      OBVIOUS
    <2>1. k \in 1..m /\ IsLine(w[k])
      BY <1>11 DEF LinesIn
    <2>2. w[k] # Header(rows[nx[k]].step)
      BY <2>1 DEF IsLine, Header
    <2> QED BY <1>6, <1>8, <2>1, <2>2
  <1>14. \A i \in D : Has(w, rows[i])
    BY <1>4, <1>11, <1>12 DEF Has
  <1>15. ASSUME \A i, j \in D : i # j => rows[i] # rows[j],
                NEW k \in LinesIn(w), NEW l \in LinesIn(w), k # l
         PROVE  w[k] # w[l]
    <2>1. nx[k] # nx[l]
      BY <1>13, <1>15
    <2> QED BY <1>13, <1>15, <2>1
  <1> QED BY <1>11, <1>13, <1>14, <1>15 DEF w

----------------------------------------------------------------------------
(* The end of a request                                                    *)

\* What an answer is made of can be told apart.
LEMMA ItemShapes ==
    /\ \A l \in LineSet : IsLine(l) /\ "cut" \notin DOMAIN l
    /\ \A x \in Texts : ~IsLine(x)
    /\ \A s : ~IsLine(Header(s)) /\ "cut" \notin DOMAIN Header(s)
    /\ \A l : ~IsLine(Cut(l)) /\ "cut" \in DOMAIN Cut(l)
    /\ ErrorText \in Items /\ ~IsLine(ErrorText)
  BY DEF LineSet, Texts, Items, IsLine, Header, Cut, ErrorText

\* An answer is sound if what is written is, and either it does not claim to be
\* complete or it is.
LEMMA Responded ==
    ASSUME Shapes, req \in Busy,
           NEW status \in Statuses, NEW out \in Seq(Items), Own(out), Ordered(out),
           \/ status # "OK" \/ req.via = "grpc" \/ Has(out, ErrorText)
           \/ Covers(out),
           Respond(status, out), UNCHANGED <<setup, kind>>
    PROVE  req' = Idle /\ job' = NoJob /\ answer' \in Answers /\ OwnLinesInOrder' /\ CompleteAnswer'
  <1>1. /\ req' = Idle /\ job' = NoJob
        /\ answer' = [status |-> status, via |-> req.via, out |-> out, seen |-> req.seen,
                      end |-> req.rec.completed]
    BY DEF Respond
  <1>2. answer' \in Answers
    BY <1>1 DEF Answers, Busy, Records
  <1>3. /\ answer'.out = out /\ answer'.status = status /\ answer'.via = req.via
        /\ answer'.seen = req.seen /\ answer'.end = req.rec.completed
    BY <1>1
  <1>4. OwnLinesInOrder'
    <2>1. /\ \A i \in LinesIn(out) : out[i].run = "mine"
          /\ \A i, j \in LinesIn(out) :
                i < j => /\ out[i] # out[j]
                         /\ setup.type # "splunk" /\ out[i].step = out[j].step /\ out[i].at # out[j].at
                              => out[i].n < out[j].n
      BY DEF Own, Ordered, Follows, Mine
    <2> QED BY <1>3, <2>1 DEF OwnLinesInOrder, LinesIn
  <1>5. CompleteAnswer'
    <2>1. SUFFICES ASSUME status = "OK", req.via = "http",
                          \A i \in DOMAIN out : out[i] # ErrorText /\ "cut" \notin DOMAIN out[i],
                          Owed,
                          NEW l \in req.seen, l.at <= req.rec.completed + Delay
                   PROVE  Contains(out, l)
      BY <1>3 DEF CompleteAnswer, Owed
    <2>2. ~Has(out, ErrorText) /\ ~BrokenOff(out)
      BY <2>1 DEF Has, BrokenOff
    <2>3. Has(out, l)
      BY <2>1, <2>2 DEF Covers, Window
    <2> QED BY <2>3 DEF Has, Contains
  <1> QED BY <1>1, <1>2, <1>4, <1>5

\* A request that ends with what is sound has a sound answer.
LEMMA Finished ==
    ASSUME Shapes, req \in Busy, NEW failed \in BOOLEAN,
           NEW out \in Seq(Items), Own(out), Ordered(out), failed \/ Covers(out),
           Finish(failed, out), UNCHANGED <<setup, kind>>
    PROVE  req' = Idle /\ job' = NoJob /\ answer' \in Answers /\ OwnLinesInOrder' /\ CompleteAnswer'
  <1> DEFINE Sound(o) == o \in Seq(Items) /\ Own(o) /\ Ordered(o)
  <1>1. Sound(Append(out, ErrorText)) /\ Has(Append(out, ErrorText), ErrorText)
    <2> DEFINE o == Append(out, ErrorText)
    <2>1. /\ o \in Seq(Items) /\ Len(o) = Len(out) + 1 /\ DOMAIN out = 1..Len(out) /\ Len(out) \in Nat
          /\ DOMAIN o = 1..Len(o)
          /\ \A i \in DOMAIN out : o[i] = out[i]
          /\ o[Len(o)] = ErrorText
      BY ItemShapes
    <2> HIDE DEF o
    <2>2. LinesIn(o) = LinesIn(out)
      <3>1. Len(o) \notin LinesIn(o)
        BY <2>1, ItemShapes DEF LinesIn
      <3> QED BY <2>1, <3>1 DEF LinesIn
    <2>3. \A i \in LinesIn(out) : o[i] = out[i]
      BY <2>1 DEF LinesIn
    <2>4. Own(o) /\ Ordered(o)
      BY <2>2, <2>3 DEF Own, Ordered
    <2>5. Has(o, ErrorText)
      BY <2>1 DEF Has
    <2> QED BY <2>1, <2>4, <2>5 DEF o
  <1>2. Sound(<<ErrorText>>)
    <2>1. <<ErrorText>> \in Seq(Items) /\ LinesIn(<<ErrorText>>) = {}
      BY ItemShapes DEF LinesIn
    <2> QED BY <2>1 DEF Own, Ordered
  <1>3. "OK" \in Statuses /\ "Internal" \in Statuses /\ "Internal" # "OK"
    BY DEF Statuses
  <1>4. req.via \in {"grpc", "http"}
    BY DEF Busy
  <1>5. CASE failed /\ req.via = "http" /\ out = <<>>
    <2>1. Respond("Internal", <<ErrorText>>)
      BY <1>5 DEF Finish
    <2> QED BY <1>2, <1>3, <2>1, Responded
  <1>6. CASE failed /\ req.via = "http" /\ out # <<>>
    <2>1. Respond("OK", Append(out, ErrorText))
      BY <1>6 DEF Finish
    <2> QED BY <1>1, <1>3, <2>1, Responded
  <1>7. CASE ~(failed /\ req.via = "http")
    <2>1. Respond("OK", out)
      BY <1>7 DEF Finish
    <2>2. req.via = "grpc" \/ Covers(out)
      BY <1>4, <1>7
    <2> QED BY <1>3, <2>1, <2>2, Responded
  <1> QED BY <1>5, <1>6, <1>7

\* An empty answer is sound.
LEMMA NothingWritten ==
    <<>> \in Seq(Items) /\ LinesIn(<<>>) = {} /\ Own(<<>>) /\ Ordered(<<>>)
  BY DEF LinesIn, Own, Ordered

\* Faults are counted up to their bound.
LEMMA FaultsBounded ==
    ASSUME Shapes, Fault \/ UNCHANGED faults
    PROVE  faults' \in 0..MaxFaults
  BY PluginAssumption DEF Shapes, Fault

\* Once a request is over nothing is left of it but its answer.
LEMMA Over ==
    ASSUME IInv, req' = Idle, job' = NoJob, answer' \in Answers, OwnLinesInOrder', CompleteAnswer',
           UNCHANGED <<setup, server, kind, environment>>, faults' \in 0..MaxFaults
    PROVE  IInv'
  <1>1. UNCHANGED <<clock, completed, written, stored, rec>>
    BY DEF environment
  <1>2. Mine' = Mine
    BY <1>1 DEF Mine
  <1>3. Shapes'
    <2>1. NoJob \in [state : {"none", "RUNNING", "DONE", "FAILED"}, rows : Seq(LineSet)]
      BY DEF NoJob
    <2> QED BY <1>1, <2>1 DEF IInv, Shapes
  <1>4. Delivered'
    BY <1>1, <1>2 DEF IInv, Delivered
  <1>5. job'.state = "none" /\ req'.pc = "idle"
    BY DEF NoJob, Idle
  <1>6. Phase' /\ OutSound' /\ JobSound' /\ PartsSound'
    BY <1>5 DEF IInv, Phase, OutSound, JobSound, PartsSound
  <1> QED BY <1>3, <1>4, <1>6 DEF IInv

\* A request in progress.
LEMMA InProgress ==
    ASSUME IInv, req.pc # "idle"
    PROVE  /\ req \in Busy /\ req # Idle
           /\ Own(req.out) /\ Ordered(req.out)
  <1>1. req # Idle /\ req \in Busy
    BY DEF IInv, Shapes, Idle
  <1> QED BY <1>1 DEF IInv, OutSound

----------------------------------------------------------------------------
(* The run, the forwarder and the watcher                                  *)

\* The invariant holds initially and is preserved by each action.
LEMMA InitSound == Init => IInv
  <1> SUFFICES ASSUME Init PROVE IInv
    OBVIOUS
  <1>1. IsFiniteSet(Foreign) /\ Foreign \subseteq LineSet /\ \A l \in Foreign : l.at = 1 /\ l.run = "other"
    <2> DEFINE f == [s \in Steps |-> Line("other", s, 1, 1)]
    <2>1. f \in Surjection(Steps, Foreign)
      BY DEF Surjection, Foreign
    <2>2. IsFiniteSet(Foreign)
      <3> HIDE DEF f
      <3> QED BY <2>1, FS_Surjection, PluginAssumption
    <2>3. \A s \in Steps : /\ Line("other", s, 1, 1) \in LineSet
                           /\ Line("other", s, 1, 1).at = 1 /\ Line("other", s, 1, 1).run = "other"
      BY DEF Line, LineSet, Names
    <2> QED BY <2>2, <2>3 DEF Foreign
  <1>2. Mine = {}
    BY <1>1 DEF Init, Mine
  <1>3. NoAnswer \in Answers /\ NoRecord \in Records
        /\ NoJob \in [state : {"none", "RUNNING", "DONE", "FAILED"}, rows : Seq(LineSet)]
    BY DEF NoAnswer, NoJob, NoRecord, Answers, Statuses, Records
  <1>4. Shapes
    <2>1. setup \in Setup /\ kind \in Searched \cup Legacy \cup {"CustomRun"}
      BY PluginAssumption DEF Init
    <2>2. written \in [Names -> 0..MaxLines]
      BY PluginAssumption DEF Init, Names
    <2>3. rec.completed \in {0, completed}
      BY DEF Init, NoRecord
    <2> QED BY <1>1, <1>3, <2>1, <2>2, <2>3, PluginAssumption DEF Init, Shapes
  <1>5. Delivered
    <2>1. written["log"] = 0
      BY DEF Init
    <2> QED BY <1>2, <2>1 DEF Delivered
  <1>6. req = Idle /\ req.pc = "idle" /\ job.state = "none" /\ server = "down"
    BY DEF Init, Idle, NoJob
  <1>7. Phase /\ OutSound /\ JobSound /\ PartsSound
    BY <1>6 DEF Phase, OutSound, JobSound, PartsSound
  <1>8. OwnLinesInOrder /\ CompleteAnswer
    <2>1. answer.out = <<>> /\ answer.status = "none"
      BY DEF Init, NoAnswer
    <2> QED BY <2>1 DEF OwnLinesInOrder, CompleteAnswer, LinesIn
  <1> QED BY <1>4, <1>5, <1>7, <1>8 DEF IInv

\* What a request has, and what it has been answered, stays sound while lines
\* arrive.
LEMMA Arrivals ==
    ASSUME IInv, UNCHANGED <<setup, server, kind, job, req, answer>>, Mine \subseteq Mine'
    PROVE  Phase' /\ OutSound' /\ JobSound' /\ PartsSound' /\ OwnLinesInOrder' /\ CompleteAnswer'
  <1>1. Phase'
    BY DEF IInv, Phase
  <1>2. OutSound'
    <2>1. Own(req.out) => Own(req.out)'
      BY DEF Own, LinesIn
    <2>2. Ordered(req.out) => Ordered(req.out)'
      BY DEF Ordered, LinesIn, Follows
    <2>3. Covers(req.out) => Covers(req.out)'
      BY DEF Covers, Owed, BrokenOff, Has, Window
    <2> QED BY <2>1, <2>2, <2>3 DEF IInv, OutSound
  <1>3. JobSound'
    BY DEF IInv, JobSound, Window, Has
  <1>4. PartsSound'
    <2>1. PartsFollow => PartsFollow'
      BY DEF PartsFollow, Follows, LinesIn, LogPath
    <2>2. PartsCover => PartsCover'
      BY DEF PartsCover, BrokenOff, Has
    <2> QED BY <2>1, <2>2 DEF IInv, PartsSound
  <1>5. OwnLinesInOrder' /\ CompleteAnswer'
    BY DEF IInv, OwnLinesInOrder, CompleteAnswer, LinesIn
  <1> QED BY <1>1, <1>2, <1>3, <1>4, <1>5

LEMMA TickSound == IInv /\ Tick => IInv'
  <1> SUFFICES ASSUME IInv, Tick PROVE IInv'
    OBVIOUS
  <1>1. Mine' = Mine
    BY DEF Tick, Mine
  <1>2. Shapes'
    <2>1. clock \in 1..MaxTime /\ clock' = clock + 1 /\ clock < MaxTime
      BY DEF IInv, Shapes, Tick
    <2>2. clock' \in 1..MaxTime /\ 0..clock \subseteq 0..clock' /\ 1..clock \subseteq 1..clock'
      BY <2>1, PluginAssumption
    <2> QED BY <2>2 DEF IInv, Shapes, Tick
  <1>3. Delivered'
    BY <1>1 DEF IInv, Delivered, Tick
  <1> QED BY <1>1, <1>2, <1>3, Arrivals DEF IInv, Tick

LEMMA CompleteSound == IInv /\ Complete => IInv'
  <1> SUFFICES ASSUME IInv, Complete PROVE IInv'
    OBVIOUS
  <1>1. Mine' = Mine
    BY DEF Complete, Mine
  <1>2. Shapes'
    <2>1. completed' \in 0..clock /\ rec.completed = 0
      BY PluginAssumption DEF IInv, Shapes, Complete
    <2> QED BY <2>1 DEF IInv, Shapes, Complete
  <1>3. Delivered'
    BY <1>1 DEF IInv, Delivered, Complete
  <1> QED BY <1>1, <1>2, <1>3, Arrivals DEF IInv, Complete

LEMMA ArchiveSound == IInv /\ Archive => IInv'
  <1> SUFFICES ASSUME IInv, Archive PROVE IInv'
    OBVIOUS
  <1>1. Mine' = Mine
    BY DEF Archive, Mine
  <1>2. Shapes'
    <2>1. completed \in Nat
      BY PluginAssumption DEF IInv, Shapes
    <2>2. rec' \in Records /\ rec'.completed = completed
      BY <2>1 DEF Archive, Records
    <2> QED BY <2>2 DEF IInv, Shapes, Archive
  <1>3. Delivered'
    BY <1>1 DEF IInv, Delivered, Archive
  <1> QED BY <1>1, <1>2, <1>3, Arrivals DEF IInv, Archive

\* The bounds on the lines hold for every container.
LEMMA LinesBounded ==
    ASSUME IInv, NEW s \in Names
    PROVE  /\ Cardinality(Lines) < MaxLines => written[s] < MaxLines
           /\ Cardinality(Lines) < 1 => written[s] = 0
  <1>1. /\ written[s] \in 0..MaxLines /\ DOMAIN written = Names
        /\ MaxLines \in Nat \ {0} /\ IsFiniteSet(Names)
    <2>1. IsFiniteSet(Names)
      BY PluginAssumption, FS_AddElement DEF Names
    <2> QED BY <2>1, PluginAssumption DEF IInv, Shapes
  <1> DEFINE L == Lines
             f == [k \in 1..written[s] |-> <<s, k>>]
  <1>2. IsFiniteSet(L)
    <2>1. IsFiniteSet(1..MaxLines)
      BY <1>1, Interval
    <2>2. IsFiniteSet(Names \X (1..MaxLines))
      BY <1>1, <2>1, FS_Product
    <2>3. L \subseteq Names \X (1..MaxLines)
      BY <1>1 DEF Lines
    <2> HIDE DEF L
    <2> QED BY <2>2, <2>3, FewerElements
  <1>3. f \in Injection(1..written[s], L)
    <2>1. \A k \in 1..written[s] : <<s, k>> \in L
      BY <1>1 DEF Lines
    <2> HIDE DEF L
    <2>2. f \in [1..written[s] -> L]
      BY <2>1
    <2> QED BY <2>2 DEF Injection, IsInjective
  <1>4. Cardinality(1..written[s]) <= Cardinality(L)
    <2> HIDE DEF f, L
    <2> QED BY <1>2, <1>3, FS_Injection
  <1>5. Cardinality(1..written[s]) = written[s] /\ written[s] \in Nat
    <2>1. written[s] \in Nat
      BY <1>1
    <2>2. PICK w \in Nat : w = written[s]
      BY <2>1
    <2> QED BY <2>2, Interval
  <1>6. Cardinality(L) \in Nat
    <2> HIDE DEF L
    <2> QED BY <1>2, FS_CardinalityType
  <1> HIDE DEF L
  <1>7. written[s] <= Cardinality(L)
    BY <1>4, <1>5, <1>6
  <1>8. L = Lines
    BY DEF L
  <1> QED BY <1>1, <1>5, <1>6, <1>7, <1>8

LEMMA WriteSound ==
    ASSUME IInv, NEW s \in Containers, Write(s)
    PROVE  IInv'
  <1>1. Mine' = Mine
    BY DEF Write, Mine
  <1>2. s \in Names /\ (kind \in Legacy => s = "log")
    BY DEF Containers, Names
  <1>3. /\ written \in [Names -> 0..MaxLines] /\ written' = [written EXCEPT ![s] = @ + 1]
        /\ MaxLines \in Nat \ {0}
    BY PluginAssumption DEF IInv, Shapes, Write
  <1>4. written[s] < MaxLines /\ (kind \in Legacy => written[s] = 0)
    <2>1. CASE kind \in Legacy
      <3>1. Cardinality(Lines) < 1
        BY <2>1 DEF Write
      <3>2. written[s] = 0
        BY <1>2, <3>1, LinesBounded
      <3> QED BY <1>3, <3>2
    <2>2. CASE kind \notin Legacy
      <3>1. Cardinality(Lines) < MaxLines
        BY <2>2 DEF Write
      <3> QED BY <1>2, <2>2, <3>1, LinesBounded
    <2> QED BY <2>1, <2>2
  <1>5. /\ written' \in [Names -> 0..MaxLines]
        /\ \A c \in Names : written[c] <= written'[c]
        /\ kind \in Legacy => written'["log"] <= 1
    <2>1. written[s] \in 0..MaxLines
      BY <1>2, <1>3
    <2>2. written[s] + 1 \in 0..MaxLines
      BY <1>3, <1>4, <2>1
    <2>3. \A c \in Names : written'[c] = IF c = s THEN written[s] + 1 ELSE written[c]
      BY <1>3
    <2>4. \A c \in Names : written[c] \in 0..MaxLines
      BY <1>3
    <2> QED BY <1>2, <1>3, <1>4, <2>1, <2>2, <2>3, <2>4
  <1>6. Shapes'
    BY <1>5 DEF IInv, Shapes, Write
  <1>7. Delivered'
    <2>1. \A l \in Mine : l.step \in Names /\ l.n \in Nat
      BY DEF IInv, Shapes, Mine, LineSet
    <2>2. \A l \in Mine : l.n <= written'[l.step]
      <3> SUFFICES ASSUME NEW l \in Mine PROVE l.n <= written'[l.step]
        OBVIOUS
      <3>1. l.n <= written[l.step]
        BY DEF IInv, Delivered
      <3>2. written[l.step] \in Int /\ written'[l.step] \in Int
        BY <1>3, <1>5, <2>1
      <3> QED BY <1>5, <2>1, <3>1, <3>2
    <2>3. kind' = kind
      BY DEF Write
    <2> QED BY <1>1, <1>5, <2>2, <2>3 DEF IInv, Delivered
  <1> QED BY <1>1, <1>6, <1>7, Arrivals DEF IInv, Write

LEMMA DeliverSound ==
    ASSUME IInv, NEW s \in Containers, Deliver(s)
    PROVE  IInv'
  <1> DEFINE ofs == {l \in Mine : l.step = s}
             n == Cardinality(ofs)
             new == Line("mine", s, n + 1, clock)
  <1>1. /\ n < written[s] /\ stored' = stored \cup {new}
        /\ UNCHANGED <<setup, server, kind, clock, completed, written, rec, job, req, answer, faults>>
    BY DEF Deliver
  <1>2. s \in Names /\ (kind \in Legacy => s = "log")
    BY DEF Containers, Names
  <1>3. /\ stored \subseteq LineSet /\ IsFiniteSet(stored) /\ \A l \in stored : l.at \in 1..clock
        /\ written[s] \in Nat /\ clock \in Nat \ {0}
    BY <1>2, PluginAssumption DEF IInv, Shapes
  <1>4. ofs \subseteq stored /\ IsFiniteSet(ofs) /\ n \in Nat
    <2>1. ofs \subseteq stored
      BY DEF Mine
    <2> HIDE DEF ofs
    <2> QED BY <1>3, <2>1, FewerElements
  <1> HIDE DEF n
  <1>5. /\ new \in LineSet /\ new.at = clock /\ new.run = "mine" /\ new.step = s /\ new.n = n + 1
    BY <1>2, <1>3, <1>4 DEF Line, LineSet
  <1> HIDE DEF new
  <1>6. Mine' = Mine \cup {new}
    BY <1>1, <1>5 DEF Mine
  <1>7. Shapes'
    <2>1. stored' \subseteq LineSet /\ IsFiniteSet(stored') /\ \A l \in stored' : l.at \in 1..clock
      <3>1. IsFiniteSet(stored')
        BY <1>1, <1>3, FS_AddElement
      <3> QED BY <1>1, <1>3, <1>5, <3>1
    <2> QED BY <1>1, <2>1 DEF IInv, Shapes
  <1>8. /\ \A l \in Mine : l.n \in 1..Cardinality({k \in Mine : k.step = l.step})
        /\ \A l \in Mine : l.n <= written[l.step]
        /\ \A a, b \in Mine : a.step = b.step => /\ a.n = b.n => a = b
                                                 /\ a.n < b.n => a.at <= b.at
        /\ kind \in Legacy => written["log"] <= 1 /\ \A l \in Mine : l.step = "log"
    BY DEF IInv, Delivered
  <1>9. \A l \in Mine : l.step = s => l.n \in 1..n
    <2> SUFFICES ASSUME NEW l \in Mine, l.step = s PROVE l.n \in 1..n
      OBVIOUS
    <2>1. {k \in Mine : k.step = l.step} = ofs
      OBVIOUS
    <2> QED BY <1>8, <2>1 DEF n
  <1>10. new \notin Mine
    BY <1>4, <1>5, <1>9
  <1>11. \A l \in Mine' : l.n \in 1..Cardinality({k \in Mine' : k.step = l.step})
    <2> SUFFICES ASSUME NEW l \in Mine'
                 PROVE  l.n \in 1..Cardinality({k \in Mine' : k.step = l.step})
      OBVIOUS
    <2>1. CASE l.step = s
      <3>1. {k \in Mine' : k.step = l.step} = ofs \cup {new}
        BY <1>5, <1>6, <2>1
      <3>2. Cardinality(ofs \cup {new}) = n + 1
        <4>1. new \notin ofs
          BY <1>10
        <4> HIDE DEF ofs
        <4> QED BY <1>4, <4>1, FS_AddElement DEF n
      <3>3. l.n \in 1..(n + 1)
        BY <1>4, <1>5, <1>6, <1>9, <2>1
      <3> QED BY <3>1, <3>2, <3>3
    <2>2. CASE l.step # s
      <3>1. l \in Mine /\ {k \in Mine' : k.step = l.step} = {k \in Mine : k.step = l.step}
        BY <1>5, <1>6, <2>2
      <3> QED BY <1>8, <3>1
    <2> QED BY <2>1, <2>2
  <1>12. Delivered'
    <2>1. \A l \in Mine' : l.n <= written'[l.step]
      BY <1>1, <1>3, <1>4, <1>5, <1>6, <1>8
    <2>2. \A l \in Mine : l.at <= clock /\ l.at \in Nat /\ l.n \in Nat
      BY <1>3 DEF Mine, LineSet
    <2>3. ASSUME NEW a \in Mine', NEW b \in Mine', a.step = b.step
          PROVE  (a.n = b.n => a = b) /\ (a.n < b.n => a.at <= b.at)
      <3>1. CASE a \in Mine /\ b \in Mine
        BY <1>8, <2>3, <3>1
      <3>2. CASE a = new /\ b = new
        BY <1>3, <1>5, <3>2
      <3>3. CASE a \in Mine /\ b = new
        <4>1. a.n \in 1..n /\ b.n = n + 1 /\ b.at = clock
          BY <1>5, <1>9, <2>3, <3>3
        <4> QED BY <1>4, <2>2, <3>3, <4>1
      <3>4. CASE a = new /\ b \in Mine
        <4>1. b.n \in 1..n /\ a.n = n + 1
          BY <1>5, <1>9, <2>3, <3>4
        <4> QED BY <1>4, <4>1
      <3> QED BY <1>6, <3>1, <3>2, <3>3, <3>4
    <2>4. kind' \in Legacy => written'["log"] <= 1 /\ \A l \in Mine' : l.step = "log"
      BY <1>1, <1>2, <1>5, <1>6, <1>8
    <2> QED BY <1>11, <2>1, <2>3, <2>4 DEF Delivered
  <1> QED BY <1>1, <1>6, <1>7, <1>12, Arrivals DEF IInv

LEMMA NewLogServerSound == IInv /\ NewLogServer => IInv'
  <1> SUFFICES ASSUME IInv, NewLogServer PROVE IInv'
    OBVIOUS
  <1>1. /\ UNCHANGED <<setup, kind, clock, completed, written, stored, rec, job, req, answer, faults>>
        /\ server' \in {"off", "exited", "on"} /\ (server' = "on" => setup.type # "file")
    BY DEF NewLogServer, environment
  <1>2. Mine' = Mine
    BY <1>1 DEF Mine
  <1>3. Shapes' /\ Delivered'
    BY <1>1, <1>2 DEF IInv, Shapes, Delivered
  <1>4. Phase'
    BY <1>1, <1>2 DEF IInv, Phase
  <1>5. OutSound'
    BY <1>1, <1>2 DEF IInv, OutSound, Own, Ordered, LinesIn, Follows, Covers, Owed, BrokenOff, Has, Window
  <1>6. JobSound' /\ PartsSound'
    BY <1>1, <1>2 DEF IInv, JobSound, PartsSound, PartsFollow, PartsCover, Window, Has, LinesIn,
                      Follows, LogPath, BrokenOff
  <1>7. OwnLinesInOrder' /\ CompleteAnswer'
    BY <1>1 DEF IInv, OwnLinesInOrder, CompleteAnswer, LinesIn
  <1> QED BY <1>3, <1>4, <1>5, <1>6, <1>7 DEF IInv

----------------------------------------------------------------------------
(* Requests                                                                *)

\* A step of a request that answers nothing yet.
LEMMA Moved ==
    ASSUME IInv, UNCHANGED <<setup, server, kind, environment, answer>>,
           faults' \in 0..MaxFaults,
           job' \in [state : {"none", "RUNNING", "DONE", "FAILED"}, rows : Seq(LineSet)],
           req' \in Busy, Phase', OutSound', JobSound', PartsSound'
    PROVE  IInv'
  <1>1. UNCHANGED <<clock, completed, written, stored, rec>>
    BY DEF environment
  <1>2. Mine' = Mine
    BY <1>1 DEF Mine
  <1>3. Shapes' /\ Delivered'
    BY <1>1, <1>2 DEF IInv, Shapes, Delivered
  <1>4. OwnLinesInOrder' /\ CompleteAnswer'
    BY DEF IInv, OwnLinesInOrder, CompleteAnswer, LinesIn
  <1> QED BY <1>3, <1>4 DEF IInv

LEMMA RequestSound ==
    ASSUME IInv, NEW via \in {"grpc", "http"}, Request(via)
    PROVE  IInv'
  <1> DEFINE r == [pc |-> "check", via |-> via, rec |-> NoRecord, parts |-> <<>>,
                   out |-> <<>>, seen |-> {}, ticks |-> 0]
  <1>1. /\ req = Idle /\ req' = r /\ answer' = NoAnswer
        /\ UNCHANGED <<setup, server, kind, clock, completed, written, stored, rec, job, faults>>
    BY DEF Request, environment
  <1>2. /\ r \in Busy /\ r.pc = "check" /\ r.out = <<>> /\ r.seen = {} /\ r.rec.exists = FALSE
    BY PluginAssumption DEF Busy, Records, NoRecord
  <1> HIDE DEF r
  <1>3. Mine' = Mine
    BY <1>1 DEF Mine
  <1>4. NoAnswer \in Answers /\ NoAnswer.out = <<>> /\ NoAnswer.status = "none"
    BY DEF NoAnswer, Answers, Statuses
  <1>5. Shapes'
    BY <1>1, <1>2, <1>4 DEF IInv, Shapes
  <1>6. Delivered'
    BY <1>1, <1>3 DEF IInv, Delivered
  <1>7. job.state = "none"
    BY <1>1 DEF IInv, Phase
  <1>8. Phase'
    <2>1. setup.type \in {"loki", "blob", "splunk", "file"}
      BY DEF IInv, Shapes, Setup
    <2>2. "check" \in PhasesOf(setup.type)
      BY <2>1 DEF PhasesOf
    <2> QED BY <1>1, <1>2, <1>7, <2>2 DEF IInv, Phase
  <1>9. OutSound' /\ JobSound' /\ PartsSound'
    BY <1>1, <1>2, <1>7 DEF OutSound, JobSound, PartsSound, Own, Ordered, LinesIn
  <1>10. OwnLinesInOrder' /\ CompleteAnswer'
    BY <1>1, <1>4 DEF OwnLinesInOrder, CompleteAnswer, LinesIn
  <1> QED BY <1>5, <1>6, <1>8, <1>9, <1>10 DEF IInv

LEMMA RefuseSound == IInv /\ Refuse => IInv'
  <1> SUFFICES ASSUME IInv, Refuse PROVE IInv'
    OBVIOUS
  <1>1. req \in Busy
    BY InProgress DEF Refuse
  <1>2. PICK status \in {"Unimplemented", "InvalidArgument", "Denied"} : Respond(status, <<>>)
    BY DEF Refuse
  <1>3. status \in Statuses /\ status # "OK"
    BY DEF Statuses
  <1>4. UNCHANGED <<setup, server, kind, environment, faults>>
    BY DEF Refuse
  <1>5. Shapes
    BY DEF IInv
  <1>6. req' = Idle /\ job' = NoJob /\ answer' \in Answers /\ OwnLinesInOrder' /\ CompleteAnswer'
    BY <1>1, <1>2, <1>3, <1>4, <1>5, NothingWritten, Responded
  <1> QED BY <1>4, <1>5, <1>6, FaultsBounded, Over

LEMMA GetRecordSound == IInv /\ GetRecord => IInv'
  <1> SUFFICES ASSUME IInv, GetRecord PROVE IInv'
    OBVIOUS
  <1>1. req \in Busy /\ req # Idle /\ req.pc = "check" /\ server = "on"
    BY InProgress DEF GetRecord
  <1>2. UNCHANGED <<setup, server, kind, environment, faults>> /\ Shapes
    BY DEF GetRecord, IInv
  <1>3. CASE rec.exists
    <2>1. /\ req' = [req EXCEPT !.pc = setup.type, !.rec = rec] /\ UNCHANGED <<job, answer>>
      BY <1>3 DEF GetRecord
    <2>2. setup.type \in {"loki", "blob", "splunk"} /\ rec \in Records
      BY <1>1 DEF IInv, Shapes, Setup, Phase
    <2>3. /\ req' \in Busy /\ req'.pc = setup.type /\ req'.rec = rec /\ req'.out = req.out
          /\ req'.seen = req.seen
      BY <1>1, <2>1, <2>2 DEF Busy
    <2>4. req'.pc \in PhasesOf(setup.type) /\ req'.pc \notin {"part", "write", "fetch", "check", "idle"}
      BY <2>2, <2>3 DEF PhasesOf
    <2>5. req.out = <<>> /\ req.seen \subseteq Mine /\ job.state = "none"
      BY <1>1 DEF IInv, Phase
    <2>6. Mine' = Mine
      BY <1>2 DEF Mine, environment
    <2>7. Phase'
      <3>1. server = "on" => setup.type # "file"
        BY DEF IInv, Phase
      <3> QED BY <1>2, <1>3, <2>1, <2>3, <2>4, <2>5, <2>6, <3>1 DEF Phase
    <2>8. OutSound' /\ JobSound' /\ PartsSound'
      BY <2>1, <2>3, <2>4, <2>5 DEF OutSound, JobSound, PartsSound, Own, Ordered, LinesIn
    <2>9. job' \in [state : {"none", "RUNNING", "DONE", "FAILED"}, rows : Seq(LineSet)]
      BY <1>2, <2>1 DEF Shapes
    <2> QED BY <1>2, <2>1, <2>3, <2>7, <2>8, <2>9, FaultsBounded, Moved
  <1>4. CASE ~rec.exists
    <2>1. /\ <<ErrorText>> \in Seq(Items) /\ Own(<<ErrorText>>) /\ Ordered(<<ErrorText>>)
      BY ItemShapes DEF Own, Ordered, LinesIn
    <2>2. "NotFound" \in Statuses \ {"OK"} /\ "Internal" \in Statuses \ {"OK"}
      BY DEF Statuses
    <2>3. Respond("NotFound", <<>>) \/ Respond("Internal", <<ErrorText>>)
      BY <1>4 DEF GetRecord
    <2>4. req' = Idle /\ job' = NoJob /\ answer' \in Answers /\ OwnLinesInOrder' /\ CompleteAnswer'
      BY <1>1, <1>2, <2>1, <2>2, <2>3, NothingWritten, Responded
    <2> QED BY <1>2, <2>4, FaultsBounded, Over
  <1> QED BY <1>3, <1>4

\* Whatever the step, a request that ends without lines and with an error.
LEMMA GivenUp ==
    ASSUME IInv, req.pc # "idle", Finish(TRUE, <<>>), UNCHANGED <<setup, server, kind, environment>>,
           Fault \/ UNCHANGED faults
    PROVE  IInv'
  <1>1. Shapes /\ req \in Busy
    BY InProgress DEF IInv
  <1>2. req' = Idle /\ job' = NoJob /\ answer' \in Answers /\ OwnLinesInOrder' /\ CompleteAnswer'
    BY <1>1, NothingWritten, Finished
  <1> QED BY <1>1, <1>2, FaultsBounded, Over

LEMMA WriteLinesSound == IInv /\ WriteLines => IInv'
  <1> SUFFICES ASSUME IInv, WriteLines PROVE IInv'
    OBVIOUS
  <1>1. req.pc = "write" /\ UNCHANGED <<setup, server, kind, environment>> /\ Shapes
    BY DEF WriteLines, IInv
  <1>2. req \in Busy /\ req # Idle /\ Own(req.out) /\ Ordered(req.out) /\ req.out \in Seq(Items)
    <2>1. req \in Busy /\ req # Idle /\ Own(req.out) /\ Ordered(req.out)
      BY <1>1, InProgress
    <2> QED BY <2>1 DEF Busy
  <1>3. Covers(req.out)
    BY <1>1, <1>2 DEF IInv, OutSound
  <1>4. CASE Finish(FALSE, req.out) /\ UNCHANGED faults
    <2>1. req' = Idle /\ job' = NoJob /\ answer' \in Answers /\ OwnLinesInOrder' /\ CompleteAnswer'
      BY <1>1, <1>2, <1>3, <1>4, Finished
    <2> QED BY <1>1, <1>4, <2>1, FaultsBounded, Over
  <1>5. CASE Fault /\ Respond("Internal", <<>>)
    <2>1. "Internal" \in Statuses /\ "Internal" # "OK"
      BY DEF Statuses
    <2>2. req' = Idle /\ job' = NoJob /\ answer' \in Answers /\ OwnLinesInOrder' /\ CompleteAnswer'
      BY <1>1, <1>2, <1>5, <2>1, NothingWritten, Responded
    <2> QED BY <1>1, <1>5, <2>2, FaultsBounded, Over
  <1>6. CASE Fault /\ Finish(TRUE, <<>>)
    BY <1>1, <1>6, GivenUp
  <1> QED BY <1>4, <1>5, <1>6 DEF WriteLines

LEMMA PollTimeoutSound == IInv /\ PollTimeout => IInv'
  BY GivenUp DEF PollTimeout

----------------------------------------------------------------------------
(* Loki                                                                    *)

\* Lines in the order of their times are in their order.
LEMMA TimeOrder ==
    ASSUME IInv, NEW a \in Mine, NEW b \in Mine, a # b, ~(b.at < a.at)
    PROVE  Follows(a, b)
  <1>1. a.at \in Nat /\ b.at \in Nat /\ a.n \in Nat /\ b.n \in Nat
    BY DEF IInv, Shapes, Mine, LineSet
  <1>2. a.step = b.step => /\ a.n # b.n
                           /\ b.n < a.n => b.at <= a.at
    BY DEF IInv, Delivered
  <1> QED BY <1>1, <1>2 DEF Follows

\* The lines of the run are lines, finitely many.
LEMMA MineShapes ==
    ASSUME IInv
    PROVE  Mine \subseteq LineSet /\ Mine \subseteq Items /\ IsFiniteSet(Mine)
  <1>1. Mine \subseteq stored /\ stored \subseteq LineSet /\ IsFiniteSet(stored)
    BY DEF IInv, Shapes, Mine
  <1> QED BY <1>1, FewerElements DEF Items

\* A sequence of lines of the run.
LEMMA LineSequence ==
    ASSUME IInv, NEW S, S \subseteq Mine, NEW seq \in SetToSeqs(S)
    PROVE  /\ seq \in Seq(Items) /\ seq \in Seq(LineSet) /\ LinesIn(seq) = DOMAIN seq
           /\ \A i \in DOMAIN seq : seq[i] \in Mine
           /\ \A i, j \in DOMAIN seq : i # j => seq[i] # seq[j]
           /\ \A l \in S : Has(seq, l)
           /\ ~BrokenOff(seq)
  <1>1. IsFiniteSet(S) /\ S \subseteq LineSet /\ S \subseteq Items
    BY MineShapes, FewerElements
  <1>2. /\ seq \in Seq(S)
        /\ \A i, j \in DOMAIN seq : i # j => seq[i] # seq[j]
        /\ \A x \in S : \E i \in DOMAIN seq : seq[i] = x
    BY <1>1, SetSequences
  <1>3. seq \in Seq(Items) /\ seq \in Seq(LineSet) /\ \A i \in DOMAIN seq : seq[i] \in S
    BY <1>1, <1>2
  <1>4. LinesIn(seq) = DOMAIN seq /\ ~BrokenOff(seq)
    BY <1>1, <1>3, ItemShapes DEF LinesIn, BrokenOff
  <1> QED BY <1>2, <1>3, <1>4 DEF Has

\* If the limit is not exceeded, Loki answers with everything it finds.
LEMMA WithinLimit ==
    ASSUME IInv, NEW S \in Latest(Found), Cardinality(Mine) <= Limit
    PROVE  S = Found
  <1>1. Found \subseteq Mine
    BY DEF Found
  <1>2. IsFiniteSet(Found) /\ Cardinality(Found) \in Nat /\ Cardinality(Mine) \in Nat
        /\ Cardinality(Found) <= Cardinality(Mine)
    BY <1>1, MineShapes, FewerElements
  <1>3. Cardinality(Found) <= Limit
    BY <1>2, PluginAssumption
  <1>4. S \in SUBSET Found /\ Cardinality(S) = Cardinality(Found)
    BY <1>3 DEF Latest
  <1> QED BY <1>2, <1>4, FS_Subset

LEMMA GetLokiLogsSound == IInv /\ GetLokiLogs => IInv'
  <1> SUFFICES ASSUME IInv, GetLokiLogs PROVE IInv'
    OBVIOUS
  <1>1. req.pc = "loki" /\ UNCHANGED <<setup, server, kind, environment>> /\ Shapes
    BY DEF GetLokiLogs, IInv
  <1>2. CASE Finish(TRUE, <<>>) /\ (Fault \/ UNCHANGED faults)
    BY <1>1, <1>2, GivenUp
  <1>3. CASE /\ \E S \in Latest(Found) : \E seq \in Merged(S) :
                   req' = [req EXCEPT !.pc = "write", !.seen = Mine, !.out = seq]
             /\ UNCHANGED <<job, answer, faults>>
    <2>1. PICK S \in Latest(Found) : \E seq \in Merged(S) :
                   req' = [req EXCEPT !.pc = "write", !.seen = Mine, !.out = seq]
      BY <1>3
    <2>2. PICK seq \in Merged(S) :
                   req' = [req EXCEPT !.pc = "write", !.seen = Mine, !.out = seq]
      BY <2>1
    <2>3. req \in Busy /\ req # Idle
      BY <1>1, InProgress
    <2>4. S \subseteq Mine /\ seq \in SetToSeqs(S)
          /\ \A i, j \in DOMAIN seq : i < j => ~(seq[j].at < seq[i].at)
      BY DEF Latest, Found, Merged, InOrder
    <2>5. /\ seq \in Seq(Items) /\ LinesIn(seq) = DOMAIN seq
          /\ \A i \in DOMAIN seq : seq[i] \in Mine
          /\ \A i, j \in DOMAIN seq : i # j => seq[i] # seq[j]
          /\ \A l \in S : Has(seq, l)
      BY <2>4, LineSequence
    <2>6. Mine \subseteq LineSet
      BY MineShapes
    <2>7. /\ req' \in Busy /\ req'.pc = "write" /\ req'.seen = Mine /\ req'.out = seq
          /\ req'.rec = req.rec
      BY <2>2, <2>3, <2>5, <2>6 DEF Busy
    <2>8. Mine' = Mine
      BY <1>1 DEF Mine, environment
    <2>9. setup.type = "loki" /\ req.rec.exists /\ job.state = "none"
          /\ (server = "on" => setup.type # "file")
      <3>1. req.pc \in PhasesOf(setup.type) /\ setup.type \in {"loki", "blob", "splunk", "file"}
        BY <2>3 DEF IInv, Phase, Shapes, Setup
      <3>2. setup.type = "loki"
        BY <1>1, <3>1 DEF PhasesOf
      <3> QED BY <1>1, <2>3, <3>2 DEF IInv, Phase
    <2>10. Phase'
      <3>1. "write" \in PhasesOf(setup.type)
        BY <2>9 DEF PhasesOf
      <3>2. req'.pc # "fetch" /\ req'.pc # "check"
        BY <2>7
      <3> QED BY <1>1, <1>3, <2>7, <2>8, <2>9, <3>1, <3>2 DEF Phase
    <2>11. Own(req.out)'
      BY <2>5, <2>7, <2>8 DEF Own, LinesIn
    <2>12. Ordered(req.out)'
      <3>1. ASSUME NEW i \in DOMAIN seq, NEW j \in DOMAIN seq, i < j
            PROVE  Follows(seq[i], seq[j])
        <4>1. i # j
          BY <2>5, <3>1
        <4>2. seq[i] # seq[j] /\ seq[i] \in Mine /\ seq[j] \in Mine /\ ~(seq[j].at < seq[i].at)
          BY <2>4, <2>5, <3>1, <4>1
        <4> QED BY <4>2, TimeOrder
      <3> QED BY <1>1, <2>7, <3>1 DEF Ordered, LinesIn, Follows
    <2>13. Covers(req.out)'
      <3>1. SUFFICES ASSUME Cardinality(Mine) <= Limit, NEW l \in Mine, Window(l)
                     PROVE  Has(seq, l)
        BY <1>1, <2>7, <2>8, <2>9 DEF Covers, Owed, Window, Has
      <3>2. S = Found
        BY <3>1, WithinLimit
      <3> QED BY <2>5, <3>1, <3>2 DEF Found
    <2>14. OutSound' /\ JobSound' /\ PartsSound'
      BY <1>3, <2>7, <2>9, <2>11, <2>12, <2>13 DEF OutSound, JobSound, PartsSound
    <2>15. job' \in [state : {"none", "RUNNING", "DONE", "FAILED"}, rows : Seq(LineSet)]
      BY <1>1, <1>3 DEF Shapes
    <2> QED BY <1>1, <1>3, <2>7, <2>10, <2>14, <2>15, FaultsBounded, Moved
  <1> QED BY <1>2, <1>3 DEF GetLokiLogs

----------------------------------------------------------------------------
(* Splunk                                                                  *)

\* The phases of a search belong to Splunk.
LEMMA WithSplunk ==
    ASSUME IInv, req.pc \in {"splunk", "poll", "fetch"}
    PROVE  setup.type = "splunk"
  <1>1. req # Idle
    BY InProgress
  <1>2. req.pc \in PhasesOf(setup.type) /\ setup.type \in {"loki", "blob", "splunk", "file"}
    BY <1>1 DEF IInv, Phase, Shapes, Setup
  <1> QED BY <1>2 DEF PhasesOf

LEMMA CreateJobSound == IInv /\ CreateJob => IInv'
  <1> SUFFICES ASSUME IInv, CreateJob PROVE IInv'
    OBVIOUS
  <1>1. req.pc = "splunk" /\ UNCHANGED <<setup, server, kind, environment>> /\ Shapes
    BY DEF CreateJob, IInv
  <1>2. CASE Finish(TRUE, <<>>) /\ (Fault \/ UNCHANGED faults)
    BY <1>1, <1>2, GivenUp
  <1>3. CASE /\ req' = [req EXCEPT !.pc = "poll", !.seen = Mine]
             /\ job' = [state |-> "RUNNING", rows |-> <<>>]
             /\ UNCHANGED <<answer, faults>>
    <2>1. req \in Busy /\ req # Idle /\ setup.type = "splunk"
      BY <1>1, InProgress, WithSplunk
    <2>2. req.out = <<>> /\ req.rec.exists /\ (server = "on" => setup.type # "file")
      BY <1>1, <2>1 DEF IInv, Phase
    <2>3. Mine \subseteq LineSet
      BY MineShapes
    <2>4. /\ req' \in Busy /\ req'.pc = "poll" /\ req'.seen = Mine /\ req'.out = <<>>
          /\ req'.rec = req.rec
      BY <1>3, <2>1, <2>2, <2>3 DEF Busy
    <2>5. Mine' = Mine
      BY <1>1 DEF Mine, environment
    <2>6. job' \in [state : {"none", "RUNNING", "DONE", "FAILED"}, rows : Seq(LineSet)]
          /\ job'.state = "RUNNING"
      BY <1>3
    <2>7. Phase'
      <3>1. "poll" \in PhasesOf(setup.type)
        BY <2>1 DEF PhasesOf
      <3>2. req'.pc # "fetch" /\ req'.pc # "check" /\ req'.pc # "idle" /\ Idle.pc = "idle"
        BY <2>4 DEF Idle
      <3>3. req' # Idle
        BY <3>2
      <3> QED BY <1>1, <2>1, <2>2, <2>4, <2>5, <2>6, <3>1, <3>2, <3>3 DEF Phase
    <2>8. OutSound' /\ JobSound' /\ PartsSound'
      BY <2>4, <2>6 DEF OutSound, JobSound, PartsSound, Own, Ordered, LinesIn
    <2> QED BY <1>1, <1>3, <2>4, <2>6, <2>7, <2>8, FaultsBounded, Moved
  <1> QED BY <1>2, <1>3 DEF CreateJob

\* The job finds what there was when it was created, and more.
LEMMA RunJobSound == IInv /\ RunJob => IInv'
  <1> SUFFICES ASSUME IInv, RunJob PROVE IInv'
    OBVIOUS
  <1>1. /\ job.state = "RUNNING" /\ UNCHANGED <<setup, server, kind, environment, req, answer, faults>>
        /\ Shapes
    BY DEF RunJob, IInv
  <1>2. Mine' = Mine
    BY <1>1 DEF Mine, environment
  <1>3. /\ req # Idle /\ req.pc \in {"poll", "fetch", "write"} /\ req.pc # "fetch" /\ req.seen \subseteq Mine
        /\ setup.type = "splunk"
    BY <1>1 DEF IInv, Phase
  <1>4. req \in Busy
    BY <1>1, <1>3 DEF Shapes
  <1>5. /\ job' \in [state : {"none", "RUNNING", "DONE", "FAILED"}, rows : Seq(LineSet)]
        /\ job'.state # "none"
        /\ JobSound'
    <2>1. CASE \E seq \in SetToSeqs(Found) : job' = [state |-> "DONE", rows |-> seq]
      <3>1. PICK seq \in SetToSeqs(Found) : job' = [state |-> "DONE", rows |-> seq]
        BY <2>1
      <3>2. Found \subseteq Mine
        BY DEF Found
      <3>3. /\ seq \in Seq(LineSet)
            /\ \A i \in DOMAIN seq : seq[i] \in Mine
            /\ \A i, j \in DOMAIN seq : i # j => seq[i] # seq[j]
            /\ \A l \in Found : Has(seq, l)
        BY <3>2, LineSequence
      <3>4. \A l \in req.seen : Window(l) => Has(seq, l)
        BY <1>3, <3>3 DEF Found
      <3>5. JobSound'
        BY <1>1, <1>2, <3>1, <3>3, <3>4 DEF JobSound, Window, Has
      <3> QED BY <3>1, <3>3, <3>5
    <2>2. CASE job' = [state |-> "FAILED", rows |-> <<>>]
      BY <2>2 DEF JobSound
    <2> QED BY <2>1, <2>2 DEF RunJob
  <1>6. Phase'
    BY <1>1, <1>2, <1>3, <1>5 DEF IInv, Phase
  <1>7. OutSound'
    BY <1>1, <1>2 DEF IInv, OutSound, Own, Ordered, LinesIn, Follows, Covers, Owed, BrokenOff, Has, Window
  <1>8. PartsSound'
    BY <1>1, <1>3 DEF PartsSound
  <1>9. faults' \in 0..MaxFaults
    BY <1>1, FaultsBounded
  <1> QED BY <1>1, <1>4, <1>5, <1>6, <1>7, <1>8, <1>9, Moved

LEMMA PollTickSound == IInv /\ PollTick => IInv'
  <1> SUFFICES ASSUME IInv, PollTick PROVE IInv'
    OBVIOUS
  <1>1. req.pc = "poll" /\ UNCHANGED <<setup, server, kind, environment>> /\ Shapes
    BY DEF PollTick, IInv
  <1>2. req \in Busy /\ req # Idle /\ setup.type = "splunk"
    BY <1>1, InProgress, WithSplunk
  <1>3. /\ req.out = <<>> /\ req.rec.exists /\ (server = "on" => setup.type # "file")
        /\ req.seen \subseteq Mine
    BY <1>1, <1>2 DEF IInv, Phase
  <1>4. CASE Finish(TRUE, <<>>) /\ UNCHANGED faults
    BY <1>1, <1>4, GivenUp
  <1>5. CASE \/ /\ job.state = "DONE"
                /\ req' = [req EXCEPT !.pc = "fetch"]
                /\ UNCHANGED <<job, answer, faults>>
             \/ /\ req.ticks < PollTicks
                /\ req' = [req EXCEPT !.ticks = @ + 1]
                /\ Fault \/ UNCHANGED faults
                /\ UNCHANGED <<job, answer>>
    <2>1. /\ req' \in Busy /\ req'.pc \in {"poll", "fetch"} /\ req'.seen = req.seen
          /\ req'.out = <<>> /\ req'.rec = req.rec
          /\ req'.pc = "fetch" => job.state = "DONE"
      <3>1. CASE job.state = "DONE" /\ req' = [req EXCEPT !.pc = "fetch"]
        BY <1>2, <1>3, <3>1 DEF Busy
      <3>2. CASE req.ticks < PollTicks /\ req' = [req EXCEPT !.ticks = @ + 1]
        <4>1. req.ticks + 1 \in 0..PollTicks
          BY <1>2, <3>2, PluginAssumption DEF Busy
        <4> QED BY <1>1, <1>2, <1>3, <3>2, <4>1 DEF Busy
      <3> QED BY <1>5, <3>1, <3>2
    <2>2. Mine' = Mine /\ UNCHANGED <<job, answer>> /\ faults' \in 0..MaxFaults
      <3>1. Fault \/ UNCHANGED faults
        BY <1>5
      <3> QED BY <1>1, <1>5, <3>1, FaultsBounded DEF Mine, environment
    <2>3. Phase'
      <3>1. {"poll", "fetch"} \subseteq PhasesOf(setup.type)
        BY <1>2 DEF PhasesOf
      <3>2. req' # Idle
        BY <2>1 DEF Idle
      <3> QED BY <1>1, <1>2, <1>3, <2>1, <2>2, <3>1, <3>2 DEF Phase
    <2>4. OutSound' /\ PartsSound'
      BY <2>1 DEF OutSound, PartsSound, Own, Ordered, LinesIn
    <2>5. JobSound'
      BY <2>1, <2>2 DEF IInv, JobSound, Window, Has
    <2>6. job' \in [state : {"none", "RUNNING", "DONE", "FAILED"}, rows : Seq(LineSet)]
      BY <1>1, <2>2 DEF Shapes
    <2> QED BY <1>1, <2>1, <2>2, <2>3, <2>4, <2>5, <2>6, Moved
  <1> QED BY <1>4, <1>5 DEF PollTick

LEMMA FetchSound == IInv /\ Fetch => IInv'
  <1> SUFFICES ASSUME IInv, Fetch PROVE IInv'
    OBVIOUS
  <1>1. req.pc = "fetch" /\ UNCHANGED <<setup, server, kind, environment>> /\ Shapes
    BY DEF Fetch, IInv
  <1>2. CASE Fault /\ Finish(TRUE, <<>>)
    BY <1>1, <1>2, GivenUp
  <1>3. CASE /\ req' = [req EXCEPT !.pc = "write", !.out = WithHeaders(job.rows)]
             /\ UNCHANGED <<job, answer, faults>>
    <2> DEFINE rows == job.rows
               w == WithHeaders(rows)
    <2>1. req \in Busy /\ req # Idle /\ setup.type = "splunk"
      BY <1>1, InProgress, WithSplunk
    <2>2. /\ req.rec.exists /\ (server = "on" => setup.type # "file")
          /\ req.seen \subseteq Mine /\ job.state = "DONE"
      BY <1>1, <2>1 DEF IInv, Phase
    <2>3. /\ rows \in Seq(LineSet)
          /\ \A i \in DOMAIN rows : rows[i] \in Mine
          /\ \A i, j \in DOMAIN rows : i # j => rows[i] # rows[j]
          /\ \A l \in req.seen : Window(l) => Has(rows, l)
      BY <1>1, <2>2 DEF Shapes, IInv, JobSound
    <2>4. /\ w \in Seq(Items)
          /\ \A i \in DOMAIN rows : Has(w, rows[i])
          /\ \A k \in LinesIn(w) : \E i \in DOMAIN rows : w[k] = rows[i]
          /\ \A k, l \in LinesIn(w) : k # l => w[k] # w[l]
      <3> HIDE DEF rows
      <3> QED BY <2>3, HeadedRows
    <2> HIDE DEF w
    <2>5. /\ req' \in Busy /\ req'.pc = "write" /\ req'.seen = req.seen /\ req'.out = w
          /\ req'.rec = req.rec
      BY <1>3, <2>1, <2>4 DEF Busy, w
    <2>6. Mine' = Mine
      BY <1>1 DEF Mine, environment
    <2>7. Phase'
      <3>1. "write" \in PhasesOf(setup.type)
        BY <2>1 DEF PhasesOf
      <3>2. req' # Idle /\ req'.pc # "fetch" /\ req'.pc # "check"
        BY <2>5 DEF Idle
      <3> QED BY <1>1, <1>3, <2>1, <2>2, <2>5, <2>6, <3>1, <3>2 DEF Phase
    <2>8. OutSound'
      <3>1. Own(req.out)'
        BY <2>3, <2>4, <2>5, <2>6 DEF Own, LinesIn
      <3>2. Ordered(req.out)'
        <4>1. \A k, l \in LinesIn(w) : k < l => w[k] # w[l]
          <5>1. \A k \in LinesIn(w) : k \in Int
            BY <2>4 DEF LinesIn
          <5> QED BY <2>4, <5>1
        <4> QED BY <1>1, <2>1, <2>5, <4>1 DEF Ordered, LinesIn, Follows
      <3>3. \A l \in req.seen : Window(l) => Has(w, l)
        BY <2>3, <2>4 DEF Has
      <3>4. Covers(req.out)'
        BY <2>5, <3>3 DEF Covers, Window, Has
      <3> QED BY <3>1, <3>2, <3>4 DEF OutSound
    <2>9. JobSound' /\ PartsSound'
      BY <1>3, <2>3, <2>5, <2>6 DEF JobSound, PartsSound, Window, Has
    <2>10. job' \in [state : {"none", "RUNNING", "DONE", "FAILED"}, rows : Seq(LineSet)]
      BY <1>1, <1>3 DEF Shapes
    <2> QED BY <1>1, <1>3, <2>5, <2>7, <2>8, <2>9, <2>10, FaultsBounded, Moved
  <1> QED BY <1>2, <1>3 DEF Fetch

----------------------------------------------------------------------------
(* A bucket                                                                *)

\* The parts of the listing, merged, are in order and are all there.
LEMMA ListedParts ==
    ASSUME IInv, NEW paths \in Listings
    PROVE  /\ mergeLogParts(paths) \in Seq(LineSet)
           /\ \A k \in DOMAIN mergeLogParts(paths) : mergeLogParts(paths)[k] \in Mine
           /\ \A k, l \in DOMAIN mergeLogParts(paths) :
                 k < l => Follows(mergeLogParts(paths)[k], mergeLogParts(paths)[l])
           /\ \A x \in Mine : Has(mergeLogParts(paths), x)
  <1> DEFINE m == mergeLogParts(paths)
  <1>1. /\ paths \in SetToSeqs(Mine)
        /\ \A i, j \in DOMAIN paths : i < j => ~(paths[j].at < paths[i].at)
    BY DEF Listings, InOrder
  <1>2. /\ paths \in Seq(LineSet)
        /\ \A i \in DOMAIN paths : paths[i] \in Mine
        /\ \A i, j \in DOMAIN paths : i # j => paths[i] # paths[j]
        /\ \A x \in Mine : Has(paths, x)
    BY <1>1, LineSequence
  <1>3. m \in Seq(LineSet) /\ DOMAIN m = DOMAIN paths
    BY <1>2, MergedParts
  <1>4. PICK f \in [DOMAIN paths -> DOMAIN paths] :
           /\ \A k \in DOMAIN paths : m[k] = paths[f[k]]
           /\ \A i \in DOMAIN paths : \E k \in DOMAIN paths : f[k] = i
           /\ \A k, l \in DOMAIN paths :
                 k < l => /\ f[k] # f[l]
                          /\ paths[f[k]].step = paths[f[l]].step => f[k] < f[l]
    BY <1>2, MergedParts
  <1> HIDE DEF m
  <1>5. \A k \in DOMAIN m : m[k] \in Mine
    BY <1>2, <1>3, <1>4
  <1>6. ASSUME NEW k \in DOMAIN m, NEW l \in DOMAIN m, k < l
        PROVE  Follows(m[k], m[l])
    <2>1. f[k] \in DOMAIN paths /\ f[l] \in DOMAIN paths /\ m[k] = paths[f[k]] /\ m[l] = paths[f[l]]
      BY <1>3, <1>4
    <2>2. m[k] # m[l] /\ m[k] \in Mine /\ m[l] \in Mine
      BY <1>2, <1>3, <1>4, <1>5, <1>6, <2>1
    <2>3. CASE m[k].step = m[l].step
      <3>1. f[k] < f[l]
        BY <1>3, <1>4, <1>6, <2>1, <2>3
      <3>2. ~(m[l].at < m[k].at)
        BY <1>1, <2>1, <3>1
      <3> QED BY <2>2, <3>2, TimeOrder
    <2>4. CASE m[k].step # m[l].step
      BY <2>2, <2>4 DEF Follows
    <2> QED BY <2>3, <2>4
  <1>7. \A x \in Mine : Has(m, x)
    BY <1>2, <1>3, <1>4 DEF Has
  <1> QED BY <1>3, <1>5, <1>6, <1>7 DEF m

\* A single object, or none, is its own merge.
LEMMA SinglePart ==
    /\ LogPath \in Seq(LineSet) /\ mergeLogParts(LogPath) = LogPath
    /\ DOMAIN mergeLogParts(<<>>) = {} /\ mergeLogParts(<<>>) \in Seq(LineSet)
    /\ DOMAIN LogPath = {1} /\ LogPath[1].step = "log" /\ LogPath[1].n = 1
  <1>1. /\ LogPath \in Seq(LineSet) /\ DOMAIN LogPath = {1} /\ LogPath[1].step = "log"
        /\ LogPath[1].n = 1
    BY DEF LogPath, Line, LineSet, Names
  <1>2. mergeLogParts(LogPath) = LogPath
    <2>1. mergeLogParts(LogPath) \in Seq(LineSet) /\ DOMAIN mergeLogParts(LogPath) = {1}
      BY <1>1, MergedParts
    <2>2. PICK f \in [{1} -> {1}] : \A k \in {1} : mergeLogParts(LogPath)[k] = LogPath[f[k]]
      BY <1>1, MergedParts
    <2>3. mergeLogParts(LogPath)[1] = LogPath[1]
      BY <2>2
    <2> QED BY <1>1, <2>1, <2>3
  <1>3. DOMAIN mergeLogParts(<<>>) = {} /\ mergeLogParts(<<>>) \in Seq(LineSet)
    <2>1. <<>> \in Seq(LineSet) /\ DOMAIN <<>> = {}
      OBVIOUS
    <2>2. /\ mergeLogParts(<<>>) \in Seq(LineSet) /\ DOMAIN mergeLogParts(<<>>) = DOMAIN <<>>
      BY <2>1, MergedParts
    <2> QED BY <2>1, <2>2
  <1> QED BY <1>1, <1>2, <1>3

\* The phases of a part belong to a bucket.
LEMMA WithBlob ==
    ASSUME IInv, req.pc \in {"blob", "part"}
    PROVE  setup.type = "blob" /\ req # Idle
  <1>1. req # Idle
    BY InProgress
  <1>2. req.pc \in PhasesOf(setup.type) /\ setup.type \in {"loki", "blob", "splunk", "file"}
    BY <1>1 DEF IInv, Phase, Shapes, Setup
  <1> QED BY <1>1, <1>2 DEF PhasesOf

LEMMA GetBlobLogsSound == IInv /\ GetBlobLogs => IInv'
  <1> SUFFICES ASSUME IInv, GetBlobLogs PROVE IInv'
    OBVIOUS
  <1>1. req.pc = "blob" /\ UNCHANGED <<setup, server, kind, environment>> /\ Shapes
    BY DEF GetBlobLogs, IInv
  <1>2. CASE Finish(TRUE, <<>>) /\ (Fault \/ UNCHANGED faults)
    BY <1>1, <1>2, GivenUp
  <1>3. ASSUME NEW paths, \/ kind = "TaskRun" /\ paths \in Listings
                          \/ kind \in Legacy /\ paths = LogPath
                          \/ kind = "TaskRunV1Beta1" /\ paths = <<>>,
               req' = [req EXCEPT !.pc = "part", !.parts = mergeLogParts(paths), !.seen = Mine],
               UNCHANGED <<job, answer, faults>>
        PROVE  IInv'
    <2> DEFINE m == mergeLogParts(paths)
    <2>1. req \in Busy /\ req # Idle /\ setup.type = "blob"
      BY <1>1, InProgress, WithBlob
    <2>2. /\ req.out = <<>> /\ req.rec.exists /\ (server = "on" => setup.type # "file")
          /\ job.state = "none"
      BY <1>1, <2>1 DEF IInv, Phase
    <2>3. /\ m \in Seq(LineSet)
          /\ \/ /\ \A k \in DOMAIN m : m[k] \in Mine
                /\ \A k, l \in DOMAIN m : k < l => Follows(m[k], m[l])
             \/ m = LogPath
          /\ kind # "TaskRunV1Beta1" => \A x \in Mine : \E k \in DOMAIN m : m[k].step = x.step /\ m[k].n = x.n
      <3>1. CASE kind = "TaskRun" /\ paths \in Listings
        BY <3>1, ListedParts DEF Has
      <3>2. CASE kind \in Legacy /\ paths = LogPath
        <4>1. m = LogPath
          BY <3>2, SinglePart
        <4>2. \A x \in Mine : x.step = "log" /\ x.n = 1
          <5>1. \A x \in Mine : x.step = "log" /\ x.n \in Nat /\ x.n >= 1 /\ x.n <= written["log"]
            BY <3>2, MineShapes DEF IInv, Delivered, LineSet
          <5>2. written["log"] <= 1 /\ written["log"] \in Nat
            BY <3>2, <1>1, PluginAssumption DEF IInv, Delivered, Shapes, Names
          <5> QED BY <5>1, <5>2
        <4>3. \A x \in Mine : LogPath[1].step = x.step /\ LogPath[1].n = x.n
          BY <4>2, SinglePart
        <4> HIDE DEF m
        <4> QED BY <4>1, <4>3, SinglePart
      <3>3. CASE kind = "TaskRunV1Beta1" /\ paths = <<>>
        <4>1. DOMAIN m = {} /\ m \in Seq(LineSet)
          BY <3>3, SinglePart
        <4> HIDE DEF m
        <4> QED BY <3>3, <4>1
      <3> QED BY <1>3, <3>1, <3>2, <3>3
    <2> HIDE DEF m
    <2>4. Mine \subseteq LineSet
      BY MineShapes
    <2>5. /\ req' \in Busy /\ req'.pc = "part" /\ req'.seen = Mine /\ req'.out = <<>>
          /\ req'.parts = m /\ req'.rec = req.rec
      BY <1>3, <2>1, <2>2, <2>3, <2>4 DEF Busy, m
    <2>6. Mine' = Mine /\ LinesIn(req'.out) = {}
      BY <1>1, <2>5 DEF Mine, environment, LinesIn
    <2>7. Phase'
      <3>1. "part" \in PhasesOf(setup.type)
        BY <2>1 DEF PhasesOf
      <3>2. req' # Idle /\ req'.pc # "fetch" /\ req'.pc # "check"
        BY <2>5 DEF Idle
      <3> QED BY <1>1, <1>3, <2>1, <2>2, <2>5, <2>6, <3>1, <3>2 DEF Phase
    <2>8. OutSound' /\ JobSound'
      BY <1>3, <2>2, <2>5 DEF OutSound, JobSound, Own, Ordered, LinesIn
    <2>9. PartsFollow'
      BY <1>1, <2>3, <2>5, <2>6 DEF PartsFollow, Follows, LinesIn, LogPath
    <2>10. PartsCover'
      BY <1>1, <2>3, <2>5, <2>6 DEF PartsCover
    <2>11. PartsSound'
      BY <2>9, <2>10 DEF PartsSound
    <2>12. job' \in [state : {"none", "RUNNING", "DONE", "FAILED"}, rows : Seq(LineSet)]
      BY <1>1, <1>3 DEF Shapes
    <2> QED BY <1>1, <1>3, <2>5, <2>7, <2>8, <2>11, <2>12, FaultsBounded, Moved
  <1> QED BY <1>2, <1>3 DEF GetBlobLogs, Legacy

\* One more item, and what it changes.
OneMore(o, out, x) == o = Append(out, x)

\* The lines of an answer with one more item.
LEMMA Appended ==
    ASSUME NEW out \in Seq(Items), NEW x \in Items, NEW o, OneMore(o, out, x)
    PROVE  /\ o \in Seq(Items)
           /\ LinesIn(o) =
                 IF IsLine(x) THEN LinesIn(out) \cup {Len(out) + 1} ELSE LinesIn(out)
           /\ \A i \in LinesIn(out) : o[i] = out[i] /\ i \in Int /\ i < Len(out) + 1
           /\ o[Len(out) + 1] = x /\ Len(out) \in Nat
           /\ Has(o, x)
           /\ \A l : Has(out, l) => Has(o, l)
           /\ BrokenOff(o) <=> BrokenOff(out) \/ "cut" \in DOMAIN x
  <1>1. /\ o \in Seq(Items) /\ Len(o) = Len(out) + 1 /\ DOMAIN out = 1..Len(out) /\ Len(out) \in Nat
        /\ DOMAIN o = 1..Len(o)
        /\ \A i \in DOMAIN out : o[i] = out[i]
        /\ o[Len(out) + 1] = x
    BY DEF OneMore
  <1>2. DOMAIN o = DOMAIN out \cup {Len(out) + 1}
    BY <1>1
  <1>3. LinesIn(o) = IF IsLine(x) THEN LinesIn(out) \cup {Len(out) + 1} ELSE LinesIn(out)
    BY <1>1, <1>2 DEF LinesIn
  <1>4. \A i \in LinesIn(out) : o[i] = out[i] /\ i \in Int /\ i < Len(out) + 1
    BY <1>1 DEF LinesIn
  <1>5. Has(o, x) /\ \A l : Has(out, l) => Has(o, l)
    BY <1>1, <1>2 DEF Has
  <1>6. BrokenOff(o) <=> BrokenOff(out) \/ "cut" \in DOMAIN x
    BY <1>1, <1>2 DEF BrokenOff
  <1> QED BY <1>1, <1>3, <1>4, <1>5, <1>6

\* A header or another text leaves what was written as it was.
LEMMA AppendedText ==
    ASSUME NEW out \in Seq(Items), NEW x \in Items, ~IsLine(x), NEW o, OneMore(o, out, x),
           Own(out), Ordered(out)
    PROVE  /\ o \in Seq(Items) /\ Own(o) /\ Ordered(o)
           /\ LinesIn(o) = LinesIn(out)
           /\ \A i \in LinesIn(out) : o[i] = out[i]
  <1>1. /\ o \in Seq(Items)
        /\ LinesIn(o) = LinesIn(out)
        /\ \A i \in LinesIn(out) : o[i] = out[i]
    BY Appended
  <1> QED BY <1>1 DEF Own, Ordered

LEMMA ReadPartSound == IInv /\ ReadPart => IInv'
  <1> SUFFICES ASSUME IInv, ReadPart PROVE IInv'
    OBVIOUS
  <1>1. req.pc = "part" /\ UNCHANGED <<setup, server, kind, environment>> /\ Shapes
    BY DEF ReadPart, IInv
  <1>2. /\ req \in Busy /\ req # Idle /\ setup.type = "blob"
        /\ Own(req.out) /\ Ordered(req.out)
    BY <1>1, InProgress, WithBlob
  <1>3. req.out \in Seq(Items) /\ req.parts \in Seq(LineSet) /\ PartsFollow /\ PartsCover
    BY <1>1, <1>2 DEF Busy, IInv, PartsSound
  <1>4. /\ req.rec.exists /\ (server = "on" => setup.type # "file")
        /\ job.state = "none" /\ req.seen \subseteq Mine
    BY <1>1, <1>2 DEF IInv, Phase
  <1>5. CASE req.parts = <<>>
    <2>1. Finish(FALSE, req.out) /\ UNCHANGED faults
      BY <1>5 DEF ReadPart
    <2>2. Covers(req.out)
      <3>1. DOMAIN req.parts = {}
        BY <1>5
      <3> QED BY <1>2, <1>3, <3>1 DEF Covers, Owed, PartsCover
    <2>3. req' = Idle /\ job' = NoJob /\ answer' \in Answers /\ OwnLinesInOrder' /\ CompleteAnswer'
      BY <1>1, <1>2, <1>3, <2>1, <2>2, Finished
    <2> QED BY <1>1, <2>1, <2>3, FaultsBounded, Over
  <1>6. CASE req.parts # <<>>
    <2> DEFINE part == Head(req.parts)
               rest == Tail(req.parts)
               objects == {l \in Mine : l.step = part.step /\ l.n = part.n}
               first == ~\E i \in DOMAIN req.out : req.out[i] = Header(part.step)
               out == IF first THEN Append(req.out, Header(part.step)) ELSE req.out
               Continue(o) == /\ req' = [req EXCEPT !.parts = Tail(@), !.out = o]
                              /\ UNCHANGED <<job, answer>>
    <2>1. \/ objects = {} /\ Finish(TRUE, out) /\ UNCHANGED faults
          \/ Fault /\ Finish(TRUE, out)
          \/ Fault /\ Continue(Append(out, Cut(part)))
          \/ objects # {} /\ Continue(Append(out, CHOOSE l \in objects : TRUE)) /\ UNCHANGED faults
      BY <1>6 DEF ReadPart
    <2>2. /\ part \in LineSet /\ part = req.parts[1] /\ 1 \in DOMAIN req.parts
          /\ rest \in Seq(LineSet)
          /\ \A j \in DOMAIN rest : j + 1 \in DOMAIN req.parts /\ rest[j] = req.parts[j + 1] /\ j \in Nat /\ 1 < j + 1
          /\ \A j \in DOMAIN req.parts : j = 1 \/ (j - 1 \in DOMAIN rest /\ rest[j - 1] = req.parts[j])
      BY <1>3, <1>6
    <2>3. Header(part.step) \in Items /\ ~IsLine(Header(part.step))
          /\ Cut(part) \in Items /\ ~IsLine(Cut(part))
      <3> HIDE DEF part
      <3>1. part.step \in Names
        BY <2>2 DEF LineSet
      <3> QED BY <2>2, <3>1, ItemShapes DEF Items, Texts, Header, Cut
    <2>4. /\ out \in Seq(Items) /\ Own(out) /\ Ordered(out) /\ LinesIn(out) = LinesIn(req.out)
          /\ \A i \in LinesIn(req.out) : out[i] = req.out[i]
          /\ \A l : Has(req.out, l) => Has(out, l)
          /\ BrokenOff(req.out) => BrokenOff(out)
      <3>1. CASE first
        <4>1. out = Append(req.out, Header(part.step))
          BY <3>1
        <4> HIDE DEF out, part
        <4>2. PICK h \in Items : h = Header(part.step) /\ ~IsLine(h)
          BY <2>3
        <4>3. PICK sofar \in Seq(Items) : sofar = req.out
          BY <1>3
        <4>4. OneMore(out, sofar, h) /\ Own(sofar) /\ Ordered(sofar)
          BY <1>2, <4>1, <4>2, <4>3 DEF OneMore
        <4>5. /\ out \in Seq(Items) /\ Own(out) /\ Ordered(out) /\ LinesIn(out) = LinesIn(sofar)
              /\ \A i \in LinesIn(sofar) : out[i] = sofar[i]
          BY ONLY <4>2, <4>3, <4>4, AppendedText
        <4>6. /\ \A l : Has(sofar, l) => Has(out, l)
              /\ BrokenOff(sofar) => BrokenOff(out)
          BY ONLY <4>2, <4>3, <4>4, Appended
        <4> QED BY ONLY <4>3, <4>5, <4>6
      <3>2. CASE ~first
        <4>1. out = req.out
          BY <3>2
        <4> HIDE DEF out
        <4> QED BY <1>2, <1>3, <4>1
      <3> QED BY <3>1, <3>2
    <2>5. Mine' = Mine
      BY <1>1 DEF Mine, environment
    <2> HIDE DEF out, part, rest
    <2>6. CASE Finish(TRUE, out) /\ (Fault \/ UNCHANGED faults)
      <3>1. req' = Idle /\ job' = NoJob /\ answer' \in Answers /\ OwnLinesInOrder' /\ CompleteAnswer'
        BY <1>1, <1>2, <2>4, <2>6, Finished
      <3> QED BY <1>1, <2>6, <3>1, FaultsBounded, Over
    <2>7. ASSUME NEW o \in Seq(Items), Continue(o), Fault \/ UNCHANGED faults,
                 Own(o), Ordered(o),
                 \/ /\ \A i \in DOMAIN rest : rest[i] \in Mine
                    /\ \A i, j \in DOMAIN rest : i < j => Follows(rest[i], rest[j])
                    /\ \A i \in LinesIn(o), j \in DOMAIN rest : Follows(o[i], rest[j]),
                 kind # "TaskRunV1Beta1" /\ ~BrokenOff(o) =>
                     \A l \in req.seen :
                        \/ Has(o, l)
                        \/ \E j \in DOMAIN rest : rest[j].step = l.step /\ rest[j].n = l.n
          PROVE  IInv'
      <3>1. /\ req' \in Busy /\ req'.pc = "part" /\ req'.out = o /\ req'.parts = rest
            /\ req'.seen = req.seen /\ req'.rec = req.rec
        BY <1>1, <1>2, <2>2, <2>7 DEF Busy, rest
      <3>2. Phase'
        <4>1. "part" \in PhasesOf(setup.type)
          BY <1>2 DEF PhasesOf
        <4>2. req' # Idle /\ req'.pc # "fetch" /\ req'.pc # "check"
          BY <3>1 DEF Idle
        <4> QED BY <1>1, <1>2, <1>4, <2>5, <2>7, <3>1, <4>1, <4>2 DEF Phase
      <3>3. OutSound'
        BY <1>1, <2>5, <2>7, <3>1 DEF OutSound, Own, Ordered, LinesIn, Follows
      <3>4. JobSound'
        BY <1>4, <2>7 DEF JobSound
      <3>5. PartsFollow'
        <4>1. LinesIn(req.out)' = LinesIn(o)
          BY <3>1 DEF LinesIn
        <4>2. PICK ps : ps = rest
          OBVIOUS
        <4>3. /\ \A i \in DOMAIN ps : ps[i] \in Mine'
              /\ \A i, j \in DOMAIN ps : i < j => Follows(ps[i], ps[j])'
              /\ \A i \in LinesIn(o), j \in DOMAIN ps : Follows(o[i], ps[j])'
          BY <1>1, <2>5, <2>7, <4>2 DEF Follows
        <4>4. req'.parts = ps /\ req'.out = o
          BY <3>1, <4>2
        <4> QED BY <4>1, <4>3, <4>4 DEF PartsFollow
      <3>6. PartsCover'
        <4>1. SUFFICES ASSUME kind # "TaskRunV1Beta1", ~BrokenOff(o), NEW l \in req.seen
                       PROVE  \/ Has(o, l)
                              \/ \E j \in DOMAIN rest : rest[j].step = l.step /\ rest[j].n = l.n
          BY <1>1, <3>1 DEF PartsCover, BrokenOff, Has
        <4> QED BY <2>7, <4>1
      <3>7. PartsSound'
        BY <3>5, <3>6 DEF PartsSound
      <3>8. job' \in [state : {"none", "RUNNING", "DONE", "FAILED"}, rows : Seq(LineSet)]
        BY <1>1, <2>7 DEF Shapes
      <3> QED BY <1>1, <2>7, <3>1, <3>2, <3>3, <3>4, <3>7, <3>8, FaultsBounded, Moved
    <2>8. \/ /\ part \in Mine
             /\ \A i \in DOMAIN rest : rest[i] \in Mine
             /\ \A i, j \in DOMAIN rest : i < j => Follows(rest[i], rest[j])
             /\ \A j \in DOMAIN rest : Follows(part, rest[j])
             /\ \A i \in LinesIn(req.out), j \in DOMAIN rest : Follows(req.out[i], rest[j])
             /\ \A i \in LinesIn(req.out) : Follows(req.out[i], part)
          \/ DOMAIN rest = {} /\ LinesIn(req.out) = {}
      <3>1. CASE req.parts = LogPath /\ LinesIn(req.out) = {}
        <4>1. DOMAIN rest = {}
          <5>1. \A j \in DOMAIN rest : FALSE
            BY <2>2, <3>1, SinglePart
          <5> QED BY <5>1
        <4> QED BY <3>1, <4>1
      <3>2. CASE /\ \A i \in DOMAIN req.parts : req.parts[i] \in Mine
                 /\ \A i, j \in DOMAIN req.parts : i < j => Follows(req.parts[i], req.parts[j])
                 /\ \A i \in LinesIn(req.out), j \in DOMAIN req.parts : Follows(req.out[i], req.parts[j])
        <4>1. /\ part \in Mine /\ \A i \in DOMAIN rest : rest[i] \in Mine
              /\ \A j \in DOMAIN rest : Follows(part, rest[j])
              /\ \A i \in LinesIn(req.out), j \in DOMAIN rest : Follows(req.out[i], rest[j])
              /\ \A i \in LinesIn(req.out) : Follows(req.out[i], part)
          BY <2>2, <3>2
        <4>2. ASSUME NEW i \in DOMAIN rest, NEW j \in DOMAIN rest, i < j
              PROVE  Follows(rest[i], rest[j])
          <5>1. i + 1 < j + 1
            BY <2>2, <4>2
          <5> QED BY <2>2, <3>2, <5>1
        <4> QED BY <4>1, <4>2
      <3> QED BY <1>3, <3>1, <3>2 DEF PartsFollow
    <2>9. CASE Fault /\ Continue(Append(out, Cut(part)))
      <3> DEFINE o == Append(out, Cut(part))
      <3>o. OneMore(o, out, Cut(part)) /\ "cut" \in DOMAIN Cut(part)
        BY ItemShapes DEF OneMore
      <3> HIDE DEF o
      <3>1. /\ o \in Seq(Items) /\ Own(o) /\ Ordered(o) /\ LinesIn(o) = LinesIn(out)
            /\ \A i \in LinesIn(out) : o[i] = out[i]
        BY <2>3, <2>4, <3>o, AppendedText
      <3>2. BrokenOff(o)
        BY <2>3, <2>4, <3>o, Appended
      <3>3. /\ \A i \in DOMAIN rest : rest[i] \in Mine
            /\ \A i, j \in DOMAIN rest : i < j => Follows(rest[i], rest[j])
            /\ \A i \in LinesIn(o), j \in DOMAIN rest : Follows(o[i], rest[j])
        BY <2>4, <2>8, <3>1
      <3>4. Continue(o)
        BY <2>9 DEF o
      <3> HIDE DEF Continue
      <3> QED BY <2>7, <2>9, <3>1, <3>2, <3>3, <3>4
    <2>10. CASE objects # {} /\ Continue(Append(out, CHOOSE l \in objects : TRUE)) /\ UNCHANGED faults
      <3>1. PICK x \in objects : x = CHOOSE l \in objects : TRUE
        BY <2>10
      <3> DEFINE o == Append(out, x)
      <3>2. x \in Mine /\ x.step = part.step /\ x.n = part.n /\ x \in LineSet /\ x \in Items /\ IsLine(x)
            /\ "cut" \notin DOMAIN x
        BY MineShapes, ItemShapes
      <3>3. \A l \in Mine : l.step = part.step /\ l.n = part.n => l = x
        BY <3>2 DEF IInv, Delivered
      <3>4. /\ o \in Seq(Items) /\ LinesIn(o) = LinesIn(out) \cup {Len(out) + 1}
            /\ \A i \in LinesIn(out) : o[i] = out[i] /\ i \in Int /\ i < Len(out) + 1
            /\ o[Len(out) + 1] = x /\ Len(out) \in Nat
            /\ Has(o, x) /\ \A l : Has(out, l) => Has(o, l)
            /\ BrokenOff(o) <=> BrokenOff(out)
        <4>1. OneMore(o, out, x)
          BY DEF OneMore
        <4> HIDE DEF o
        <4> QED BY <2>4, <3>2, <4>1, Appended
      <3> HIDE DEF o
      <3>5. part \in Mine => part = x
        BY <3>3
      <3>6. \A i \in LinesIn(out) : Follows(out[i], x)
        BY <2>4, <2>8, <3>5
      <3>7. Own(o)
        BY <2>4, <3>2, <3>4 DEF Own
      <3>8. Ordered(o)
        <4> SUFFICES ASSUME NEW i \in LinesIn(o), NEW j \in LinesIn(o), i < j
                     PROVE  Follows(o[i], o[j])
          BY DEF Ordered
        <4>1. CASE i \in LinesIn(out) /\ j \in LinesIn(out)
          BY <2>4, <3>4, <4>1 DEF Ordered
        <4>2. CASE i \in LinesIn(out) /\ j = Len(out) + 1
          BY <3>4, <3>6, <4>2
        <4>3. CASE i = Len(out) + 1
          BY <3>4, <4>3
        <4> QED BY <3>4, <4>1, <4>2, <4>3
      <3>9. /\ \A i \in DOMAIN rest : rest[i] \in Mine
            /\ \A i, j \in DOMAIN rest : i < j => Follows(rest[i], rest[j])
            /\ \A i \in LinesIn(o), j \in DOMAIN rest : Follows(o[i], rest[j])
        BY <2>4, <2>8, <3>4, <3>5
      <3>10. ASSUME kind # "TaskRunV1Beta1", ~BrokenOff(o), NEW l \in req.seen
             PROVE  \/ Has(o, l)
                    \/ \E j \in DOMAIN rest : rest[j].step = l.step /\ rest[j].n = l.n
        <4>1. ~BrokenOff(req.out)
          BY <2>4, <3>4, <3>10
        <4>2. CASE Has(req.out, l)
          BY <2>4, <3>4, <4>2
        <4>3. CASE \E j \in DOMAIN req.parts : req.parts[j].step = l.step /\ req.parts[j].n = l.n
          <5>1. PICK j \in DOMAIN req.parts : req.parts[j].step = l.step /\ req.parts[j].n = l.n
            BY <4>3
          <5>2. CASE j = 1
            <6>1. l = x
              BY <1>4, <2>2, <3>3, <5>1, <5>2
            <6> QED BY <3>4, <6>1
          <5>3. CASE j # 1
            BY <2>2, <5>1, <5>3
          <5> QED BY <5>2, <5>3
        <4> QED BY <1>3, <3>10, <4>1, <4>2, <4>3 DEF PartsCover
      <3>11. Continue(o)
        BY <2>10, <3>1 DEF o
      <3> HIDE DEF Continue
      <3> QED BY <2>7, <2>10, <3>4, <3>7, <3>8, <3>9, <3>10, <3>11
    <2> QED BY <2>1, <2>6, <2>9, <2>10
  <1> QED BY <1>5, <1>6

----------------------------------------------------------------------------
(* Theorems                                                                *)

\* All steps preserve the invariant.
LEMMA NextSound == IInv /\ [Next]_vars => IInv'
  <1> SUFFICES ASSUME IInv, [Next]_vars PROVE IInv'
    OBVIOUS
  <1>1. CASE Tick \/ Complete \/ Archive \/ NewLogServer \/ RunJob
    BY <1>1, TickSound, CompleteSound, ArchiveSound, NewLogServerSound, RunJobSound
  <1>2. CASE Handle
    BY <1>2, RefuseSound, GetRecordSound, GetLokiLogsSound, WriteLinesSound, GetBlobLogsSound,
       ReadPartSound, CreateJobSound, PollTickSound, PollTimeoutSound, FetchSound DEF Handle
  <1>3. ASSUME NEW s \in Containers, Write(s) \/ Deliver(s)
        PROVE  IInv'
    BY <1>3, WriteSound, DeliverSound
  <1>4. ASSUME NEW via \in {"grpc", "http"}, Request(via)
        PROVE  IInv'
    BY <1>4, RequestSound
  <1>5. CASE UNCHANGED vars
    <2>1. UNCHANGED <<setup, server, kind, clock, completed, written, stored, rec, job, req, answer, faults>>
      BY <1>5 DEF vars
    <2>2. Mine' = Mine
      BY <2>1 DEF Mine
    <2>3. Shapes' /\ Delivered'
      BY <2>1, <2>2 DEF IInv, Shapes, Delivered
    <2> QED BY <2>1, <2>2, <2>3, Arrivals DEF IInv
  <1> QED BY <1>1, <1>2, <1>3, <1>4, <1>5 DEF Next

\* It is an invariant.
LEMMA Invariance == Spec => []IInv
  BY InitSound, NextSound, PTL DEF Spec

\* The state of the plugin, of a request and of a search stays well formed: a
\* Record has no other completion time than its run, a request has read its
\* Record when it gets to a back end, only Splunk has jobs, and polls end
\* (LogServer, getLog, pollSplunkJobStatus).
THEOREM PluginTypeCorrect == Spec => []TypeOK
  <1>1. IInv => TypeOK
    <2> SUFFICES ASSUME IInv PROVE TypeOK
      OBVIOUS
    <2>1. \A s \in DOMAIN written : written[s] \in 0..MaxLines
      BY DEF IInv, Shapes
    <2>2. job.state \in {"none", "RUNNING", "DONE", "FAILED"} /\ answer.status \in Statuses
      BY DEF IInv, Shapes, Answers
    <2>3. ASSUME req # Idle
          PROVE  /\ req.pc \in {"check", "loki", "blob", "splunk", "write", "part", "poll", "fetch"}
                 /\ req.ticks \in 0..PollTicks
                 /\ req.rec.exists <=> req.pc # "check"
                 /\ job.state # "none" => setup.type = "splunk"
      BY <2>3 DEF IInv, Shapes, Phase, Busy
    <2> QED BY <2>1, <2>2, <2>3 DEF IInv, Shapes, TypeOK, Statuses
  <1> QED BY <1>1, Invariance, PTL

\* However lines arrive and calls fail, an answer shows lines of the run that was
\* asked for only, none twice, and those a container delivered at different times
\* in their order (getLokiLogs, getBlobLogs, mergeLogParts, getSplunkLogs).
THEOREM AnswersInOrder == Spec => []OwnLinesInOrder
  <1>1. IInv => OwnLinesInOrder
    BY DEF IInv
  <1> QED BY <1>1, Invariance, PTL

\* An HTTP answer that shows no error and no part that broke off has all lines the
\* back end had when it was asked, up to the delay and within the limit
\* (getLogRequestParams, getLokiLogs, getBlobLogs, getSplunkLogs).
THEOREM AnswersComplete == Spec => []CompleteAnswer
  <1>1. IInv => CompleteAnswer
    BY DEF IInv
  <1> QED BY <1>1, Invariance, PTL

=============================================================================
