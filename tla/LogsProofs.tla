----------------------------- MODULE LogsProofs -----------------------------
(***************************************************************************)
(* Proofs about the log API, for any number of goroutines that stream the  *)
(* log, of chunks, failed calls and crashes, and every storage type.       *)
(***************************************************************************)
EXTENDS Logs, SequenceTheorems, TLAPS

----------------------------------------------------------------------------
(* Goroutines and their handlers                                           *)

HandlerSteps == {"none", "recv", "record", "tostream", "write", "return", "save", "flush", "end"}

\* The handlers there may be when n etags are handed out, of a log of m chunks.
Uploads(m) == [parts: Seq(1..m), buf: Seq(1..m), aborted: BOOLEAN]

Handlers(n, m) ==
    [pc: HandlerSteps, etag: 0..n, got: 0..m, size: Nat, up: Uploads(m), streaming: BOOLEAN,
     stray: BOOLEAN, err: {"none", "EOF", "error"}, answer: {"none", "ok", "EOF", "error"}]

Opening == {"idle", "lookup", "put", "create", "annotate", "stream"}

\* In the loop of UpdateLog, and after it.
Receiving == {"recv", "record", "tostream", "write"}
Returning == {"return", "save", "flush"}

\* What a goroutine (at x), its handler (at y) and the stream between them know
\* of one another. The stream is opened once; the n chunks of the log are sent
\* before the answer is awaited; a handler that has received something has
\* looked up the Record and then opened the store; it sees the end of the
\* stream after the last chunk, and updates the Record it looked up.
Wired(x, y, n) ==
    /\ x.pc \in Opening => y = NoHandler
    /\ x.pc = "await" => x.sent = n
    /\ y.pc # "end" => y.answer = "none"
    /\ y.pc \in {"record", "tostream", "write"} => y.got > 0
    /\ y.pc = "recv" => (y.streaming <=> y.got > 0)
    /\ y.pc \in {"record", "tostream"} => ~y.streaming /\ y.got = 1
    /\ y.pc = "write" => y.streaming
    /\ y.pc \in Receiving => (y.etag = 0 <=> y.pc = "record" \/ y.got = 0)
    /\ y.pc \in Returning /\ y.err = "EOF" =>
          y.got = n /\ (y.streaming <=> n > 0) /\ (y.etag = 0 <=> n = 0)
    /\ y.pc \in {"save", "flush"} => y.etag # 0
    /\ y.stray => y.pc \in Returning \cup {"end"}

StreamsWired == \A g \in Senders : Wired(s[g], h[g], total)

SenderSteps == {"idle", "lookup", "put", "create", "annotate", "stream", "send", "await", "done"}

SenderStates(m) == [pc: SenderSteps, sent: 0..m]

----------------------------------------------------------------------------
(* Type correctness                                                        *)

\* The types, with the handlers' spelled out.
LEMMA Types ==
    TypeOK <=>
        /\ type \in LogTypes /\ total \in Lengths
        /\ rec \in [etag: 0..clock, stored: BOOLEAN, size: Nat]
        /\ clock \in Nat
        /\ object \in Seq(0..total)
        /\ s \in [Senders -> SenderStates(total)]
        /\ open \in [Senders -> BOOLEAN]
        /\ h \in [Senders -> Handlers(clock, total)]
        /\ reader \in [pc: {"idle", "opened", "served"}, answer: Seq(0..total)]
        /\ deleter \in [pc: {"idle", "object", "row", "end"}, etag: 0..clock]
        /\ faults \in 0..MaxFaults
  BY DEF TypeOK, SenderStates, SenderSteps, Handlers, HandlerSteps, Uploads

\* More etags, more handlers.
LEMMA MoreHandlers ==
    ASSUME NEW n \in Nat, NEW m \in Nat, NEW k \in Nat, n <= k
    PROVE  Handlers(n, m) \subseteq Handlers(k, m)
  <1>1. 0..n \subseteq 0..k
    OBVIOUS
  <1> QED BY <1>1 DEF Handlers

\* A handler that has not started, and one that has answered.
LEMMA NewHandlers ==
    ASSUME NEW n \in Nat, NEW m \in Nat
    PROVE  /\ NoHandler \in Handlers(n, m)
           /\ NewUpload \in Uploads(m)
           /\ \A a \in {"none", "ok", "EOF", "error"}, b \in BOOLEAN :
                 [NoHandler EXCEPT !.pc = "end", !.answer = a, !.stray = b] \in Handlers(n, m)
  <1>1. NewUpload \in Uploads(m)
    BY DEF NewUpload, Uploads
  <1>2. NoHandler \in Handlers(n, m)
    BY <1>1 DEF NoHandler, Handlers, HandlerSteps
  <1>3. ASSUME NEW a \in {"none", "ok", "EOF", "error"}, NEW b \in BOOLEAN
        PROVE  [NoHandler EXCEPT !.pc = "end", !.answer = a, !.stray = b] \in Handlers(n, m)
    BY <1>2 DEF Handlers, HandlerSteps
  <1> QED BY <1>1, <1>2, <1>3

\* The edits of a handler.
LEMMA HandlerEdits ==
    ASSUME NEW n \in Nat, NEW m \in Nat, NEW y \in Handlers(n, m)
    PROVE  /\ \A p \in HandlerSteps : [y EXCEPT !.pc = p] \in Handlers(n, m)
           /\ \A p \in HandlerSteps, e \in {"none", "EOF", "error"} :
                 [y EXCEPT !.pc = p, !.err = e] \in Handlers(n, m)
           /\ \A p \in HandlerSteps, i \in 0..m :
                 [y EXCEPT !.got = i, !.pc = p] \in Handlers(n, m)
           /\ \A i \in 0..n : [y EXCEPT !.pc = "tostream", !.etag = i] \in Handlers(n, m)
           /\ [y EXCEPT !.pc = "write", !.streaming = TRUE] \in Handlers(n, m)
           /\ \A u \in Uploads(m), k \in Nat :
                 [y EXCEPT !.pc = "recv", !.up = u, !.size = k] \in Handlers(n, m)
           /\ \A u \in Uploads(m), b \in BOOLEAN :
                 [y EXCEPT !.pc = "return", !.err = "error", !.stray = b, !.up = u]
                     \in Handlers(n, m)
  <1> USE DEF Handlers, HandlerSteps
  <1>1. \A p \in HandlerSteps : [y EXCEPT !.pc = p] \in Handlers(n, m)
    OBVIOUS
  <1>2. \A p \in HandlerSteps, e \in {"none", "EOF", "error"} :
                 [y EXCEPT !.pc = p, !.err = e] \in Handlers(n, m)
    OBVIOUS
  <1>3. \A p \in HandlerSteps, i \in 0..m : [y EXCEPT !.got = i, !.pc = p] \in Handlers(n, m)
    OBVIOUS
  <1>4. \A i \in 0..n : [y EXCEPT !.pc = "tostream", !.etag = i] \in Handlers(n, m)
    OBVIOUS
  <1>5. [y EXCEPT !.pc = "write", !.streaming = TRUE] \in Handlers(n, m)
    OBVIOUS
  <1>6. \A u \in Uploads(m), k \in Nat :
                 [y EXCEPT !.pc = "recv", !.up = u, !.size = k] \in Handlers(n, m)
    OBVIOUS
  <1>7. \A u \in Uploads(m), b \in BOOLEAN :
                 [y EXCEPT !.pc = "return", !.err = "error", !.stray = b, !.up = u]
                     \in Handlers(n, m)
    OBVIOUS
  <1> QED BY <1>1, <1>2, <1>3, <1>4, <1>5, <1>6, <1>7

\* A step of g's handler leaves a state well formed and wired if the handler is.
LEMMA HandlerStep ==
    ASSUME TypeOK, StreamsWired, NEW g \in Senders, NEW y \in Handlers(clock', total),
           h' = [h EXCEPT ![g] = y], Wired(s[g], y, total), UnchangedButHandler,
           clock' \in Nat, clock <= clock',
           rec' \in [etag: 0..clock', stored: BOOLEAN, size: Nat],
           object' \in Seq(0..total), faults' \in 0..MaxFaults
    PROVE  TypeOK' /\ StreamsWired'
  <1>t. /\ type \in LogTypes /\ total \in Lengths /\ clock \in Nat /\ total \in Nat
        /\ s \in [Senders -> SenderStates(total)] /\ open \in [Senders -> BOOLEAN]
        /\ h \in [Senders -> Handlers(clock, total)]
        /\ reader \in [pc: {"idle", "opened", "served"}, answer: Seq(0..total)]
        /\ deleter \in [pc: {"idle", "object", "row", "end"}, etag: 0..clock]
    BY Types, LogsAssumption
  <1>1. h' \in [Senders -> Handlers(clock', total)]
    BY <1>t, MoreHandlers
  <1>2. deleter' \in [pc: {"idle", "object", "row", "end"}, etag: 0..clock']
    <2>1. 0..clock \subseteq 0..clock'
      BY <1>t
    <2> QED BY <1>t, <2>1 DEF UnchangedButHandler
  <1>3. TypeOK'
    BY <1>t, <1>1, <1>2 DEF UnchangedButHandler, TypeOK, SenderStates, SenderSteps, Handlers,
                            HandlerSteps, Uploads
  <1>4. h'[g] = y /\ \A k \in Senders : k # g => h'[k] = h[k]
    BY <1>t
  <1>5. \A k \in Senders : Wired(s'[k], h'[k], total')
    BY <1>4 DEF StreamsWired, UnchangedButHandler
  <1> QED BY <1>3, <1>5 DEF StreamsWired

\* So does a step of the goroutine g.
LEMMA SenderStep ==
    ASSUME TypeOK, StreamsWired, NEW g \in Senders, NEW x \in SenderStates(total),
           s' = [s EXCEPT ![g] = x], Wired(x, h[g], total),
           UNCHANGED <<type, total, object, h, reader, deleter>>,
           open' \in [Senders -> BOOLEAN], clock' \in Nat, clock <= clock',
           rec' \in [etag: 0..clock', stored: BOOLEAN, size: Nat],
           faults' \in 0..MaxFaults
    PROVE  TypeOK' /\ StreamsWired'
  <1>t. /\ type \in LogTypes /\ total \in Lengths /\ clock \in Nat /\ total \in Nat
        /\ object \in Seq(0..total) /\ s \in [Senders -> SenderStates(total)]
        /\ h \in [Senders -> Handlers(clock, total)]
        /\ reader \in [pc: {"idle", "opened", "served"}, answer: Seq(0..total)]
        /\ deleter \in [pc: {"idle", "object", "row", "end"}, etag: 0..clock]
    BY Types, LogsAssumption
  <1>1. h' \in [Senders -> Handlers(clock', total)]
    BY <1>t, MoreHandlers
  <1>2. deleter' \in [pc: {"idle", "object", "row", "end"}, etag: 0..clock']
    <2>1. 0..clock \subseteq 0..clock'
      BY <1>t
    <2> QED BY <1>t, <2>1
  <1>3. s' \in [Senders -> SenderStates(total)]
    BY <1>t
  <1>4. TypeOK'
    BY <1>t, <1>1, <1>2, <1>3 DEF TypeOK, SenderStates, SenderSteps, Handlers, HandlerSteps,
                                  Uploads
  <1>5. s'[g] = x /\ \A k \in Senders : k # g => s'[k] = s[k]
    BY <1>t
  <1>6. \A k \in Senders : Wired(s'[k], h'[k], total')
    BY <1>5 DEF StreamsWired
  <1> QED BY <1>4, <1>6 DEF StreamsWired

\* Taking in a chunk leaves an upload.
LEMMA TakenType ==
    ASSUME TypeOK, NEW u \in Uploads(total), NEW c \in 1..total
    PROVE  Taken(u, c) \in Uploads(total) /\ Counted(u) \in Nat
           /\ Stored(c) \in Seq(0..total)
  <1>0. u.buf \in Seq(1..total) /\ u.parts \in Seq(1..total) /\ type \in {"File", "S3", "GCS"}
        /\ object \in Seq(0..total) /\ total \in Nat
    BY LogsAssumption DEF Uploads, TypeOK
  <1>1. /\ Append(u.buf, c) \in Seq(1..total)
        /\ u.parts \o Append(u.buf, c) \in Seq(1..total)
        /\ <<>> \in Seq(1..total)
    BY <1>0
  <1>2. Taken(u, c) \in Uploads(total)
    BY <1>1 DEF Taken, Uploads
  <1>3. Counted(u) \in Nat
    BY <1>0 DEF Counted
  <1>4. Stored(c) \in Seq(0..total)
    <2>1. c \in 0..total /\ Append(object, c) \in Seq(0..total) /\ <<c>> \in Seq(0..total)
      BY <1>0
    <2> QED BY <1>0, <2>1 DEF Stored
  <1> QED BY <1>2, <1>3, <1>4

\* The steps of the goroutine g.
LEMMA SenderActionType ==
    ASSUME TypeOK, StreamsWired, NEW g \in Senders,
           SendLog(g) \/ GetLogRecord(g) \/ PutLogGet(g) \/ CreateLogRecord(g)
           \/ PatchLogAnnotation(g) \/ SendChunk(g) \/ CloseSend(g) \/ RecvSummary(g) \/ Timeout(g)
    PROVE  TypeOK' /\ StreamsWired'
  <1>t. /\ clock \in Nat /\ total \in Nat /\ MaxFaults \in Nat /\ faults \in 0..MaxFaults
        /\ s \in [Senders -> SenderStates(total)] /\ open \in [Senders -> BOOLEAN]
        /\ rec \in [etag: 0..clock, stored: BOOLEAN, size: Nat]
    BY Types, LogsAssumption
  <1>w. Wired(s[g], h[g], total) /\ s[g] \in SenderStates(total)
    BY <1>t DEF StreamsWired
  <1>f. UNCHANGED faults \/ Fault => faults' \in 0..MaxFaults
    BY <1>t DEF Fault
  <1>g. ASSUME NEW p \in SenderSteps, s' = [s EXCEPT ![g].pc = p], open' \in [Senders -> BOOLEAN],
               UNCHANGED <<type, total, object, h, reader, deleter>>,
               clock' \in Nat, clock <= clock',
               rec' \in [etag: 0..clock', stored: BOOLEAN, size: Nat],
               UNCHANGED faults \/ Fault,
               Wired([s[g] EXCEPT !.pc = p], h[g], total)
        PROVE  TypeOK' /\ StreamsWired'
    <2>1. s' = [s EXCEPT ![g] = [s[g] EXCEPT !.pc = p]]
      BY <1>g
    <2>2. [s[g] EXCEPT !.pc = p] \in SenderStates(total)
      BY <1>w DEF SenderStates
    <2> HIDE DEF Wired, Fault
    <2> QED BY <1>g, <1>f, <2>1, <2>2, SenderStep
  <1>h. ASSUME s[g].pc # "await", NEW p \in SenderSteps \ {"await"},
               p \in Opening => s[g].pc \in Opening
        PROVE  Wired([s[g] EXCEPT !.pc = p], h[g], total)
    BY <1>h, <1>w DEF Wired, SenderStates
  <1>d. Wired([s[g] EXCEPT !.pc = "done"], h[g], total)
    BY <1>w DEF Wired, SenderStates, Opening
  <1>e. ASSUME Finish(g), UNCHANGED faults \/ Fault,
               UNCHANGED <<type, total, object, h, reader, deleter>>,
               clock' \in Nat, clock <= clock',
               rec' \in [etag: 0..clock', stored: BOOLEAN, size: Nat]
        PROVE  TypeOK' /\ StreamsWired'
    <2>1. s' = [s EXCEPT ![g].pc = "done"] /\ open' \in [Senders -> BOOLEAN]
      BY <1>e, <1>t DEF Finish, Goto
    <2> QED BY <1>e, <1>d, <2>1, <1>g DEF SenderSteps
  <1>s. UNCHANGED store => /\ clock' \in Nat /\ clock <= clock'
                           /\ rec' \in [etag: 0..clock', stored: BOOLEAN, size: Nat]
    BY <1>t DEF store
  <1>1. CASE SendLog(g)
    <2>1. /\ s' = [s EXCEPT ![g].pc = "lookup"] /\ open' \in [Senders -> BOOLEAN]
          /\ UNCHANGED faults /\ UNCHANGED <<type, total, object, h, reader, deleter>>
          /\ UNCHANGED store
      BY <1>1, <1>t DEF SendLog, UnchangedButSender, store
    <2>2. Wired([s[g] EXCEPT !.pc = "lookup"], h[g], total)
      BY <1>1, <1>h DEF SendLog, SenderSteps, Opening
    <2> QED BY <2>1, <2>2, <1>s, <1>g DEF SenderSteps
  <1>2. CASE GetLogRecord(g)
    <2>0. UNCHANGED <<type, total, object, h, reader, deleter>> /\ UNCHANGED store
      BY <1>2 DEF GetLogRecord, UnchangedButSender, store
    <2>1. CASE Finish(g)
      BY <1>2, <2>0, <2>1, <1>e, <1>s DEF GetLogRecord
    <2>2. CASE Goto(g, "put") /\ UNCHANGED <<open, faults>>
      <3>1. Wired([s[g] EXCEPT !.pc = "put"], h[g], total)
        BY <1>2, <1>h DEF GetLogRecord, SenderSteps, Opening
      <3> QED BY <2>0, <2>2, <3>1, <1>s, <1>g, <1>t DEF SenderSteps, Goto
    <2> QED BY <1>2, <2>1, <2>2 DEF GetLogRecord
  <1>3. CASE PutLogGet(g)
    <2>0. UNCHANGED <<type, total, object, h, reader, deleter>> /\ UNCHANGED store
      BY <1>3 DEF PutLogGet, UnchangedButSender, store
    <2>1. CASE Finish(g)
      BY <1>3, <2>0, <2>1, <1>e, <1>s DEF PutLogGet
    <2>2. ASSUME NEW p \in {"annotate", "create"}, Goto(g, p), UNCHANGED <<open, faults>>
          PROVE  TypeOK' /\ StreamsWired'
      <3>1. Wired([s[g] EXCEPT !.pc = p], h[g], total)
        BY <1>3, <1>h DEF PutLogGet, SenderSteps, Opening
      <3> QED BY <2>0, <2>2, <3>1, <1>s, <1>g, <1>t DEF SenderSteps, Goto
    <2> QED BY <1>3, <2>1, <2>2 DEF PutLogGet
  <1>4. CASE CreateLogRecord(g)
    <2>0. UNCHANGED <<type, total, object, h, reader, deleter>>
      BY <1>4 DEF CreateLogRecord
    <2>1. /\ clock' \in Nat /\ clock <= clock'
          /\ rec' \in [etag: 0..clock', stored: BOOLEAN, size: Nat]
      <3>1. CASE UNCHANGED <<rec, clock>>
        BY <3>1, <1>t
      <3>2. CASE clock' = clock + 1 /\ rec' = [NoRecord EXCEPT !.etag = clock + 1]
        <4>1. rec' = [etag |-> clock + 1, stored |-> FALSE, size |-> 0]
          BY <3>2 DEF NoRecord
        <4>2. clock + 1 \in 0..clock' /\ clock' \in Nat /\ clock <= clock'
          BY <3>2, <1>t
        <4> QED BY <4>1, <4>2
      <3> QED BY <1>4, <3>1, <3>2 DEF CreateLogRecord
    <2>2. CASE Finish(g)
      BY <1>4, <2>0, <2>1, <2>2, <1>e DEF CreateLogRecord
    <2>3. CASE Goto(g, "annotate") /\ UNCHANGED <<open, faults>>
      <3>1. Wired([s[g] EXCEPT !.pc = "annotate"], h[g], total)
        BY <1>4, <1>h DEF CreateLogRecord, SenderSteps, Opening
      <3> QED BY <2>0, <2>1, <2>3, <3>1, <1>g, <1>t DEF SenderSteps, Goto
    <2> QED BY <1>4, <2>2, <2>3 DEF CreateLogRecord
  <1>5. CASE PatchLogAnnotation(g)
    <2>0. UNCHANGED <<type, total, object, h, reader, deleter>> /\ UNCHANGED store
      BY <1>5 DEF PatchLogAnnotation, UnchangedButSender, store
    <2>1. CASE Finish(g)
      BY <1>5, <2>0, <2>1, <1>e, <1>s DEF PatchLogAnnotation
    <2>2. CASE Goto(g, "stream") /\ UNCHANGED <<open, faults>>
      <3>1. Wired([s[g] EXCEPT !.pc = "stream"], h[g], total)
        BY <1>5, <1>h DEF PatchLogAnnotation, SenderSteps, Opening
      <3> QED BY <2>0, <2>2, <3>1, <1>s, <1>g, <1>t DEF SenderSteps, Goto
    <2> QED BY <1>5, <2>1, <2>2 DEF PatchLogAnnotation
  <1>6. CASE SendChunk(g)
    <2>0. UNCHANGED <<type, total, object, h, reader, deleter>> /\ UNCHANGED store
      BY <1>6 DEF SendChunk, UnchangedButSender, store
    <2>1. CASE Finish(g)
      BY <1>6, <2>0, <2>1, <1>e, <1>s DEF SendChunk
    <2>2. CASE s' = [s EXCEPT ![g].sent = @ + 1] /\ UNCHANGED <<open, faults>>
      <3> DEFINE x == [s[g] EXCEPT !.sent = s[g].sent + 1]
      <3>1. s[g].sent < total /\ s[g].pc = "send"
        BY <1>6 DEF SendChunk
      <3>2. x \in SenderStates(total)
        BY <3>1, <1>w, <1>t DEF SenderStates
      <3>3. Wired(x, h[g], total)
        BY <3>1, <1>w DEF Wired, SenderStates, Opening
      <3>4. s' = [s EXCEPT ![g] = x]
        BY <2>2
      <3> HIDE DEF x
      <3> QED BY <2>0, <2>2, <3>2, <3>3, <3>4, <1>t, <1>s, SenderStep
    <2> QED BY <1>6, <2>1, <2>2 DEF SendChunk
  <1>7. CASE CloseSend(g)
    <2>1. Wired([s[g] EXCEPT !.pc = "await"], h[g], total)
      BY <1>7, <1>w DEF CloseSend, Wired, SenderStates, Opening
    <2>2. /\ s' = [s EXCEPT ![g].pc = "await"] /\ open' \in [Senders -> BOOLEAN]
          /\ UNCHANGED faults /\ UNCHANGED <<type, total, object, h, reader, deleter>>
          /\ UNCHANGED store
      BY <1>7, <1>t DEF CloseSend, UnchangedButSender, store, Goto
    <2> QED BY <2>1, <2>2, <1>s, <1>g DEF SenderSteps
  <1>8. CASE RecvSummary(g) \/ Timeout(g)
    BY <1>8, <1>e, <1>s DEF RecvSummary, Timeout, UnchangedButSender, store
  <1> QED BY <1>1, <1>2, <1>3, <1>4, <1>5, <1>6, <1>7, <1>8

\* The steps of the handler of g.
LEMMA HandlerActionType ==
    ASSUME TypeOK, StreamsWired, NEW g \in Senders, Handler(g)
    PROVE  TypeOK' /\ StreamsWired'
  <1>t. /\ clock \in Nat /\ total \in Nat /\ MaxFaults \in Nat /\ faults \in 0..MaxFaults
        /\ s \in [Senders -> SenderStates(total)] /\ open \in [Senders -> BOOLEAN]
        /\ rec \in [etag: 0..clock, stored: BOOLEAN, size: Nat]
        /\ h \in [Senders -> Handlers(clock, total)] /\ object \in Seq(0..total)
    BY Types, LogsAssumption
  <1>w. /\ Wired(s[g], h[g], total) /\ s[g] \in SenderStates(total)
        /\ h[g] \in Handlers(clock, total)
    BY <1>t DEF StreamsWired
  <1>f. /\ UNCHANGED faults \/ Fault => faults' \in 0..MaxFaults
        /\ Ok(g) \/ Fails(g) => UNCHANGED faults \/ Fault
    BY <1>t DEF Fault, Ok, Fails
  <1>g. ASSUME NEW y \in Handlers(clock, total), h' = [h EXCEPT ![g] = y],
               Wired(s[g], y, total), UnchangedButHandler,
               UNCHANGED <<rec, clock>>, object' \in Seq(0..total), UNCHANGED faults \/ Fault
        PROVE  TypeOK' /\ StreamsWired'
    <2>1. /\ clock' \in Nat /\ clock <= clock' /\ y \in Handlers(clock', total)
          /\ rec' \in [etag: 0..clock', stored: BOOLEAN, size: Nat]
      BY <1>g, <1>t
    <2> HIDE DEF Wired, Fault
    <2> QED BY <1>g, <1>f, <2>1, HandlerStep
  <1>e. ASSUME NEW p \in {"return", "flush"}, h[g].pc \in Receiving \cup Returning,
               p = "flush" => h[g].etag # 0
        PROVE  /\ [h[g] EXCEPT !.pc = p, !.err = "error"] \in Handlers(clock, total)
               /\ Wired(s[g], [h[g] EXCEPT !.pc = p, !.err = "error"], total)
    <2>1. [h[g] EXCEPT !.pc = p, !.err = "error"] \in Handlers(clock, total)
      BY <1>t, <1>w, HandlerEdits DEF HandlerSteps
    <2>2. Wired(s[g], [h[g] EXCEPT !.pc = p, !.err = "error"], total)
      BY <1>w, <1>e DEF Wired, Handlers, Receiving, Returning, NoHandler
    <2> QED BY <2>1, <2>2
  <1>r. ASSUME NEW p \in {"return", "flush"}, h[g].pc \in Receiving \cup Returning,
               p = "flush" => h[g].etag # 0,
               h' = [h EXCEPT ![g].pc = p, ![g].err = "error"], UnchangedButHandler,
               UNCHANGED <<rec, clock>>, object' \in Seq(0..total), UNCHANGED faults \/ Fault
        PROVE  TypeOK' /\ StreamsWired'
    <2>1. h' = [h EXCEPT ![g] = [h[g] EXCEPT !.pc = p, !.err = "error"]]
      BY <1>r, <1>t
    <2> HIDE DEF Wired, Fault
    <2> QED BY <1>r, <1>e, <1>g, <2>1
  <1>a. ASSUME NEW a \in {"ok", "EOF", "error"}, Answer(g, a), h[g].pc \in Receiving \cup Returning,
               UnchangedButHandler,
               UNCHANGED <<rec, clock>>, object' \in Seq(0..total), UNCHANGED faults \/ Fault
        PROVE  TypeOK' /\ StreamsWired'
    <2> DEFINE y == [NoHandler EXCEPT !.pc = "end", !.answer = a, !.stray = h[g].stray]
    <2>1. h' = [h EXCEPT ![g] = y]
      BY <1>a DEF Answer, Gone
    <2>2. h[g].stray \in BOOLEAN
      BY <1>w DEF Handlers
    <2>3. y \in Handlers(clock, total)
      BY <1>t, <2>2, NewHandlers
    <2>4. Wired(s[g], y, total)
      BY <1>w, <1>a DEF Wired, NoHandler, Receiving, Returning
    <2> HIDE DEF y
    <2> QED BY <1>a, <1>g, <2>1, <2>3, <2>4
  <1>1. CASE Recv(g)
    <2>0. UnchangedButHandler /\ UNCHANGED <<rec, clock>> /\ object' \in Seq(0..total)
          /\ UNCHANGED faults /\ h[g].pc = "recv"
      BY <1>1, <1>t DEF Recv, store
    <2>1. CASE /\ h[g].got < s[g].sent
               /\ h' = [h EXCEPT ![g].got = @ + 1,
                            ![g].pc = IF h[g].streaming THEN "write" ELSE "record"]
      <3> DEFINE p == IF h[g].streaming THEN "write" ELSE "record"
                 y == [h[g] EXCEPT !.got = h[g].got + 1, !.pc = p]
      <3>1. h' = [h EXCEPT ![g] = y]
        BY <2>1, <1>t
      <3>2. h[g].got + 1 \in 0..total /\ p \in HandlerSteps
        BY <2>1, <1>t, <1>w DEF Handlers, SenderStates, HandlerSteps
      <3>3. y \in Handlers(clock, total)
        BY <3>2, <1>t, <1>w, HandlerEdits
      <3>4. Wired(s[g], y, total)
        BY <2>0, <1>w DEF Wired, Handlers, Receiving, Returning, NoHandler
      <3> HIDE DEF y
      <3> QED BY <2>0, <3>1, <3>3, <3>4, <1>g
    <2>2. CASE s[g].pc = "await" /\ h[g].got = s[g].sent /\ Return(g, "EOF")
      <3> DEFINE y == [h[g] EXCEPT !.pc = "return", !.err = "EOF"]
      <3>1. h' = [h EXCEPT ![g] = y]
        BY <2>2, <1>t DEF Return
      <3>2. y \in Handlers(clock, total)
        BY <1>t, <1>w, HandlerEdits DEF HandlerSteps
      <3>3. Wired(s[g], y, total)
        BY <2>0, <2>2, <1>t, <1>w DEF Wired, Handlers, SenderStates, Receiving, Returning, NoHandler
      <3> HIDE DEF y
      <3> QED BY <2>0, <3>1, <3>2, <3>3, <1>g
    <2>3. CASE Return(g, "error")
      BY <2>0, <2>3, <1>r DEF Return, Receiving
    <2> QED BY <1>1, <2>1, <2>2, <2>3 DEF Recv
  <1>2. CASE GetRecord(g)
    <2>0. UnchangedButHandler /\ UNCHANGED <<rec, clock>> /\ object' \in Seq(0..total)
          /\ (UNCHANGED faults \/ Fault) /\ h[g].pc = "record"
      BY <1>2, <1>f, <1>t DEF GetRecord, store
    <2>1. CASE Exists /\ h' = [h EXCEPT ![g].pc = "tostream", ![g].etag = rec.etag]
      <3> DEFINE y == [h[g] EXCEPT !.pc = "tostream", !.etag = rec.etag]
      <3>1. h' = [h EXCEPT ![g] = y]
        BY <2>1, <1>t
      <3>2. y \in Handlers(clock, total)
        BY <1>t, <1>w, HandlerEdits
      <3>3. Wired(s[g], y, total)
        BY <2>0, <2>1, <1>t, <1>w DEF Wired, Handlers, Receiving, Returning, NoHandler, Exists
      <3> HIDE DEF y
      <3> QED BY <2>0, <3>1, <3>2, <3>3, <1>g
    <2>2. CASE Return(g, "error")
      BY <2>0, <2>2, <1>r DEF Return, Receiving
    <2> QED BY <1>2, <2>1, <2>2 DEF GetRecord
  <1>3. CASE ToStream(g)
    <2>0. UnchangedButHandler /\ UNCHANGED <<rec, clock>> /\ object' \in Seq(0..total)
          /\ (UNCHANGED faults \/ Fault) /\ h[g].pc = "tostream"
      BY <1>3, <1>f, <1>t DEF ToStream, store
    <2>1. CASE h' = [h EXCEPT ![g].pc = "write", ![g].streaming = TRUE]
      <3> DEFINE y == [h[g] EXCEPT !.pc = "write", !.streaming = TRUE]
      <3>1. h' = [h EXCEPT ![g] = y]
        BY <2>1, <1>t
      <3>2. y \in Handlers(clock, total)
        BY <1>t, <1>w, HandlerEdits
      <3>3. Wired(s[g], y, total)
        BY <2>0, <1>t, <1>w DEF Wired, Handlers, Receiving, Returning, NoHandler
      <3> HIDE DEF y
      <3> QED BY <2>0, <3>1, <3>2, <3>3, <1>g
    <2>2. CASE Return(g, "error")
      BY <2>0, <2>2, <1>r DEF Return, Receiving
    <2> QED BY <1>3, <2>1, <2>2 DEF ToStream
  <1>4. CASE ReadFrom(g)
    <2> DEFINE c == h[g].got
               u == h[g].up
    <2>0. UnchangedButHandler /\ UNCHANGED <<rec, clock>> /\ h[g].pc = "write"
          /\ (UNCHANGED faults \/ Fault)
      BY <1>4, <1>f DEF ReadFrom
    <2>1. u \in Uploads(total) /\ c \in 1..total /\ h[g].size \in Nat
      BY <1>t, <1>w, <2>0 DEF Handlers, Wired
    <2>2. Taken(u, c) \in Uploads(total) /\ Counted(u) \in Nat /\ Stored(c) \in Seq(0..total)
      BY <2>1, TakenType
    <2>3. CASE /\ object' = Stored(c)
               /\ h' = [h EXCEPT ![g].pc = "recv", ![g].up = Taken(u, c),
                                 ![g].size = @ + Counted(u)]
      <3> DEFINE y == [h[g] EXCEPT !.pc = "recv", !.up = Taken(u, c),
                                   !.size = h[g].size + Counted(u)]
      <3>1. h' = [h EXCEPT ![g] = y]
        BY <2>3, <1>t
      <3>2. y \in Handlers(clock, total)
        <4>1. h[g].size + Counted(u) \in Nat
          BY <2>1, <2>2
        <4> HIDE DEF u
        <4> QED BY <2>2, <4>1, <1>t, <1>w, HandlerEdits
      <3>3. Wired(s[g], y, total)
        BY <2>0, <2>1, <1>t, <1>w DEF Wired, Handlers, Receiving, Returning, NoHandler
      <3> HIDE DEF y
      <3> QED BY <2>0, <2>2, <2>3, <3>1, <3>2, <3>3, <1>g
    <2>4. CASE Return(g, "error") /\ object' \in {object, Append(object, Torn)}
      <3>1. object' \in Seq(0..total)
        BY <2>4, <1>t, SMTT(30) DEF Torn
      <3> QED BY <2>0, <2>4, <3>1, <1>r DEF Return, Receiving
    <2>5. ASSUME NEW b \in {<<>>, Append(u.buf, c)}, NEW a \in {FALSE, open[g]},
                 h' = [h EXCEPT ![g].pc = "return", ![g].err = "error",
                               ![g].stray = open[g] /\ ~a,
                               ![g].up = [u EXCEPT !.buf = b, !.aborted = a]],
                 UNCHANGED object
          PROVE  TypeOK' /\ StreamsWired'
      <3> DEFINE v == [u EXCEPT !.buf = b, !.aborted = a]
                 d == open[g] /\ ~a
                 y == [h[g] EXCEPT !.pc = "return", !.err = "error", !.stray = d, !.up = v]
      <3>1. h' = [h EXCEPT ![g] = y]
        BY <2>5, <1>t
      <3>2. b \in Seq(1..total) /\ a \in BOOLEAN
        <4>1. u.buf \in Seq(1..total)
          BY <2>1 DEF Uploads
        <4>2. <<>> \in Seq(1..total) /\ Append(u.buf, c) \in Seq(1..total)
          BY <4>1, <2>1
        <4>3. open[g] \in BOOLEAN
          BY <1>t
        <4> QED BY <4>2, <4>3
      <3>3. v \in Uploads(total) /\ d \in BOOLEAN
        BY <2>1, <3>2, <1>t DEF Uploads
      <3>4. y \in Handlers(clock, total)
        BY <3>3, <1>t, <1>w, HandlerEdits
      <3>5. Wired(s[g], y, total)
        BY <2>0, <1>t, <1>w DEF Wired, Handlers, Receiving, Returning, NoHandler
      <3> HIDE DEF y
      <3> QED BY <2>0, <2>5, <3>1, <3>4, <3>5, <1>g, <1>t
    <2> QED BY <1>4, <2>3, <2>4, <2>5 DEF ReadFrom
  <1>5. CASE ReturnEarly(g)
    <2>1. h[g].err \in {"none", "EOF", "error"}
      BY <1>w DEF Handlers
    <2>2. h[g].pc = "return" /\ Answer(g, h[g].err) /\ UnchangedButHandler
          /\ UNCHANGED <<rec, clock>> /\ object' \in Seq(0..total) /\ UNCHANGED faults
      BY <1>5, <1>t DEF ReturnEarly, store
    <2>3. CASE h[g].err \in {"EOF", "error"}
      BY <2>2, <2>3, <1>a DEF Returning
    <2>4. CASE h[g].err = "none"
      <3> DEFINE y == [NoHandler EXCEPT !.pc = "end", !.answer = "none", !.stray = h[g].stray]
      <3>1. h' = [h EXCEPT ![g] = y]
        BY <2>2, <2>4 DEF Answer, Gone
      <3>2. h[g].stray \in BOOLEAN
        BY <1>w DEF Handlers
      <3>3. y \in Handlers(clock, total)
        BY <1>t, <3>2, NewHandlers
      <3>4. Wired(s[g], y, total)
        BY <1>w, <2>2 DEF Wired, NoHandler, Receiving, Returning
      <3> HIDE DEF y
      <3> QED BY <2>2, <1>g, <3>1, <3>3, <3>4
    <2> QED BY <2>1, <2>3, <2>4
  <1>6. CASE UpdateRecordRead(g)
    <2>0. UnchangedButHandler /\ UNCHANGED <<rec, clock>> /\ object' \in Seq(0..total)
          /\ (UNCHANGED faults \/ Fault) /\ h[g].pc = "return" /\ h[g].etag # 0
      BY <1>6, <1>f, <1>t DEF UpdateRecordRead, store
    <2>1. CASE Handle(g, "save")
      <3> DEFINE y == [h[g] EXCEPT !.pc = "save"]
      <3>1. h' = [h EXCEPT ![g] = y]
        BY <2>1 DEF Handle
      <3>2. y \in Handlers(clock, total)
        BY <1>t, <1>w, HandlerEdits DEF HandlerSteps
      <3>3. Wired(s[g], y, total)
        BY <2>0, <1>t, <1>w DEF Wired, Handlers, Receiving, Returning, NoHandler
      <3> HIDE DEF y
      <3> QED BY <2>0, <3>1, <3>2, <3>3, <1>g
    <2>2. CASE h' = [h EXCEPT ![g].pc = "flush", ![g].err = "error"]
      BY <2>0, <2>2, <1>r DEF Returning
    <2> QED BY <1>6, <2>1, <2>2 DEF UpdateRecordRead
  <1>7. CASE UpdateRecordSave(g)
    <2>0. UnchangedButHandler /\ object' \in Seq(0..total)
          /\ (UNCHANGED faults \/ Fault) /\ h[g].pc = "save" /\ h[g].etag # 0
      BY <1>7, <1>f, <1>t, <1>w DEF UpdateRecordSave, Wired
    <2>1. CASE /\ clock' = clock + 1
               /\ rec' = [etag |-> clock + 1, stored |-> h[g].err = "EOF", size |-> h[g].size]
               /\ Handle(g, "flush")
      <3> DEFINE y == [h[g] EXCEPT !.pc = "flush"]
      <3>1. h' = [h EXCEPT ![g] = y]
        BY <2>1 DEF Handle
      <3>2. y \in Handlers(clock, total)
        BY <1>t, <1>w, HandlerEdits DEF HandlerSteps
      <3>3. Wired(s[g], y, total)
        BY <2>0, <1>t, <1>w DEF Wired, Handlers, Receiving, Returning, NoHandler
      <3>4. clock' \in Nat /\ clock <= clock'
        BY <2>1, <1>t
      <3>5. y \in Handlers(clock', total)
        BY <3>2, <3>4, <1>t, MoreHandlers
      <3>6. rec' \in [etag: 0..clock', stored: BOOLEAN, size: Nat]
        <4>1. h[g].size \in Nat
          BY <1>w DEF Handlers
        <4>2. clock + 1 \in 0..clock'
          BY <2>1, <1>t
        <4> QED BY <2>1, <4>1, <4>2
      <3> HIDE DEF y
      <3> QED BY <2>0, <3>1, <3>3, <3>4, <3>5, <3>6, <1>f, HandlerStep
    <2>2. CASE /\ h' = [h EXCEPT ![g].pc = "flush", ![g].err = "error"]
               /\ UNCHANGED <<rec, clock>>
      BY <2>0, <2>2, <1>r DEF Returning
    <2> QED BY <1>7, <2>1, <2>2 DEF UpdateRecordSave
  <1>8. CASE Flush(g)
    <2> DEFINE content == h[g].up.parts \o h[g].up.buf
    <2>0. UnchangedButHandler /\ UNCHANGED <<rec, clock>> /\ (UNCHANGED faults \/ Fault)
          /\ h[g].pc = "flush"
      BY <1>8, <1>f DEF Flush
    <2>1. content \in Seq(0..total)
      <3>1. h[g].up.parts \in Seq(1..total) /\ h[g].up.buf \in Seq(1..total)
        BY <1>w DEF Handlers, Uploads
      <3>2. Seq(1..total) \subseteq Seq(0..total)
        <4>1. 1..total \subseteq 0..total
          BY <1>t
        <4> QED BY <4>1, SeqMonotonic
      <3> QED BY <3>1, <3>2
    <2>2. object' \in Seq(0..total)
      BY <1>8, <2>1, <1>t DEF Flush
    <2>3. Answer(g, "ok") \/ Answer(g, "error")
      BY <1>8 DEF Flush
    <2> QED BY <2>0, <2>2, <2>3, <1>a DEF Returning
  <1> QED BY <1>1, <1>2, <1>3, <1>4, <1>5, <1>6, <1>7, <1>8 DEF Handler

\* The stream and its handler begin together.
LEMMA OpenStreamType ==
    ASSUME TypeOK, StreamsWired, NEW g \in Senders, OpenStream(g)
    PROVE  TypeOK' /\ StreamsWired'
  <1>t. /\ clock \in Nat /\ total \in Nat /\ MaxFaults \in Nat /\ faults \in 0..MaxFaults
        /\ s \in [Senders -> SenderStates(total)] /\ open \in [Senders -> BOOLEAN]
        /\ h \in [Senders -> Handlers(clock, total)]
    BY Types, LogsAssumption
  <1>0. /\ Wired(s[g], h[g], total) /\ s[g] \in SenderStates(total) /\ h[g] = NoHandler
        /\ s[g].pc = "stream" /\ UNCHANGED <<type, total, rec, clock, object, reader, deleter>>
    BY <1>t DEF StreamsWired, OpenStream, Wired, Opening, store
  <1>f. faults' \in 0..MaxFaults /\ open' \in [Senders -> BOOLEAN]
    <2>1. (UNCHANGED faults \/ Fault)
          /\ (UNCHANGED open \/ open' = [open EXCEPT ![g] = FALSE])
      BY DEF OpenStream, Finish
    <2>2. faults' \in 0..MaxFaults
      BY <2>1, <1>t DEF Fault
    <2>3. open' \in [Senders -> BOOLEAN]
      BY <2>1, <1>t
    <2> QED BY <2>2, <2>3
  <1>1. PICK p \in {"send", "done"} : s' = [s EXCEPT ![g] = [s[g] EXCEPT !.pc = p]]
    BY DEF OpenStream, Finish, Goto
  <1>2. [s[g] EXCEPT !.pc = p] \in SenderStates(total)
    BY <1>0 DEF SenderStates, SenderSteps
  <1> DEFINE y == [NoHandler EXCEPT !.pc = "recv"]
  <1>3. y \in Handlers(clock, total)
    BY <1>t, NewHandlers, HandlerEdits DEF HandlerSteps
  <1>4. (h' = [h EXCEPT ![g] = y] /\ h'[g] = y) \/ (h' = h /\ h'[g] = NoHandler)
    BY <1>0, <1>t DEF OpenStream, Handle
  <1>5. /\ h' \in [Senders -> Handlers(clock, total)] /\ s' \in [Senders -> SenderStates(total)]
        /\ \A k \in Senders \ {g} : h'[k] = h[k] /\ s'[k] = s[k]
        /\ s'[g] = [s[g] EXCEPT !.pc = p]
    <2> HIDE DEF y
    <2> QED BY <1>1, <1>2, <1>3, <1>4, <1>t
  <1>6. TypeOK'
    BY <1>0, <1>f, <1>5 DEF TypeOK, SenderStates, SenderSteps, Handlers, HandlerSteps, Uploads
  <1>7. Wired(s'[g], h'[g], total)
    BY <1>0, <1>4, <1>5 DEF Wired, NoHandler, Opening, Receiving, Returning, SenderStates
  <1>8. \A k \in Senders : Wired(s'[k], h'[k], total')
    BY <1>0, <1>5, <1>7 DEF StreamsWired
  <1> QED BY <1>6, <1>8 DEF StreamsWired

\* A crash of either side.
LEMMA CrashType ==
    ASSUME TypeOK, StreamsWired, WatcherCrash \/ ServerCrash
    PROVE  TypeOK' /\ StreamsWired'
  <1>t. /\ clock \in Nat /\ total \in Nat /\ MaxFaults \in Nat /\ faults \in 0..MaxFaults
        /\ s \in [Senders -> SenderStates(total)] /\ open \in [Senders -> BOOLEAN]
        /\ h \in [Senders -> Handlers(clock, total)]
    BY Types, LogsAssumption
  <1>f. faults' \in 0..MaxFaults /\ UNCHANGED <<type, total, rec, clock, object, reader, deleter>>
    BY <1>t DEF WatcherCrash, ServerCrash, Fault, store, UnchangedButSender, UnchangedButHandler
  <1>1. CASE WatcherCrash
    <2>1. /\ UNCHANGED h /\ open' \in [Senders -> BOOLEAN]
          /\ s' = [g \in Senders |-> IF Active(g) THEN [s[g] EXCEPT !.pc = "done"] ELSE s[g]]
      BY <1>1 DEF WatcherCrash, UnchangedButSender
    <2>2. ASSUME NEW g \in Senders
          PROVE  s'[g] \in SenderStates(total) /\ Wired(s'[g], h[g], total)
      <3>1. s[g] \in SenderStates(total) /\ Wired(s[g], h[g], total)
        BY <1>t DEF StreamsWired
      <3>2. CASE Active(g)
        <4>1. s'[g] = [s[g] EXCEPT !.pc = "done"]
          BY <2>1, <3>2
        <4> QED BY <3>1, <4>1 DEF SenderStates, SenderSteps, Wired, Opening
      <3>3. CASE ~Active(g)
        BY <2>1, <3>1, <3>3
      <3> QED BY <3>2, <3>3
    <2>3. s' \in [Senders -> SenderStates(total)]
      BY <2>1, <2>2
    <2>4. TypeOK'
      BY <1>f, <2>1, <2>3 DEF TypeOK, SenderStates, SenderSteps
    <2> QED BY <2>1, <2>2, <2>4, <1>f DEF StreamsWired
  <1>2. CASE ServerCrash
    <2>1. /\ UNCHANGED <<s, open>>
          /\ h' = [g \in Senders |->
                IF h[g].pc \in {"none", "end"} THEN h[g] ELSE Gone(g, "error")]
      BY <1>2 DEF ServerCrash, UnchangedButHandler
    <2>2. ASSUME NEW g \in Senders
          PROVE  h'[g] \in Handlers(clock, total) /\ Wired(s[g], h'[g], total)
      <3>1. h[g] \in Handlers(clock, total) /\ Wired(s[g], h[g], total)
        BY <1>t DEF StreamsWired
      <3>2. CASE h[g].pc \in {"none", "end"}
        BY <2>1, <3>1, <3>2
      <3>3. CASE h[g].pc \notin {"none", "end"}
        <4>1. h'[g] = [NoHandler EXCEPT !.pc = "end", !.answer = "error", !.stray = h[g].stray]
          BY <2>1, <3>3 DEF Gone
        <4>2. h[g].stray \in BOOLEAN
          BY <3>1 DEF Handlers
        <4>3. h'[g] \in Handlers(clock, total)
          <5> DEFINE b == h[g].stray
          <5>1. [NoHandler EXCEPT !.pc = "end", !.answer = "error", !.stray = b]
                    \in Handlers(clock, total)
            <6> HIDE DEF b
            <6> QED BY <4>2, <1>t, NewHandlers DEF b
          <5> QED BY <4>1, <5>1
        <4>4. Wired(s[g], h'[g], total)
          BY <3>1, <3>3, <4>1 DEF Wired, NoHandler, Receiving, Returning
        <4> QED BY <4>3, <4>4
      <3> QED BY <3>2, <3>3
    <2>3. h' \in [Senders -> Handlers(clock, total)]
      BY <2>1, <2>2
    <2>4. TypeOK'
      BY <1>f, <2>1, <2>3 DEF TypeOK, Handlers, HandlerSteps, Uploads
    <2> QED BY <2>1, <2>2, <2>4, <1>f DEF StreamsWired
  <1> QED BY <1>1, <1>2

\* GetLog and DeleteLog.
LEMMA ReaderType ==
    ASSUME TypeOK, StreamsWired, GetLog \/ DeleteLog
    PROVE  TypeOK' /\ StreamsWired'
  <1>0. UNCHANGED <<type, total, clock, s, open, h>>
    BY DEF GetLog, GetLogRead, GetLogWrite, DeleteLog, DeleteLogRead, DeleteObject, DeleteRow,
           store
  <1>t. /\ clock \in Nat /\ total \in Nat /\ MaxFaults \in Nat
        /\ rec \in [etag: 0..clock, stored: BOOLEAN, size: Nat]
        /\ object \in Seq(0..total)
        /\ reader \in [pc: {"idle", "opened", "served"}, answer: Seq(0..total)]
        /\ deleter \in [pc: {"idle", "object", "row", "end"}, etag: 0..clock]
        /\ faults \in 0..MaxFaults
    BY LogsAssumption DEF TypeOK
  <1>1. faults' \in 0..MaxFaults
    BY <1>t DEF GetLog, GetLogRead, GetLogWrite, DeleteLog, DeleteLogRead, DeleteObject,
                DeleteRow, Fault
  <1>2. /\ rec' \in {rec, NoRecord} /\ object' \in {object, NoObject}
        /\ \/ reader' = reader \/ reader' = [reader EXCEPT !.pc = "opened"]
           \/ reader' = [pc |-> "served", answer |-> object]
           \/ reader' = [pc |-> "idle", answer |-> NoObject]
        /\ \/ deleter' = deleter \/ deleter' = [pc |-> "object", etag |-> rec.etag]
           \/ \E p \in {"row", "end"} : deleter' = [deleter EXCEPT !.pc = p]
    BY DEF GetLog, GetLogRead, GetLogWrite, DeleteLog, DeleteLogRead, DeleteObject,
           DeleteRow, store
  <1>3. rec' \in [etag: 0..clock, stored: BOOLEAN, size: Nat]
    <2>1. NoRecord \in [etag: 0..clock, stored: BOOLEAN, size: Nat]
      BY <1>t DEF NoRecord
    <2> QED BY <2>1, <1>2, <1>t
  <1>4. /\ object' \in Seq(0..total)
        /\ reader' \in [pc: {"idle", "opened", "served"}, answer: Seq(0..total)]
        /\ deleter' \in [pc: {"idle", "object", "row", "end"}, etag: 0..clock]
    <2>1. NoObject \in Seq(0..total)
      BY DEF NoObject
    <2>2. object' \in Seq(0..total)
      BY <2>1, <1>2, <1>t
    <2>3. reader' \in [pc: {"idle", "opened", "served"}, answer: Seq(0..total)]
      <3> DEFINE R == [pc: {"idle", "opened", "served"}, answer: Seq(0..total)]
      <3>1. reader \in R
        BY <1>t
      <3>2. [reader EXCEPT !.pc = "opened"] \in R
        BY <3>1
      <3>3. [pc |-> "served", answer |-> object] \in R
        BY <1>t
      <3>4. [pc |-> "idle", answer |-> NoObject] \in R
        BY <2>1
      <3> HIDE DEF R
      <3>5. reader' \in R
        BY <3>1, <3>2, <3>3, <3>4, <1>2
      <3> QED BY <3>5 DEF R
    <2>4. deleter' \in [pc: {"idle", "object", "row", "end"}, etag: 0..clock]
      <3> DEFINE D == [pc: {"idle", "object", "row", "end"}, etag: 0..clock]
      <3>1. deleter \in D
        BY <1>t
      <3>2. \A p \in {"row", "end"} : [deleter EXCEPT !.pc = p] \in D
        BY <3>1
      <3>3. [pc |-> "object", etag |-> rec.etag] \in D
        <4>1. rec.etag \in 0..clock
          BY <1>t
        <4> QED BY <4>1
      <3> HIDE DEF D
      <3>5. deleter' \in D
        BY <3>1, <3>2, <3>3, <1>2
      <3> QED BY <3>5 DEF D
    <2> QED BY <2>2, <2>3, <2>4
  <1>5. TypeOK'
    BY <1>0, <1>1, <1>3, <1>4 DEF TypeOK
  <1> QED BY <1>0, <1>5 DEF StreamsWired

LEMMA StepType == TypeOK /\ StreamsWired /\ [Next]_vars => TypeOK' /\ StreamsWired'
  <1> SUFFICES ASSUME TypeOK, StreamsWired, [Next]_vars
               PROVE  TypeOK' /\ StreamsWired'
    OBVIOUS
  <1>1. CASE UNCHANGED vars
    BY <1>1 DEF vars, TypeOK, StreamsWired
  <1>2. ASSUME NEW g \in Senders, SendLog(g) \/ Sender(g) \/ Handler(g) \/ Timeout(g)
        PROVE  TypeOK' /\ StreamsWired'
    BY <1>2, SenderActionType, HandlerActionType, OpenStreamType DEF Sender
  <1>3. CASE WatcherCrash \/ ServerCrash
    BY <1>3, CrashType
  <1>4. CASE GetLog \/ DeleteLog
    BY <1>4, ReaderType
  <1> QED BY <1>1, <1>2, <1>3, <1>4 DEF Next

LEMMA InitType == Init => TypeOK /\ StreamsWired
  <1> SUFFICES ASSUME Init PROVE TypeOK /\ StreamsWired
    OBVIOUS
  <1>1. total \in Nat /\ MaxFaults \in Nat
    BY LogsAssumption DEF Init
  <1>2. h \in [Senders -> Handlers(0, total)]
    BY <1>1, NewHandlers DEF Init
  <1>3. TypeOK
    BY <1>1, <1>2 DEF Init, TypeOK, Handlers, HandlerSteps, Uploads, NoRecord, NoObject
  <1>4. StreamsWired
    BY DEF Init, StreamsWired, Wired, NoHandler, Receiving, Returning
  <1> QED BY <1>3, <1>4

LEMMA WiredAlways == Spec => [](TypeOK /\ StreamsWired)
  BY InitType, StepType, PTL DEF Spec

\* Goroutines, handlers, the Record and the object keep their types, whatever
\* fails or crashes: no handler receives more chunks than the log has, and no
\* etag is used that was not handed out.
THEOREM LogsTypeCorrect == Spec => []TypeOK
  BY WiredAlways, PTL

----------------------------------------------------------------------------
(* Sequences of chunks                                                     *)

\* The chunks 1..k, once each and in their order.
Prefix(k) == [i \in 1..k |-> i]

\* The chunks 1..k are in o, in their order.
Embeds(o, k) ==
    \E f \in [1..k -> 1..Len(o)] :
        /\ \A i \in 1..k : o[f[i]] = i
        /\ \A i, j \in 1..k : i < j => f[i] < f[j]

LEMMA PrefixProperties ==
    ASSUME NEW k \in Nat
    PROVE  /\ Prefix(k) \in Seq(Nat) /\ Len(Prefix(k)) = k
           /\ Append(Prefix(k), k + 1) = Prefix(k + 1)
           /\ Prefix(0) = <<>> /\ Prefix(1) = <<1>>
  <1>1. /\ \A n \in Nat : Prefix(n) \in Seq(Nat) /\ Len(Prefix(n)) = n
                          /\ \A i \in 1..n : Prefix(n)[i] = i
    BY DEF Prefix
  <1>2. Append(Prefix(k), k + 1) = Prefix(k + 1)
    <2>1. /\ Append(Prefix(k), k + 1) \in Seq(Nat)
          /\ Len(Append(Prefix(k), k + 1)) = k + 1
          /\ \A i \in 1..k+1 : Append(Prefix(k), k + 1)[i] = i
      BY <1>1
    <2>2. Prefix(k + 1) \in Seq(Nat) /\ Len(Prefix(k + 1)) = k + 1
          /\ \A i \in 1..k+1 : Prefix(k + 1)[i] = i
      BY <1>1
    <2> QED BY <2>1, <2>2, SeqEqual
  <1>3. Prefix(0) = <<>>
    BY <1>1, EmptySeq
  <1>4. Prefix(1) = <<1>>
    <2>1. <<1>> \in Seq(Nat) /\ Len(<<1>>) = 1 /\ \A i \in 1..1 : <<1>>[i] = i
      OBVIOUS
    <2>2. Prefix(1) \in Seq(Nat) /\ Len(Prefix(1)) = 1 /\ \A i \in 1..1 : Prefix(1)[i] = i
      BY <1>1
    <2> QED BY <2>1, <2>2, SeqEqual
  <1> QED BY <1>1, <1>2, <1>3, <1>4

\* A chunk taken into an upload comes last, in the part or in the buffer.
LEMMA TakenContent ==
    ASSUME type = "S3", NEW m, NEW u \in Uploads(m), NEW c \in 1..m
    PROVE  /\ Taken(u, c).parts \o Taken(u, c).buf = Append(u.parts \o u.buf, c)
           /\ Taken(u, c).aborted = u.aborted
  <1>0. u.parts \in Seq(1..m) /\ u.buf \in Seq(1..m)
    BY DEF Uploads
  <1>1. u.parts \o Append(u.buf, c) = Append(u.parts \o u.buf, c)
    <2> DEFINE a == u.parts
               b == u.buf
               l == a \o Append(b, c)
               r == Append(a \o b, c)
    <2>1. a \in Seq(1..m) /\ b \in Seq(1..m)
      BY <1>0
    <2> HIDE DEF a, b
    <2>2. l \in Seq(1..m) /\ r \in Seq(1..m) /\ Len(l) = Len(r)
      BY <2>1
    <2>3. \A i \in 1..Len(l) : l[i] = r[i]
      BY <2>1
    <2>4. l = r
      <3> HIDE DEF l, r
      <3> QED BY <2>2, <2>3, SeqEqual
    <2> QED BY <2>4 DEF a, b
  <1>2. CASE PartFull(u)
    <2>1. /\ Taken(u, c).parts = u.parts \o Append(u.buf, c) /\ Taken(u, c).buf = <<>>
          /\ Taken(u, c).aborted = u.aborted
      BY <1>2 DEF Taken, Uploads
    <2>2. u.parts \o Append(u.buf, c) \in Seq(1..m)
      BY <1>0
    <2> QED BY <2>1, <2>2, <1>1, ConcatEmptySeq
  <1>3. CASE ~PartFull(u)
    <2>1. /\ Taken(u, c).parts = u.parts /\ Taken(u, c).buf = Append(u.buf, c)
          /\ Taken(u, c).aborted = u.aborted
      BY <1>3 DEF Taken, Uploads
    <2> QED BY <2>1, <1>1
  <1> QED BY <1>2, <1>3

\* Whatever is appended, what was there stays; the next chunk, appended, joins it.
LEMMA EmbedsAppend ==
    ASSUME NEW S, NEW o \in Seq(S), NEW c \in S, NEW k \in Nat, Embeds(o, k)
    PROVE  /\ Embeds(Append(o, c), k)
           /\ c = k + 1 => Embeds(Append(o, c), k + 1)
  <1>0. /\ Len(o) \in Nat /\ Len(Append(o, c)) = Len(o) + 1
        /\ \A i \in 1..Len(o) : Append(o, c)[i] = o[i]
        /\ Append(o, c)[Len(o) + 1] = c
    OBVIOUS
  <1>1. PICK f \in [1..k -> 1..Len(o)] :
            /\ \A i \in 1..k : o[f[i]] = i
            /\ \A i, j \in 1..k : i < j => f[i] < f[j]
    BY DEF Embeds
  <1>2. Embeds(Append(o, c), k)
    <2>1. f \in [1..k -> 1..Len(Append(o, c))]
      BY <1>0
    <2>2. \A i \in 1..k : Append(o, c)[f[i]] = i
      BY <1>0, <1>1
    <2> QED BY <2>1, <2>2, <1>1 DEF Embeds
  <1>3. ASSUME c = k + 1 PROVE Embeds(Append(o, c), k + 1)
    <2> DEFINE e == [i \in 1..k+1 |-> IF i = k + 1 THEN Len(o) + 1 ELSE f[i]]
    <2>1. e \in [1..k+1 -> 1..Len(Append(o, c))]
      BY <1>0
    <2>2. \A i \in 1..k+1 : Append(o, c)[e[i]] = i
      <3> SUFFICES ASSUME NEW i \in 1..k+1 PROVE Append(o, c)[e[i]] = i
        OBVIOUS
      <3>1. CASE i = k + 1
        BY <3>1, <1>0, <1>3
      <3>2. CASE i # k + 1
        <4>1. i \in 1..k /\ e[i] = f[i]
          BY <3>2
        <4> QED BY <4>1, <1>0, <1>1
      <3> QED BY <3>1, <3>2
    <2>3. \A i, j \in 1..k+1 : i < j => e[i] < e[j]
      <3> SUFFICES ASSUME NEW i \in 1..k+1, NEW j \in 1..k+1, i < j PROVE e[i] < e[j]
        OBVIOUS
      <3>1. i \in 1..k /\ e[i] = f[i] /\ f[i] \in 1..Len(o)
        OBVIOUS
      <3>2. CASE j = k + 1
        BY <3>1, <3>2, <1>0
      <3>3. CASE j # k + 1
        <4>1. j \in 1..k /\ e[j] = f[j]
          BY <3>3
        <4> QED BY <3>1, <4>1, <1>1
      <3> QED BY <3>2, <3>3
    <2> HIDE DEF e
    <2> QED BY <2>1, <2>2, <2>3 DEF Embeds
  <1> QED BY <1>2, <1>3

LEMMA EmbedsPrefix ==
    ASSUME NEW k \in Nat
    PROVE  Embeds(Prefix(k), k)
  <1>1. Len(Prefix(k)) = k
    BY PrefixProperties
  <1>2. Prefix(k) \in [1..k -> 1..Len(Prefix(k))] /\ \A i \in 1..k : Prefix(k)[Prefix(k)[i]] = i
    BY <1>1 DEF Prefix
  <1>3. \A i, j \in 1..k : i < j => Prefix(k)[i] < Prefix(k)[j]
    BY DEF Prefix
  <1> QED BY <1>2, <1>3 DEF Embeds

LEMMA EmbedsNothing == \A o : Embeds(o, 0)
  <1> SUFFICES ASSUME NEW o PROVE Embeds(o, 0)
    OBVIOUS
  <1>1. [i \in 1..0 |-> i] \in [1..0 -> 1..Len(o)]
    OBVIOUS
  <1>2. \A i \in 1..0 : FALSE
    OBVIOUS
  <1> QED BY <1>1, <1>2 DEF Embeds

----------------------------------------------------------------------------
(* What the steps of a handler do to the log                               *)

Content(y) == y.up.parts \o y.up.buf

Receives(g) ==
    /\ h[g].pc = "recv" /\ h[g].got < total
    /\ h'[g].got = h[g].got + 1
    /\ h'[g].pc = IF h[g].streaming THEN "write" ELSE "record"
    /\ h'[g].up = h[g].up /\ h'[g].stray = h[g].stray
    /\ UNCHANGED <<object, rec>>

\* The end of the stream, after all the chunks.
Ends(g) ==
    /\ h[g].pc = "recv" /\ h[g].got = total
    /\ h'[g].pc = "return"
    /\ h'[g].up = h[g].up /\ h'[g].stray = h[g].stray
    /\ UNCHANGED <<object, rec>>

\* Before there is a stream to flush, or when its context is cancelled.
GivesUp(g) ==
    /\ h[g].pc \in {"recv", "record", "tostream"} /\ (~open[g] \/ ~h[g].streaming)
    /\ h'[g].pc = "return" /\ h'[g].err = "error"
    /\ h'[g].streaming = h[g].streaming /\ h'[g].stray = h[g].stray
    /\ UNCHANGED <<object, rec>>

Prepares(g) ==
    /\ \/ h[g].pc = "record" /\ h'[g].pc = "tostream"
       \/ h[g].pc = "tostream" /\ h'[g].pc = "write"
    /\ h'[g].got = h[g].got /\ h'[g].up = h[g].up /\ h'[g].stray = h[g].stray
    /\ UNCHANGED <<object, rec>>

Writes(g) ==
    /\ h[g].pc = "write"
    /\ h'[g].pc = "recv" /\ h'[g].got = h[g].got
    /\ h'[g].up = Taken(h[g].up, h[g].got) /\ h'[g].stray = h[g].stray
    /\ object' = Stored(h[g].got) /\ UNCHANGED rec

\* A failed write; for S3 the upload is aborted or astray, if the context was
\* not cancelled anyway.
Breaks(g) ==
    /\ h[g].pc = "write"
    /\ h'[g].pc = "return" /\ h'[g].err = "error"
    /\ IF type = "S3" THEN ~open[g] \/ h'[g].stray \/ h'[g].up.aborted
                      ELSE h'[g].stray = h[g].stray
    /\ \/ object' = object
       \/ type = "File" /\ object' = Append(object, Torn)
    /\ UNCHANGED rec

\* The two steps of UpdateRecord.
Updates(g) ==
    /\ h[g].pc \in {"return", "save"}
    /\ h'[g].pc \in {"save", "flush"} /\ h'[g].err \in {h[g].err, "error"}
    /\ h'[g].up = h[g].up /\ h'[g].streaming = h[g].streaming /\ h'[g].stray = h[g].stray
    /\ rec' = rec \/ (h'[g].pc = "flush" /\ rec'.stored = (h[g].err = "EOF"))
    /\ UNCHANGED object

\* The answer, after Flush if there was a Record.
Answers(g) ==
    /\ h[g].pc \in {"return", "flush"}
    /\ h'[g].pc = "end" /\ h'[g].stray = h[g].stray
    /\ h'[g].answer = "ok" =>
          /\ h[g].pc = "flush" /\ h[g].err = "EOF" /\ total > 0
          /\ type = "S3" => object' = Content(h[g])
    /\ \/ object' = object
       \/ /\ type = "S3" /\ open[g] /\ h[g].streaming /\ ~h[g].up.aborted
          /\ object' = Content(h[g])
    /\ UNCHANGED rec

LEMMA HandlerForm ==
    ASSUME TypeOK, StreamsWired, NEW g \in Senders, Handler(g)
    PROVE  /\ UNCHANGED <<type, total, s, open, reader, deleter>>
           /\ \A k \in Senders \ {g} : h'[k] = h[k]
           /\ \/ Receives(g) \/ Ends(g) \/ GivesUp(g) \/ Prepares(g) \/ Writes(g)
              \/ Breaks(g) \/ Updates(g) \/ Answers(g)
  <1>t. /\ clock \in Nat /\ total \in Nat
        /\ s \in [Senders -> SenderStates(total)] /\ open \in [Senders -> BOOLEAN]
        /\ h \in [Senders -> Handlers(clock, total)]
        /\ type \in {"File", "S3", "GCS"}
    BY Types, LogsAssumption
  <1>w. /\ Wired(s[g], h[g], total) /\ s[g] \in SenderStates(total)
        /\ h[g] \in Handlers(clock, total)
    BY <1>t DEF StreamsWired
  <1>u. UNCHANGED <<type, total, s, open, reader, deleter>>
    BY DEF Handler, Recv, GetRecord, ToStream, ReadFrom, ReturnEarly, UpdateRecordRead,
           UpdateRecordSave, Flush, UnchangedButHandler
  <1>a. ASSUME NEW y, h' = [h EXCEPT ![g] = y]
        PROVE  h'[g] = y /\ \A k \in Senders \ {g} : h'[k] = h[k]
    BY <1>a, <1>t
  <1>e. ASSUME NEW p, h' = [h EXCEPT ![g].pc = p, ![g].err = "error"]
        PROVE  /\ h'[g].pc = p /\ h'[g].err = "error" /\ h'[g].up = h[g].up
               /\ h'[g].streaming = h[g].streaming /\ h'[g].stray = h[g].stray
               /\ \A k \in Senders \ {g} : h'[k] = h[k]
    BY <1>e, <1>t, <1>w DEF Handlers
  <1>1. CASE Recv(g)
    <2>0. h[g].pc = "recv" /\ UNCHANGED <<object, rec>>
      BY <1>1 DEF Recv, store
    <2>1. CASE /\ h[g].got < s[g].sent
               /\ h' = [h EXCEPT ![g].got = @ + 1,
                            ![g].pc = IF h[g].streaming THEN "write" ELSE "record"]
      <3>1. h[g].got < total
        BY <2>1, <1>t, <1>w DEF SenderStates, Handlers
      <3> QED BY <2>0, <2>1, <3>1, <1>t, <1>w, <1>u DEF Receives, Handlers
    <2>2. CASE s[g].pc = "await" /\ h[g].got = s[g].sent /\ Return(g, "EOF")
      BY <2>0, <2>2, <1>t, <1>w, <1>u DEF Ends, Handlers, Return, Wired
    <2>3. CASE ~open[g] /\ Return(g, "error")
      BY <2>0, <2>3, <1>e, <1>u DEF GivesUp, Return
    <2> QED BY <1>1, <2>1, <2>2, <2>3 DEF Recv
  <1>2. CASE GetRecord(g)
    <2>0. h[g].pc = "record" /\ UNCHANGED <<object, rec>> /\ ~h[g].streaming
      BY <1>2, <1>w DEF GetRecord, store, Wired
    <2>1. CASE h' = [h EXCEPT ![g].pc = "tostream", ![g].etag = rec.etag]
      BY <2>0, <2>1, <1>t, <1>w, <1>u DEF Prepares, Handlers
    <2>2. CASE Return(g, "error")
      BY <2>0, <2>2, <1>e, <1>u DEF GivesUp, Return
    <2> QED BY <1>2, <2>1, <2>2 DEF GetRecord
  <1>3. CASE ToStream(g)
    <2>0. h[g].pc = "tostream" /\ UNCHANGED <<object, rec>> /\ ~h[g].streaming
      BY <1>3, <1>w DEF ToStream, store, Wired
    <2>1. CASE h' = [h EXCEPT ![g].pc = "write", ![g].streaming = TRUE]
      BY <2>0, <2>1, <1>t, <1>w, <1>u DEF Prepares, Handlers
    <2>2. CASE Return(g, "error")
      BY <2>0, <2>2, <1>e, <1>u DEF GivesUp, Return
    <2> QED BY <1>3, <2>1, <2>2 DEF ToStream
  <1>4. CASE ReadFrom(g)
    <2> DEFINE c == h[g].got
               u == h[g].up
    <2>0. h[g].pc = "write" /\ UNCHANGED rec
      BY <1>4 DEF ReadFrom
    <2>1. CASE /\ object' = Stored(c)
               /\ h' = [h EXCEPT ![g].pc = "recv", ![g].up = Taken(u, c),
                                 ![g].size = @ + Counted(u)]
      BY <2>0, <2>1, <1>t, <1>w, <1>u DEF Writes, Handlers
    <2>2. CASE type # "S3" /\ Return(g, "error")
               /\ \/ object' = object
                  \/ type = "File" /\ object' = Append(object, Torn)
      BY <2>0, <2>2, <1>e, <1>u DEF Breaks, Return
    <2>3. ASSUME NEW b, NEW a \in {FALSE, open[g]}, type = "S3",
                 h' = [h EXCEPT ![g].pc = "return", ![g].err = "error",
                               ![g].stray = open[g] /\ ~a,
                               ![g].up = [u EXCEPT !.buf = b, !.aborted = a]],
                 UNCHANGED object
          PROVE  Breaks(g) /\ \A k \in Senders \ {g} : h'[k] = h[k]
      <3>1. u \in Uploads(total) /\ open[g] \in BOOLEAN
        BY <1>t, <1>w DEF Handlers
      <3>2. /\ h'[g].pc = "return" /\ h'[g].err = "error" /\ h'[g].stray = (open[g] /\ ~a)
            /\ h'[g].up = [u EXCEPT !.buf = b, !.aborted = a]
            /\ \A k \in Senders \ {g} : h'[k] = h[k]
        BY <2>3, <1>t, <1>w DEF Handlers
      <3>3. h'[g].up.aborted = a
        BY <3>1, <3>2 DEF Uploads
      <3>4. ~open[g] \/ h'[g].stray \/ h'[g].up.aborted
        BY <3>1, <3>2, <3>3
      <3>5. object' = object
        BY <2>3
      <3>6. Breaks(g)
        BY <2>0, <2>3, <3>2, <3>4, <3>5 DEF Breaks
      <3> QED BY <3>2, <3>6
    <2>4. \/ /\ object' = Stored(c)
             /\ h' = [h EXCEPT ![g].pc = "recv", ![g].up = Taken(u, c),
                               ![g].size = @ + Counted(u)]
          \/ /\ type # "S3" /\ Return(g, "error")
             /\ \/ object' = object
                \/ type = "File" /\ object' = Append(object, Torn)
          \/ /\ type = "S3" /\ UNCHANGED object
             /\ \E b \in {<<>>, Append(u.buf, c)} : \E a \in {FALSE, open[g]} :
                   h' = [h EXCEPT ![g].pc = "return", ![g].err = "error",
                               ![g].stray = open[g] /\ ~a,
                               ![g].up = [u EXCEPT !.buf = b, !.aborted = a]]
      BY <1>4 DEF ReadFrom
    <2> HIDE DEF c, u
    <2> QED BY <2>4, <1>u, <2>1, <2>2, <2>3
  <1>5. CASE ReturnEarly(g)
    <2>1. h[g].pc = "return" /\ UNCHANGED <<object, rec>> /\ h[g].err # "ok"
          /\ h' = [h EXCEPT ![g] = Gone(g, h[g].err)]
      BY <1>5, <1>w DEF ReturnEarly, store, Answer, Handlers
    <2>2. h'[g] = Gone(g, h[g].err) /\ \A k \in Senders \ {g} : h'[k] = h[k]
      BY <2>1, <1>a
    <2>3. h'[g].pc = "end" /\ h'[g].answer = h[g].err /\ h'[g].stray = h[g].stray
      BY <2>2 DEF Gone, NoHandler
    <2> QED BY <2>1, <2>2, <2>3, <1>u DEF Answers
  <1>6. CASE UpdateRecordRead(g)
    <2>0. h[g].pc = "return" /\ UNCHANGED <<object, rec>>
      BY <1>6 DEF UpdateRecordRead, store
    <2>1. CASE Handle(g, "save")
      BY <2>0, <2>1, <1>t, <1>w, <1>u DEF Updates, Handlers, Handle
    <2>2. CASE h' = [h EXCEPT ![g].pc = "flush", ![g].err = "error"]
      BY <2>0, <2>2, <1>e, <1>u DEF Updates
    <2> QED BY <1>6, <2>1, <2>2 DEF UpdateRecordRead
  <1>7. CASE UpdateRecordSave(g)
    <2>0. h[g].pc = "save" /\ UNCHANGED object
      BY <1>7 DEF UpdateRecordSave
    <2>1. CASE Handle(g, "flush")
               /\ rec' = [etag |-> clock + 1, stored |-> h[g].err = "EOF", size |-> h[g].size]
      <3>1. rec'.stored = (h[g].err = "EOF")
        BY <2>1
      <3>2. /\ h'[g].pc = "flush" /\ h'[g].err = h[g].err /\ h'[g].up = h[g].up
            /\ h'[g].streaming = h[g].streaming /\ h'[g].stray = h[g].stray
            /\ \A k \in Senders \ {g} : h'[k] = h[k]
        BY <2>1, <1>t, <1>w DEF Handlers, Handle
      <3> QED BY <2>0, <3>1, <3>2, <1>u DEF Updates
    <2>2. CASE h' = [h EXCEPT ![g].pc = "flush", ![g].err = "error"] /\ UNCHANGED rec
      BY <2>0, <2>2, <1>e, <1>u DEF Updates
    <2> QED BY <1>7, <2>1, <2>2 DEF UpdateRecordSave
  <1>8. CASE Flush(g)
    <2>0. h[g].pc = "flush" /\ UNCHANGED rec
      BY <1>8 DEF Flush
    <2>1. h[g].err = "EOF" => total > 0 /\ h[g].streaming
      BY <2>0, <1>t, <1>w DEF Wired, Returning
    <2> DEFINE result == IF h[g].err = "EOF" THEN "ok" ELSE "error"
    <2>2. CASE ~(type = "S3" /\ h[g].streaming) /\ Answer(g, result) /\ UNCHANGED object
      <3>1. h'[g] = Gone(g, result) /\ \A k \in Senders \ {g} : h'[k] = h[k]
        BY <2>2, <1>a DEF Answer
      <3> QED BY <2>0, <2>1, <2>2, <3>1, <1>u DEF Answers, Gone, NoHandler
    <2>3. CASE /\ type = "S3" /\ h[g].streaming /\ Ok(g) /\ ~h[g].up.aborted
               /\ object' = Content(h[g]) /\ Answer(g, result)
      <3>1. h'[g] = Gone(g, result) /\ \A k \in Senders \ {g} : h'[k] = h[k]
        BY <2>3, <1>a DEF Answer
      <3> QED BY <2>0, <2>1, <2>3, <3>1, <1>u DEF Answers, Gone, NoHandler, Ok
    <2>4. CASE Answer(g, "error") /\ UNCHANGED object
      <3>1. h'[g] = Gone(g, "error") /\ \A k \in Senders \ {g} : h'[k] = h[k]
        BY <2>4, <1>a DEF Answer
      <3> QED BY <2>0, <2>4, <3>1, <1>u DEF Answers, Gone, NoHandler
    <2> QED BY <1>8, <2>2, <2>3, <2>4 DEF Flush, Content
  <1> QED BY <1>1, <1>2, <1>3, <1>4, <1>5, <1>6, <1>7, <1>8 DEF Handler

----------------------------------------------------------------------------
(* What the other steps do                                                 *)

\* The log stays as it is, and a context is live only if it was, or if it is new.
Quiet ==
    /\ UNCHANGED <<object, h, reader, deleter>>
    /\ rec' = rec \/ ~rec'.stored
    /\ \A k \in Senders : open'[k] => open[k] \/ h[k] = NoHandler

OpensStream(g) ==
    /\ h[g] = NoHandler /\ h' = [h EXCEPT ![g] = [NoHandler EXCEPT !.pc = "recv"]]
    /\ \A k \in Senders : open'[k] => open[k]
    /\ UNCHANGED <<object, rec, reader, deleter>>

LosesHandlers ==
    /\ \A k \in Senders : \/ h'[k] = h[k]
                          \/ h[k].pc \notin {"none", "end"} /\ h'[k] = Gone(k, "error")
    /\ UNCHANGED <<object, rec, reader, deleter, open>>

Deletes ==
    /\ deleter'.pc # "idle"
    /\ deleter.pc = "idle" => UNCHANGED object
    /\ UNCHANGED <<h, reader, open>>

LEMMA StepForm ==
    ASSUME TypeOK, StreamsWired, [Next]_vars
    PROVE  /\ UNCHANGED <<type, total>>
           /\ \/ \E g \in Senders : Handler(g)
              \/ Quiet
              \/ \E g \in Senders : OpensStream(g)
              \/ LosesHandlers
              \/ GetLog
              \/ Deletes
  <1>t. /\ clock \in Nat /\ total \in Nat
        /\ s \in [Senders -> SenderStates(total)] /\ open \in [Senders -> BOOLEAN]
        /\ h \in [Senders -> Handlers(clock, total)]
        /\ deleter \in [pc: {"idle", "object", "row", "end"}, etag: 0..clock]
    BY Types, LogsAssumption
  <1>f. ASSUME NEW g \in Senders, Finish(g) \/ UNCHANGED open
        PROVE  \A k \in Senders : open'[k] => open[k]
    BY <1>f, <1>t DEF Finish
  <1>1. CASE UNCHANGED vars
    BY <1>1 DEF vars, Quiet
  <1>2. ASSUME NEW g \in Senders, SendLog(g)
        PROVE  UNCHANGED <<type, total>> /\ Quiet
    <2>1. h[g] = NoHandler
      BY <1>2 DEF SendLog, StreamsWired, Wired, Opening
    <2>2. UNCHANGED <<type, total, object, rec, h, reader, deleter>>
          /\ open' = [open EXCEPT ![g] = TRUE]
      BY <1>2 DEF SendLog, UnchangedButSender, store
    <2> QED BY <2>1, <2>2, <1>t DEF Quiet
  <1>3. ASSUME NEW g \in Senders, GetLogRecord(g) \/ PutLogGet(g) \/ CreateLogRecord(g)
               \/ PatchLogAnnotation(g) \/ SendChunk(g) \/ CloseSend(g) \/ RecvSummary(g)
               \/ Timeout(g)
        PROVE  UNCHANGED <<type, total>> /\ Quiet
    <2>1. UNCHANGED <<type, total, object, h, reader, deleter>> /\ (Finish(g) \/ UNCHANGED open)
      BY <1>3 DEF GetLogRecord, PutLogGet, CreateLogRecord, PatchLogAnnotation, SendChunk,
                  CloseSend, RecvSummary, Timeout, UnchangedButSender, store
    <2>2. rec' = rec \/ rec' = [NoRecord EXCEPT !.etag = clock + 1]
      BY <1>3 DEF GetLogRecord, PutLogGet, CreateLogRecord, PatchLogAnnotation, SendChunk,
                  CloseSend, RecvSummary, Timeout, UnchangedButSender, store
    <2>3. rec' = rec \/ ~rec'.stored
      BY <2>2 DEF NoRecord
    <2> QED BY <2>1, <2>3, <1>f DEF Quiet
  <1>4. ASSUME NEW g \in Senders, OpenStream(g)
        PROVE  UNCHANGED <<type, total>> /\ (Quiet \/ OpensStream(g))
    <2>1. h[g] = NoHandler
      BY <1>4 DEF OpenStream, StreamsWired, Wired, Opening
    <2>2. /\ UNCHANGED <<type, total, object, rec, reader, deleter>>
          /\ Finish(g) \/ UNCHANGED open
          /\ UNCHANGED h \/ Handle(g, "recv")
      BY <1>4 DEF OpenStream, store
    <2>3. Handle(g, "recv") => h' = [h EXCEPT ![g] = [NoHandler EXCEPT !.pc = "recv"]]
      BY <2>1, <1>t DEF Handle
    <2> QED BY <2>1, <2>2, <2>3, <1>f DEF Quiet, OpensStream
  <1>5. CASE WatcherCrash
    BY <1>5 DEF WatcherCrash, UnchangedButSender, store, Quiet
  <1>6. CASE ServerCrash
    BY <1>6 DEF ServerCrash, UnchangedButHandler, store, LosesHandlers
  <1>7. CASE GetLog
    BY <1>7 DEF GetLog, GetLogRead, GetLogWrite
  <1>8. CASE DeleteLog
    <2>1. CASE DeleteLogRead
      BY <2>1 DEF DeleteLogRead, Deletes, store
    <2>2. CASE DeleteObject
      <3>1. deleter'.pc \in {"row", "end"}
        BY <2>2, <1>t DEF DeleteObject
      <3> QED BY <2>2, <3>1 DEF DeleteObject, Deletes
    <2>3. CASE DeleteRow
      <3>1. deleter'.pc = "end"
        BY <2>3, <1>t DEF DeleteRow
      <3> QED BY <2>3, <3>1 DEF DeleteRow, Deletes
    <2> QED BY <1>8, <2>1, <2>2, <2>3 DEF DeleteLog
  <1>9. ASSUME NEW g \in Senders, Handler(g)
        PROVE  UNCHANGED <<type, total>>
    BY <1>9, HandlerForm
  <1> QED BY <1>1, <1>2, <1>3, <1>4, <1>5, <1>6, <1>7, <1>8, <1>9 DEF Next, Sender

\* What excuses the loss of a log does not go away: a deletion is not undone,
\* and an upload that went astray stays so.
LEMMA StaysExcused ==
    ASSUME TypeOK, StreamsWired, [Next]_vars
    PROVE  /\ \A k \in Senders : h[k].stray => h'[k].stray
           /\ deleter.pc # "idle" => deleter'.pc # "idle"
           /\ Excused => Excused'
  <1>0. UNCHANGED <<type, total>>
    BY StepForm
  <1>1. ASSUME NEW k \in Senders, h[k].stray
        PROVE  h'[k].stray
    <2>0. h[k].pc \in Returning \cup {"end"} /\ h[k] # NoHandler
      BY <1>1 DEF StreamsWired, Wired, NoHandler
    <2>1. ASSUME NEW g \in Senders, Handler(g)
          PROVE  h'[k].stray
      <3>1. CASE g # k
        BY <2>1, <3>1, <1>1, HandlerForm
      <3>2. CASE g = k
        BY <2>0, <2>1, <3>2, <1>1, HandlerForm
           DEF Returning, Receives, Ends, GivesUp, Prepares, Writes, Breaks, Updates, Answers
      <3> QED BY <3>1, <3>2
    <2>2. CASE Quiet \/ Deletes \/ GetLog
      BY <2>2, <1>1 DEF Quiet, Deletes, GetLog, GetLogRead, GetLogWrite
    <2>3. ASSUME NEW g \in Senders, OpensStream(g)
          PROVE  h'[k].stray
      <3>1. g # k
        BY <2>0, <2>3 DEF OpensStream
      <3>2. h \in [Senders -> Handlers(clock, total)]
        BY Types
      <3> QED BY <2>3, <3>1, <3>2, <1>1 DEF OpensStream
    <2>4. CASE LosesHandlers
      <3>1. h'[k] = h[k] \/ h'[k].stray = h[k].stray
        BY <2>4, ZenonT(60) DEF LosesHandlers, Gone, NoHandler
      <3> QED BY <3>1, <1>1
    <2> QED BY <2>1, <2>2, <2>3, <2>4, StepForm
  <1>2. deleter.pc # "idle" => deleter'.pc # "idle"
    BY StepForm, HandlerForm DEF Quiet, Deletes, GetLog, GetLogRead, GetLogWrite, OpensStream,
                                 LosesHandlers
  <1>3. Excused => Excused'
    BY <1>0, <1>1, <1>2 DEF Excused, Spoilt
  <1> QED BY <1>1, <1>2, <1>3

----------------------------------------------------------------------------
(* An upload to S3 is exact                                                *)

\* The chunks that a handler in its loop has written.
Written(y) == IF y.pc = "recv" THEN y.got ELSE y.got - 1

\* The parts and the buffer of a handler y make up what it has written, the
\* whole log of n chunks at the end of the stream; and after an error too, unless
\* the upload was aborted or went astray or its context is no longer live.
UploadExact(y, live, n) ==
    /\ y.pc \in Receiving => ~y.up.aborted /\ Content(y) = Prefix(Written(y))
    /\ y.pc \in Returning /\ y.err = "EOF" => Content(y) = Prefix(n)
    /\ y.pc \in Returning /\ live /\ y.streaming /\ ~y.up.aborted /\ ~y.stray =>
          Content(y) = Prefix(n)

UploadsExact == type = "S3" => \A g \in Senders : UploadExact(h[g], open[g], total)

LEMMA UploadsInit == Init => UploadsExact
  <1> SUFFICES ASSUME Init, NEW g \in Senders PROVE UploadExact(h[g], open[g], total)
    BY DEF UploadsExact
  <1>1. h[g].pc = "none"
    BY DEF Init, NoHandler
  <1> QED BY <1>1 DEF UploadExact, Receiving, Returning

LEMMA UploadsStep ==
    ASSUME TypeOK, StreamsWired, UploadsExact, [Next]_vars
    PROVE  UploadsExact'
  <1> SUFFICES ASSUME type = "S3", NEW k \in Senders
               PROVE  UploadExact(h'[k], open'[k], total)
    BY StepForm DEF UploadsExact
  <1>t. /\ clock \in Nat /\ total \in Nat /\ open \in [Senders -> BOOLEAN]
        /\ h \in [Senders -> Handlers(clock, total)]
        /\ h[k] \in Handlers(clock, total) /\ h[k].up \in Uploads(total)
    <2>1. /\ clock \in Nat /\ total \in Nat /\ open \in [Senders -> BOOLEAN]
          /\ h \in [Senders -> Handlers(clock, total)]
      BY Types, LogsAssumption
    <2>2. h[k] \in Handlers(clock, total)
      BY <2>1
    <2> QED BY <2>1, <2>2 DEF Handlers
  <1>w. UploadExact(h[k], open[k], total) /\ Wired(s[k], h[k], total)
    BY DEF UploadsExact, StreamsWired
  <1>n. UploadExact(NoHandler, open'[k], total)
    BY DEF UploadExact, NoHandler, Receiving, Returning
  <1>s. ASSUME h'[k] = h[k], open'[k] => open[k]
        PROVE  UploadExact(h'[k], open'[k], total)
    BY <1>s, <1>w DEF UploadExact
  <1>1. ASSUME NEW g \in Senders, Handler(g)
        PROVE  UploadExact(h'[k], open'[k], total)
    <2>0. UNCHANGED open
      BY <1>1, HandlerForm
    <2>1. CASE g # k
      BY <2>0, <2>1, <1>1, <1>s, HandlerForm
    <2>2. CASE g = k
      <3>r. CASE Receives(k)
        <4>1. h'[k].pc \in {"write", "record"} /\ Written(h'[k]) = h[k].got
              /\ Written(h[k]) = h[k].got /\ h[k].got \in Nat
          BY <3>r, <1>t DEF Receives, Written, Handlers
        <4> QED BY <3>r, <4>1, <1>w DEF Receives, UploadExact, Content, Receiving, Returning
      <3>e. CASE Ends(k)
        BY <3>e, <1>w DEF Ends, UploadExact, Content, Written, Receiving, Returning
      <3>g. CASE GivesUp(k)
        BY <3>g, <2>0 DEF GivesUp, UploadExact, Receiving, Returning
      <3>p. CASE Prepares(k)
        BY <3>p, <1>w DEF Prepares, UploadExact, Content, Written, Receiving, Returning
      <3>w. CASE Writes(k)
        <4>1. h[k].got \in 1..total
          BY <3>w, <1>t, <1>w DEF Writes, Wired, Handlers
        <4>2. /\ Content(h'[k]) = Append(Content(h[k]), h[k].got)
              /\ h'[k].up.aborted = h[k].up.aborted
          <5> DEFINE u == h[k].up
                     c == h[k].got
          <5>1. u \in Uploads(total) /\ c \in 1..total /\ h'[k].up = Taken(u, c)
            BY <3>w, <4>1, <1>t DEF Writes
          <5>2. /\ Taken(u, c).parts \o Taken(u, c).buf = Append(u.parts \o u.buf, c)
                /\ Taken(u, c).aborted = u.aborted
            <6> HIDE DEF u, c
            <6> QED BY <5>1, TakenContent
          <5> QED BY <5>1, <5>2 DEF Content
        <4>3. Content(h[k]) = Prefix(h[k].got - 1) /\ ~h[k].up.aborted
          BY <3>w, <1>w DEF Writes, UploadExact, Written, Receiving
        <4>4. Append(Prefix(h[k].got - 1), h[k].got) = Prefix(h[k].got)
          <5>1. h[k].got - 1 \in Nat /\ (h[k].got - 1) + 1 = h[k].got
            BY <4>1, <1>t
          <5> QED BY <5>1, PrefixProperties
        <4>5. Content(h'[k]) = Prefix(h[k].got)
          BY <4>2, <4>3, <4>4
        <4> QED BY <3>w, <4>2, <4>3, <4>5 DEF Writes, UploadExact, Written, Receiving, Returning
      <3>b. CASE Breaks(k)
        BY <3>b, <2>0 DEF Breaks, UploadExact, Receiving, Returning
      <3>u. CASE Updates(k)
        BY <3>u, <2>0, <1>w DEF Updates, UploadExact, Content, Receiving, Returning
      <3>a. CASE Answers(k)
        BY <3>a DEF Answers, UploadExact, Receiving, Returning
      <3> QED BY <1>1, <2>2, <3>r, <3>e, <3>g, <3>p, <3>w, <3>b, <3>u, <3>a, HandlerForm
    <2> QED BY <2>1, <2>2
  <1>2. CASE Quiet
    <2>1. h'[k] = h[k] /\ (open'[k] => open[k] \/ h[k] = NoHandler)
      BY <1>2 DEF Quiet
    <2> QED BY <2>1, <1>n, <1>s
  <1>3. ASSUME NEW g \in Senders, OpensStream(g)
        PROVE  UploadExact(h'[k], open'[k], total)
    <2>1. CASE g # k
      BY <1>3, <2>1, <1>s, <1>t DEF OpensStream
    <2>2. CASE g = k
      <3>1. h'[k] = [NoHandler EXCEPT !.pc = "recv"]
        BY <1>3, <2>2, <1>t DEF OpensStream
      <3>2. <<>> \o <<>> = Prefix(0)
        BY PrefixProperties, ConcatEmptySeq, EmptySeq
      <3>3. h'[k].pc = "recv" /\ h'[k].got = 0 /\ h'[k].up = NewUpload
        BY <3>1 DEF NoHandler
      <3>4. Content(h'[k]) = Prefix(0) /\ ~h'[k].up.aborted
        BY <3>2, <3>3 DEF NewUpload, Content
      <3> QED BY <3>3, <3>4 DEF UploadExact, Written, Receiving, Returning
    <2> QED BY <2>1, <2>2
  <1>4. CASE LosesHandlers
    <2>1. CASE h'[k] = h[k]
      BY <1>4, <2>1, <1>s DEF LosesHandlers
    <2>2. CASE h'[k] = Gone(k, "error")
      BY <2>2 DEF Gone, NoHandler, UploadExact, Receiving, Returning
    <2> QED BY <1>4, <2>1, <2>2 DEF LosesHandlers
  <1>5. CASE GetLog \/ Deletes
    BY <1>5, <1>s DEF GetLog, GetLogRead, GetLogWrite, Deletes
  <1> QED BY <1>1, <1>2, <1>3, <1>4, <1>5, StepForm

----------------------------------------------------------------------------
(* The object keeps what was written                                       *)

\* As long as nothing spoils the log, an S3 object is the whole log if there is
\* one. A file, or a GCS object of a single chunk, has what its handlers have
\* written, and all of the log once a handler has seen the end of its stream, and
\* once the Record says that it is stored or a reader has relied on it.
HandlerKept(y, o, n) ==
    /\ y.pc \in Receiving => Embeds(o, Written(y))
    /\ y.pc \in Returning /\ y.err = "EOF" => Embeds(o, n)

StoreKept ==
    ~Excused =>
        /\ type = "S3" => object \in {<<>>, Prefix(total)}
        /\ type = "GCS" => object \in {<<>>, Prefix(1)}
        /\ type # "S3" => /\ \A g \in Senders : HandlerKept(h[g], object, total)
                          /\ rec.stored \/ reader.pc = "opened" => Embeds(object, total)

\* What a step may do to the object.
LEMMA ObjectStep ==
    ASSUME TypeOK, StreamsWired, UploadsExact, [Next]_vars, ~Excused'
    PROVE  /\ ~Excused
           /\ type = "S3" => object' \in {object, Prefix(total)}
           /\ type = "GCS" => total <= 1 /\ object' \in {object, Prefix(1)}
           /\ type # "S3" => \A j \in 0..total : Embeds(object, j) => Embeds(object', j)
  <1>t. /\ clock \in Nat /\ total \in Nat /\ object \in Seq(0..total)
        /\ h \in [Senders -> Handlers(clock, total)] /\ type \in {"File", "S3", "GCS"}
    BY Types, LogsAssumption
  <1>x. ~Excused /\ UNCHANGED <<type, total>>
    BY StaysExcused, StepForm
  <1>y. /\ deleter.pc = "idle" /\ deleter'.pc = "idle" /\ \A g \in Senders : ~h'[g].stray
        /\ type = "GCS" => total <= 1
    BY <1>x, <1>t DEF Excused, Spoilt
  <1>p. /\ \A j \in 0..1 : Embeds(Prefix(1), j)
        /\ \A c \in 0..total, j \in Nat : Embeds(object, j) => Embeds(Append(object, c), j)
    <2>1. Embeds(Prefix(1), 0) /\ Embeds(Prefix(1), 1)
      BY EmbedsPrefix, EmbedsNothing
    <2>2. \A j \in 0..1 : j = 0 \/ j = 1
      OBVIOUS
    <2> QED BY <2>1, <2>2, <1>t, EmbedsAppend
  <1>s. ASSUME UNCHANGED object
        PROVE  /\ type = "S3" => object' \in {object, Prefix(total)}
               /\ type = "GCS" => total <= 1 /\ object' \in {object, Prefix(1)}
               /\ type # "S3" => \A j \in 0..total : Embeds(object, j) => Embeds(object', j)
    BY <1>s, <1>y
  <1>1. ASSUME NEW g \in Senders, Handler(g)
        PROVE  /\ type = "S3" => object' \in {object, Prefix(total)}
               /\ type = "GCS" => total <= 1 /\ object' \in {object, Prefix(1)}
               /\ type # "S3" => \A j \in 0..total : Embeds(object, j) => Embeds(object', j)
    <2>w. Wired(s[g], h[g], total) /\ h[g] \in Handlers(clock, total)
      BY <1>t DEF StreamsWired
    <2>1. CASE Writes(g)
      <3>1. h[g].got \in 1..total
        BY <2>1, <2>w, <1>t DEF Writes, Wired, Handlers
      <3>2. CASE type = "File"
        <4>1. object' = Append(object, h[g].got)
          BY <2>1, <3>2 DEF Writes, Stored
        <4> QED BY <3>1, <3>2, <4>1, <1>p, <1>t
      <3>3. CASE type = "GCS"
        <4>1. h[g].got = 1 /\ total <= 1
          BY <3>1, <3>3, <1>y, <1>t
        <4>2. object' = Prefix(1)
          BY <2>1, <3>3, <4>1, PrefixProperties DEF Writes, Stored
        <4> QED BY <3>3, <4>1, <4>2, <1>p, <1>t
      <3>4. CASE type = "S3"
        BY <2>1, <3>4 DEF Writes, Stored
      <3> QED BY <3>2, <3>3, <3>4, <1>t
    <2>2. CASE Breaks(g)
      <3>1. CASE type = "File" /\ object' = Append(object, Torn)
        BY <3>1, <1>p, <1>t DEF Torn
      <3> QED BY <2>2, <3>1, <1>s DEF Breaks
    <2>3. CASE Answers(g)
      <3>1. CASE /\ type = "S3" /\ open[g] /\ h[g].streaming /\ ~h[g].up.aborted
                 /\ object' = Content(h[g])
        <4>1. ~h[g].stray
          BY <2>3, <1>y DEF Answers
        <4>2. Content(h[g]) = Prefix(total)
          BY <2>3, <3>1, <4>1 DEF UploadsExact, UploadExact, Answers, Returning
        <4> QED BY <3>1, <4>2
      <3> QED BY <2>3, <3>1, <1>s DEF Answers
    <2>4. CASE UNCHANGED object
      BY <2>4, <1>s
    <2> QED BY <1>1, <2>1, <2>2, <2>3, <2>4, HandlerForm
            DEF Receives, Ends, GivesUp, Prepares, Updates
  <1>2. CASE ~\E g \in Senders : Handler(g)
    <2>1. UNCHANGED object
      BY <1>2, <1>y, StepForm DEF Quiet, OpensStream, LosesHandlers, GetLog, GetLogRead,
                                  GetLogWrite, Deletes, store
    <2> QED BY <2>1, <1>s, <1>x
  <1> QED BY <1>x, <1>1, <1>2

LEMMA StoreInit == Init => StoreKept
  <1> SUFFICES ASSUME Init PROVE StoreKept
    OBVIOUS
  <1>1. object = <<>> /\ rec.stored = FALSE /\ reader.pc = "idle"
    BY DEF Init, NoObject, NoRecord
  <1>2. \A g \in Senders : h[g].pc = "none"
    BY DEF Init, NoHandler
  <1>3. \A g \in Senders : HandlerKept(h[g], object, total)
    BY <1>2 DEF HandlerKept, Receiving, Returning
  <1> QED BY <1>1, <1>3 DEF StoreKept

LEMMA StoreStep ==
    ASSUME TypeOK, StreamsWired, UploadsExact, StoreKept, [Next]_vars
    PROVE  StoreKept'
  <1> SUFFICES ASSUME ~Excused' PROVE StoreKept'
    BY DEF StoreKept
  <1>t. /\ clock \in Nat /\ total \in Nat /\ object \in Seq(0..total)
        /\ h \in [Senders -> Handlers(clock, total)] /\ type \in {"File", "S3", "GCS"}
    BY Types, LogsAssumption
  <1>x. ~Excused /\ UNCHANGED <<type, total>> /\ deleter'.pc = "idle"
    BY StaysExcused, StepForm DEF Excused, Spoilt
  <1>1. /\ type = "S3" => object' \in {<<>>, Prefix(total)}
        /\ type = "GCS" => object' \in {<<>>, Prefix(1)}
    BY <1>x, ObjectStep DEF StoreKept
  <1>2. ASSUME type # "S3", NEW k \in Senders
        PROVE  HandlerKept(h'[k], object', total)
    <2>w. /\ Wired(s[k], h[k], total) /\ h[k] \in Handlers(clock, total)
          /\ HandlerKept(h[k], object, total) /\ h[k].got \in 0..total
      <3>1. h[k] \in Handlers(clock, total)
        BY <1>t
      <3> QED BY <1>2, <1>x, <3>1 DEF StreamsWired, StoreKept, Handlers
    <2>g. \A j \in 0..total : Embeds(object, j) => Embeds(object', j)
      BY <1>2, ObjectStep
    <2>s. ASSUME h'[k] = h[k]
          PROVE  HandlerKept(h'[k], object', total)
      <3>1. h[k].pc \in Receiving => Written(h[k]) \in 0..total
        BY <2>w, <1>t DEF Wired, Written, Receiving
      <3>2. total \in 0..total
        BY <1>t
      <3> QED BY <2>s, <2>w, <2>g, <3>1, <3>2 DEF HandlerKept
    <2>1. ASSUME NEW g \in Senders, Handler(g)
          PROVE  HandlerKept(h'[k], object', total)
      <3>1. CASE g # k
        BY <2>1, <3>1, <2>s, HandlerForm
      <3>2. CASE g = k
        <4>r. CASE Receives(k)
          <5>1. h'[k].pc \in {"write", "record"} /\ Written(h'[k]) = h[k].got
                /\ Written(h[k]) = h[k].got
            BY <4>r, <2>w DEF Receives, Written, Handlers
          <5> QED BY <4>r, <5>1, <2>w DEF Receives, HandlerKept, Receiving, Returning
        <4>e. CASE Ends(k)
          BY <4>e, <2>w DEF Ends, HandlerKept, Written, Receiving, Returning
        <4>g. CASE GivesUp(k)
          BY <4>g DEF GivesUp, HandlerKept, Receiving, Returning
        <4>p. CASE Prepares(k)
          BY <4>p, <2>w DEF Prepares, HandlerKept, Written, Receiving, Returning
        <4>w. CASE Writes(k)
          <5>1. h[k].got \in 1..total
            BY <4>w, <2>w, <1>t DEF Writes, Wired
          <5>2. CASE type = "File"
            <6>1. object' = Append(object, h[k].got) /\ Embeds(object, h[k].got - 1)
              BY <4>w, <5>2, <2>w DEF Writes, Stored, HandlerKept, Written, Receiving
            <6>2. h[k].got - 1 \in Nat /\ h[k].got = (h[k].got - 1) + 1 /\ h[k].got \in 0..total
              BY <5>1, <1>t
            <6>3. Embeds(object', h[k].got)
              BY <6>1, <6>2, <1>t, EmbedsAppend
            <6> QED BY <4>w, <6>3 DEF Writes, HandlerKept, Written, Receiving, Returning
          <5>3. CASE type = "GCS"
            <6>1. h[k].got = 1
              BY <5>1, <5>3, <1>t, ObjectStep
            <6>2. object' = Prefix(1)
              BY <4>w, <5>3, <6>1, PrefixProperties DEF Writes, Stored
            <6> QED BY <4>w, <6>1, <6>2, EmbedsPrefix
                    DEF Writes, HandlerKept, Written, Receiving, Returning
          <5> QED BY <5>2, <5>3, <1>t, <1>2
        <4>b. CASE Breaks(k)
          BY <4>b DEF Breaks, HandlerKept, Receiving, Returning
        <4>u. CASE Updates(k)
          BY <4>u, <2>w DEF Updates, HandlerKept, Receiving, Returning
        <4>a. CASE Answers(k)
          BY <4>a DEF Answers, HandlerKept, Receiving, Returning
        <4> QED BY <2>1, <3>2, <4>r, <4>e, <4>g, <4>p, <4>w, <4>b, <4>u, <4>a, HandlerForm
      <3> QED BY <3>1, <3>2
    <2>2. CASE Quiet \/ GetLog \/ Deletes
      BY <2>2, <2>s DEF Quiet, GetLog, GetLogRead, GetLogWrite, Deletes
    <2>3. ASSUME NEW g \in Senders, OpensStream(g)
          PROVE  HandlerKept(h'[k], object', total)
      <3>1. CASE g # k
        BY <2>3, <3>1, <2>s, <1>t DEF OpensStream
      <3>2. CASE g = k
        <4>1. h'[k] = [NoHandler EXCEPT !.pc = "recv"]
          BY <2>3, <3>2, <1>t DEF OpensStream
        <4>2. h'[k].pc = "recv" /\ h'[k].got = 0
          BY <4>1 DEF NoHandler
        <4> QED BY <4>2, EmbedsNothing DEF HandlerKept, Written, Receiving, Returning
      <3> QED BY <3>1, <3>2
    <2>4. CASE LosesHandlers
      <3>1. CASE h'[k] = Gone(k, "error")
        BY <3>1 DEF Gone, NoHandler, HandlerKept, Receiving, Returning
      <3> QED BY <2>4, <3>1, <2>s DEF LosesHandlers
    <2> QED BY <2>1, <2>2, <2>3, <2>4, StepForm
  <1>3. ASSUME type # "S3", rec'.stored \/ reader'.pc = "opened"
        PROVE  Embeds(object', total)
    <2>0. Embeds(object, total) => Embeds(object', total)
      BY <1>3, <1>t, ObjectStep
    <2>1. ASSUME rec.stored \/ reader.pc = "opened"
          PROVE  Embeds(object', total)
      BY <1>3, <1>x, <2>0, <2>1 DEF StoreKept
    <2>2. ASSUME NEW g \in Senders, Handler(g)
          PROVE  Embeds(object', total)
      <3>1. CASE Updates(g) /\ h[g].err = "EOF"
        BY <1>3, <1>x, <2>0, <3>1 DEF StoreKept, HandlerKept, Updates, Returning
      <3>2. CASE rec' = rec \/ (Updates(g) /\ h[g].err # "EOF")
        BY <2>1, <2>2, <3>2, <1>3, HandlerForm DEF Updates
      <3> QED BY <2>2, <3>1, <3>2, HandlerForm
              DEF Receives, Ends, GivesUp, Prepares, Writes, Breaks, Answers
    <2>3. CASE Quiet \/ LosesHandlers \/ \E g \in Senders : OpensStream(g)
      BY <2>3, <2>1, <1>3 DEF Quiet, LosesHandlers, OpensStream
    <2>4. CASE GetLog
      <3>1. CASE GetLogRead
        BY <3>1, <2>1 DEF GetLogRead
      <3>2. CASE GetLogWrite
        BY <3>2, <2>1 DEF GetLogWrite
      <3> QED BY <2>4, <3>1, <3>2 DEF GetLog
    <2>5. ~Deletes
      BY <1>x DEF Deletes
    <2> QED BY <2>2, <2>3, <2>4, <2>5, StepForm
  <1> QED BY <1>1, <1>2, <1>3, <1>x DEF StoreKept

----------------------------------------------------------------------------
(* The log of a single stream                                              *)

\* As long as nothing spoils the log and only g has streamed it, a file is what
\* the handler of g has written, nothing else; it is the whole log when the
\* Record says so; and there is nothing at all before g opens its stream.
Sole(g) ==
    /\ h[g].pc = "none" => object = <<>> /\ ~rec.stored /\ reader.pc = "idle"
    /\ type # "S3" =>
          /\ h[g].pc \in Receiving => object = Prefix(Written(h[g]))
          /\ h[g].pc \in Returning /\ h[g].err = "EOF" => object = Prefix(total)
          /\ rec.stored \/ reader.pc = "opened" =>
                object = Prefix(total) /\ h[g].pc \in {"flush", "end"}
    /\ reader.pc = "served" => reader.answer = Prefix(total)

SoleStream == \A g \in Senders : Streamed \subseteq {g} /\ ~Excused => Sole(g)

LEMMA SoleInit == Init => SoleStream
  <1> SUFFICES ASSUME Init, NEW g \in Senders PROVE Sole(g)
    BY DEF SoleStream
  <1>1. object = <<>> /\ rec.stored = FALSE /\ reader.pc = "idle" /\ h[g].pc = "none"
    BY DEF Init, NoObject, NoRecord, NoHandler
  <1> QED BY <1>1 DEF Sole, Receiving, Returning

LEMMA SoleStep ==
    ASSUME TypeOK, StreamsWired, UploadsExact, StoreKept, SoleStream, [Next]_vars
    PROVE  SoleStream'
  <1> SUFFICES ASSUME NEW g \in Senders, Streamed' \subseteq {g}, ~Excused'
               PROVE  Sole(g)'
    BY DEF SoleStream
  <1>t. /\ clock \in Nat /\ total \in Nat /\ object \in Seq(0..total)
        /\ h \in [Senders -> Handlers(clock, total)] /\ type \in {"File", "S3", "GCS"}
        /\ reader \in [pc: {"idle", "opened", "served"}, answer: Seq(0..total)]
    BY Types, LogsAssumption
  <1>w. /\ Wired(s[g], h[g], total) /\ h[g] \in Handlers(clock, total) /\ h[g].got \in 0..total
    <2>1. h[g] \in Handlers(clock, total)
      BY <1>t
    <2> QED BY <2>1 DEF StreamsWired, Handlers
  <1>x. ~Excused /\ UNCHANGED <<type, total>> /\ deleter'.pc = "idle"
    BY StaysExcused, StepForm DEF Excused, Spoilt
  <1>a. \A k \in Senders : Handler(k) => h[k].pc # "none"
    BY HandlerForm DEF Receives, Ends, GivesUp, Prepares, Writes, Breaks, Updates, Answers
  <1>b. ASSUME NEW k \in Senders, h[k].pc # "none"
        PROVE  h'[k].pc # "none"
    <2>1. ASSUME NEW j \in Senders, Handler(j)
          PROVE  h'[k].pc # "none"
      <3>1. CASE j # k
        BY <2>1, <3>1, <1>b, HandlerForm
      <3>2. CASE j = k
        BY <2>1, <3>2, <1>b, HandlerForm
           DEF Receives, Ends, GivesUp, Prepares, Writes, Breaks, Updates, Answers
      <3> QED BY <3>1, <3>2
    <2>2. CASE Quiet \/ GetLog \/ Deletes
      BY <2>2, <1>b DEF Quiet, GetLog, GetLogRead, GetLogWrite, Deletes
    <2>3. ASSUME NEW j \in Senders, OpensStream(j)
          PROVE  h'[k].pc # "none"
      <3>1. j # k
        BY <1>b, <2>3 DEF OpensStream, NoHandler
      <3> QED BY <2>3, <3>1, <1>b, <1>t DEF OpensStream
    <2>4. CASE LosesHandlers
      BY <2>4, <1>b, ZenonT(60) DEF LosesHandlers, Gone, NoHandler
    <2> QED BY <2>1, <2>2, <2>3, <2>4, StepForm
  <1>c. \A k \in Senders : h'[k].pc # "none" => k = g
    BY DEF Streamed
  <1>d. Sole(g)
    <2>1. Streamed \subseteq {g}
      BY <1>b, <1>c DEF Streamed
    <2> QED BY <2>1, <1>x DEF SoleStream
  <1>1. ASSUME NEW k \in Senders, Handler(k)
        PROVE  Sole(g)'
    <2>k. k = g
      BY <1>1, <1>a, <1>b, <1>c
    <2>0. UNCHANGED reader
      BY <1>1, HandlerForm
    <2>r. CASE Receives(g)
      <3>1. h'[g].pc \in {"write", "record"} /\ Written(h'[g]) = h[g].got
            /\ Written(h[g]) = h[g].got
        BY <2>r, <1>w DEF Receives, Written
      <3> QED BY <2>r, <2>0, <3>1, <1>d, <1>x DEF Receives, Sole, Receiving, Returning
    <2>e. CASE Ends(g)
      BY <2>e, <2>0, <1>d, <1>x DEF Ends, Sole, Written, Receiving, Returning
    <2>g. CASE GivesUp(g)
      BY <2>g, <2>0, <1>d, <1>x DEF GivesUp, Sole, Receiving, Returning
    <2>p. CASE Prepares(g)
      BY <2>p, <2>0, <1>d, <1>x DEF Prepares, Sole, Written, Receiving, Returning
    <2>w. CASE Writes(g)
      <3>1. h[g].got \in 1..total
        BY <2>w, <1>t, <1>w DEF Writes, Wired
      <3>2. ASSUME type # "S3" PROVE object' = Prefix(h[g].got)
        <4>1. CASE type = "File"
          <5>1. object' = Append(Prefix(h[g].got - 1), h[g].got)
            BY <2>w, <4>1, <1>d DEF Writes, Stored, Sole, Written, Receiving
          <5>2. h[g].got - 1 \in Nat /\ (h[g].got - 1) + 1 = h[g].got
            BY <3>1, <1>t
          <5> QED BY <5>1, <5>2, PrefixProperties
        <4>2. CASE type = "GCS"
          <5>1. h[g].got = 1
            BY <3>1, <4>2, <1>t, ObjectStep
          <5> QED BY <2>w, <4>2, <5>1, PrefixProperties DEF Writes, Stored
        <4> QED BY <3>2, <4>1, <4>2, <1>t
      <3> QED BY <2>w, <2>0, <3>2, <1>d, <1>x DEF Writes, Sole, Written, Receiving, Returning
    <2>b. CASE Breaks(g)
      BY <2>b, <2>0, <1>d, <1>x DEF Breaks, Sole, Receiving, Returning
    <2>u. CASE Updates(g)
      BY <2>u, <2>0, <1>d, <1>x DEF Updates, Sole, Receiving, Returning
    <2>a. CASE Answers(g)
      BY <2>a, <2>0, <1>d, <1>x DEF Answers, Sole, Receiving, Returning
    <2> QED BY <1>1, <2>k, <2>r, <2>e, <2>g, <2>p, <2>w, <2>b, <2>u, <2>a, HandlerForm
  <1>2. CASE Quiet
    BY <1>2, <1>d, <1>x DEF Quiet, Sole
  <1>3. ASSUME NEW k \in Senders, OpensStream(k)
        PROVE  Sole(g)'
    <2>1. h'[k] = [NoHandler EXCEPT !.pc = "recv"]
      BY <1>3, <1>t DEF OpensStream
    <2>2. h'[k].pc = "recv" /\ h'[k].got = 0
      BY <2>1 DEF NoHandler
    <2>3. k = g
      BY <2>2, <1>c
    <2>4. h[g].pc = "none"
      BY <1>3, <2>3 DEF OpensStream, NoHandler
    <2>5. object = Prefix(0)
      BY <2>4, <1>d, PrefixProperties DEF Sole
    <2> QED BY <1>3, <2>2, <2>3, <2>4, <2>5, <1>d, <1>x
            DEF OpensStream, Sole, Written, Receiving, Returning
  <1>4. CASE LosesHandlers
    <2>1. CASE h'[g] = h[g]
      BY <1>4, <2>1, <1>d, <1>x DEF LosesHandlers, Sole
    <2>2. CASE h'[g] = Gone(g, "error")
      <3>1. h'[g].pc = "end" /\ UNCHANGED <<object, rec, reader>>
        BY <1>4, <2>2 DEF LosesHandlers, Gone, NoHandler
      <3> QED BY <3>1, <1>d, <1>x DEF Sole, Receiving, Returning
    <2> QED BY <1>4, <2>1, <2>2 DEF LosesHandlers
  <1>5. CASE GetLogRead
    <2>1. rec.stored /\ reader'.pc = "opened" /\ UNCHANGED <<object, rec, h>>
      BY <1>5, <1>t DEF GetLogRead, store
    <2> QED BY <2>1, <1>d, <1>x DEF Sole
  <1>6. CASE GetLogWrite
    <2>1. reader.pc = "opened" /\ UNCHANGED <<object, rec, h>>
      BY <1>6 DEF GetLogWrite, store
    <2>2. CASE object # NoObject
      <3>1. reader'.pc = "served" /\ reader'.answer = object
        BY <1>6, <2>2 DEF GetLogWrite
      <3>2. object = Prefix(total)
        BY <2>1, <2>2, <1>d, <1>x, <1>t DEF Sole, StoreKept, NoObject
      <3> QED BY <2>1, <3>1, <3>2, <1>d, <1>x DEF Sole
    <2>3. CASE object = NoObject
      <3>1. reader'.pc = "idle"
        BY <1>6, <2>3 DEF GetLogWrite
      <3> QED BY <2>1, <3>1, <1>d, <1>x DEF Sole
    <2> QED BY <2>2, <2>3
  <1>7. ~Deletes
    BY <1>x DEF Deletes
  <1> QED BY <1>1, <1>2, <1>3, <1>4, <1>5, <1>6, <1>7, StepForm DEF GetLog

\* The inductive invariant of the log API.
LogInv == TypeOK /\ StreamsWired /\ UploadsExact /\ StoreKept /\ SoleStream

LEMMA LogInvAlways == Spec => []LogInv
  <1>1. Init => LogInv
    BY InitType, UploadsInit, StoreInit, SoleInit DEF LogInv
  <1>2. LogInv /\ [Next]_vars => LogInv'
    BY StepType, UploadsStep, StoreStep, SoleStep DEF LogInv
  <1> QED BY <1>1, <1>2, PTL DEF Spec

\* What GetLog serves of a log that one goroutine streamed is the log exactly,
\* for a log of any length, parts of any size and any number of failures: neither
\* the parts and the buffer of an S3 upload nor the appends to a file repeat or
\* lose a chunk, and a Record that says stored is not set before the last one.
THEOREM ServedIsTheLog == Spec => []ServedExactly
  <1>1. LogInv => ServedExactly
    BY DEF LogInv, SoleStream, Sole, ServedExactly, Prefix
  <1> QED BY <1>1, LogInvAlways, PTL

----------------------------------------------------------------------------
(* The log API implements the archive                                      *)

\* The variables of the archive, as Logs maps them.
IsComplete == object # NoObject /\ Contains(object)
IsConfirmed == \E g \in Senders : h[g].answer = "ok"
Served ==
    IF reader.pc # "served" THEN "none"
    ELSE IF Contains(reader.answer) THEN "whole" ELSE "part"

ArchiveStep == [Archive!Next]_<<object # NoObject /\ Contains(object),
    \E g \in Senders : h[g].answer = "ok", Excused,
    IF reader.pc # "served" THEN "none"
    ELSE IF Contains(reader.answer) THEN "whole" ELSE "part">>

LEMMA ArchiveMoves ==
    /\ /\ IsComplete' = IsComplete /\ IsConfirmed' = IsConfirmed
       /\ Excused' = Excused /\ Served' = Served
       => ArchiveStep
    /\ /\ IsConfirmed' = IsConfirmed /\ Excused' = Excused /\ Served' = Served
       /\ Excused \/ (IsComplete => IsComplete')
       => ArchiveStep
    /\ /\ IsConfirmed' /\ Excused' = Excused /\ Served' = Served
       /\ IsComplete' \/ (Excused /\ IsComplete' = IsComplete)
       => ArchiveStep
    /\ /\ IsComplete' = IsComplete /\ IsConfirmed' = IsConfirmed
       /\ Excused' /\ Served' = Served
       => ArchiveStep
    /\ /\ IsComplete' = IsComplete /\ IsConfirmed' = IsConfirmed
       /\ Excused' = Excused
       /\ \/ IsComplete /\ Served' = "whole"
          \/ Excused /\ Served' \in {"part", "whole"}
       => ArchiveStep
  <1> USE DEF ArchiveStep, IsComplete, IsConfirmed, Served, Archive!Next
  <1>1. ASSUME IsComplete' = IsComplete, IsConfirmed' = IsConfirmed, Excused' = Excused,
               Served' = Served
        PROVE  ArchiveStep
    BY <1>1
  <1>2. ASSUME IsConfirmed' = IsConfirmed, Excused' = Excused, Served' = Served,
               Excused \/ (IsComplete => IsComplete')
        PROVE  ArchiveStep
    BY <1>2 DEF Archive!Decay, Archive!Complete
  <1>3. ASSUME IsConfirmed', Excused' = Excused, Served' = Served,
               IsComplete' \/ (Excused /\ IsComplete' = IsComplete)
        PROVE  ArchiveStep
    BY <1>3 DEF Archive!Confirm, Archive!CompleteAndConfirm
  <1>4. ASSUME IsComplete' = IsComplete, IsConfirmed' = IsConfirmed, Excused', Served' = Served
        PROVE  ArchiveStep
    BY <1>4 DEF Archive!Excuse
  <1>5. ASSUME IsComplete' = IsComplete, IsConfirmed' = IsConfirmed, Excused' = Excused,
               \/ IsComplete /\ Served' = "whole"
               \/ Excused /\ Served' \in {"part", "whole"}
        PROVE  ArchiveStep
    BY <1>5 DEF Archive!Serve
  <1> QED BY <1>1, <1>2, <1>3, <1>4, <1>5

\* As long as nothing spoils the log, what is complete stays so.
LEMMA StaysComplete ==
    ASSUME LogInv, [Next]_vars, ~Excused', IsComplete
    PROVE  IsComplete'
  <1>t. total \in Nat /\ object \in Seq(0..total) /\ total \in 0..total
        /\ type \in {"File", "S3", "GCS"}
    BY LogsAssumption DEF LogInv, TypeOK
  <1>0. UNCHANGED <<type, total>> /\ ~Excused
    BY StepForm, ObjectStep DEF LogInv
  <1>c. object # <<>> /\ Embeds(object, total)
    BY DEF IsComplete, Contains, Embeds, NoObject
  <1>1. CASE object' = object
    BY <1>0, <1>1 DEF IsComplete, Contains
  <1>2. CASE object' # object /\ type = "File"
    <2>1. PICK c \in 0..total : object' = Append(object, c)
      <3>1. PICK g \in Senders : Handler(g)
        BY <1>0, <1>2, StepForm DEF LogInv, Quiet, OpensStream, LosesHandlers, GetLog, GetLogRead,
                        GetLogWrite, Deletes, store, Excused, Spoilt
      <3>2. Wired(s[g], h[g], total) /\ h[g].got \in 0..total
        BY DEF LogInv, StreamsWired, TypeOK
      <3> QED BY <1>2, <3>1, <3>2, <1>t, HandlerForm
              DEF LogInv, Receives, Ends, GivesUp, Prepares, Writes, Breaks, Updates, Answers,
                  Stored, Torn
    <2>2. object' # <<>>
      BY <2>1, <1>t
    <2>3. Embeds(object', total)
      BY <1>2, <1>c, <1>t, ObjectStep DEF LogInv
    <2> QED BY <2>2, <2>3, <1>0 DEF IsComplete, Contains, Embeds, NoObject
  <1>3. CASE object' # object /\ type = "GCS"
    <2>1. object' = Prefix(1)
      BY <1>3, ObjectStep DEF LogInv
    <2>2. object' # <<>>
      BY <2>1, PrefixProperties
    <2>3. Embeds(object', total)
      BY <1>3, <1>c, <1>t, ObjectStep DEF LogInv
    <2> QED BY <2>2, <2>3, <1>0 DEF IsComplete, Contains, Embeds, NoObject
  <1>4. CASE object' # object /\ type = "S3"
    <2>1. object = Prefix(total) /\ object' = Prefix(total)
      BY <1>0, <1>c, <1>4, ObjectStep DEF LogInv, StoreKept
    <2> QED BY <2>1, <1>4
  <1> QED BY <1>1, <1>2, <1>3, <1>4, <1>t

\* Handlers confirm, and only at the end.
LEMMA AnswersLast ==
    ASSUME TypeOK, StreamsWired, [Next]_vars, NEW k \in Senders
    PROVE  /\ h[k].answer = "ok" => h'[k].answer = "ok"
           /\ ~(\E g \in Senders : Handler(g)) => (h'[k].answer = "ok" => h[k].answer = "ok")
  <1>t. h \in [Senders -> Handlers(clock, total)]
    BY Types
  <1>w. h[k].answer = "ok" => h[k].pc = "end" /\ h[k] # NoHandler
    BY DEF StreamsWired, Wired, NoHandler
  <1>1. ASSUME NEW g \in Senders, Handler(g), h[k].answer = "ok"
        PROVE  h'[k] = h[k]
    BY <1>1, <1>w, HandlerForm
       DEF Receives, Ends, GivesUp, Prepares, Writes, Breaks, Updates, Answers
  <1>2. CASE Quiet \/ GetLog \/ Deletes
    BY <1>2 DEF Quiet, GetLog, GetLogRead, GetLogWrite, Deletes
  <1>3. ASSUME NEW g \in Senders, OpensStream(g)
        PROVE  h'[k].answer = h[k].answer
    <2>1. h'[g] = [NoHandler EXCEPT !.pc = "recv"] /\ h[g] = NoHandler
      BY <1>3, <1>t DEF OpensStream
    <2>2. h'[g].answer = h[g].answer
      BY <2>1 DEF NoHandler
    <2> QED BY <1>3, <2>2, <1>t DEF OpensStream
  <1>4. CASE LosesHandlers
    <2>1. CASE h[k].pc \notin {"none", "end"} /\ h'[k] = Gone(k, "error")
      <3>1. h'[k].answer = "error" /\ h[k].answer # "ok"
        BY <2>1, <1>w DEF Gone, NoHandler
      <3> QED BY <3>1
    <2> QED BY <1>4, <2>1 DEF LosesHandlers
  <1> QED BY <1>1, <1>2, <1>3, <1>4, StepForm

\* Every step of the log API is a step of the archive, or none.
LEMMA EveryStepArchives == LogInv /\ [Next]_vars => ArchiveStep
  <1> SUFFICES ASSUME LogInv, [Next]_vars PROVE ArchiveStep
    OBVIOUS
  <1>i. TypeOK /\ StreamsWired /\ UploadsExact /\ StoreKept
    BY DEF LogInv
  <1>t. /\ total \in Nat /\ object \in Seq(0..total) /\ type \in {"File", "S3", "GCS"}
        /\ reader \in [pc: {"idle", "opened", "served"}, answer: Seq(0..total)]
    BY LogsAssumption, <1>i DEF TypeOK
  <1>0. UNCHANGED <<type, total>>
    BY <1>i, StepForm
  <1>c. IsConfirmed => IsConfirmed'
    BY <1>i, AnswersLast DEF IsConfirmed
  <1>d. ~(\E g \in Senders : Handler(g)) => IsConfirmed' = IsConfirmed
    <2>1. ASSUME ~(\E g \in Senders : Handler(g)) PROVE IsConfirmed' <=> IsConfirmed
      BY <2>1, <1>i, AnswersLast DEF IsConfirmed
    <2> QED BY <2>1 DEF IsConfirmed
  <1>r. UNCHANGED reader => Served' = Served
    BY <1>0 DEF Served, Contains
  <1>o. UNCHANGED object => IsComplete' = IsComplete
    BY <1>0 DEF IsComplete, Contains
  <1>e. ASSUME UNCHANGED deleter, \A k \in Senders : h'[k].stray => h[k].stray
        PROVE  Excused' = Excused
    <2>1. Excused' => Excused
      BY <1>e, <1>0 DEF Excused, Spoilt
    <2>2. Excused => Excused'
      BY <1>i, StaysExcused
    <2> QED BY <2>1, <2>2 DEF Excused
  <1>1. ASSUME NEW g \in Senders, Handler(g)
        PROVE  ArchiveStep
    <2>0. /\ UNCHANGED <<reader, deleter>> /\ \A k \in Senders \ {g} : h'[k] = h[k]
      BY <1>1, <1>i, HandlerForm
    <2>1. CASE h'[g].answer = "ok" /\ Answers(g)
      <3>1. IsConfirmed'
        BY <2>1 DEF IsConfirmed
      <3>2. Excused' = Excused
        BY <2>0, <2>1, <1>e DEF Answers
      <3>3. /\ h[g].pc \in Returning /\ h[g].err = "EOF" /\ total > 0
            /\ type = "S3" => object' = Content(h[g])
            /\ type # "S3" => object' = object
        BY <2>1 DEF Answers, Returning
      <3>4. CASE type = "S3"
        <4>1. object' = Prefix(total)
          BY <3>3, <3>4, <1>i DEF UploadsExact, UploadExact
        <4>2. object' # <<>> /\ Embeds(object', total)
          BY <4>1, <3>3, <1>t, EmbedsPrefix, PrefixProperties
        <4>3. IsComplete'
          BY <4>2, <1>0 DEF IsComplete, NoObject, Contains, Embeds
        <4> QED BY <2>0, <3>1, <3>2, <4>3, <1>r, ArchiveMoves
      <3>5. CASE type # "S3" /\ Excused
        BY <2>0, <3>1, <3>2, <3>3, <3>5, <1>o, <1>r, ArchiveMoves
      <3>6. CASE type # "S3" /\ ~Excused
        <4>1. Embeds(object, total)
          BY <3>3, <3>6, <1>i DEF StoreKept, HandlerKept
        <4>2. object # <<>>
          <5>1. PICK f \in [1..total -> 1..Len(object)] : TRUE
            BY <4>1 DEF Embeds
          <5>2. f[1] \in 1..Len(object)
            BY <5>1, <3>3, <1>t
          <5> QED BY <5>2
        <4>3. IsComplete
          BY <4>1, <4>2 DEF IsComplete, NoObject, Contains, Embeds
        <4>4. IsComplete'
          BY <3>3, <3>6, <4>3, <1>o
        <4> QED BY <2>0, <3>1, <3>2, <4>4, <1>r, ArchiveMoves
      <3> QED BY <3>4, <3>5, <3>6
    <2>2. CASE ~(h'[g].answer = "ok" /\ Answers(g))
      <3>1. h'[g].answer = "ok" => h[g].answer = "ok"
        <4>1. TypeOK' /\ StreamsWired'
          BY <1>i, StepType
        <4>2. h'[g].answer = "ok" => h'[g].pc = "end"
          BY <4>1 DEF StreamsWired, Wired
        <4> QED BY <1>1, <1>i, <2>2, <4>2, HandlerForm
                DEF Receives, Ends, GivesUp, Prepares, Writes, Breaks, Updates
      <3>2. IsConfirmed' = IsConfirmed
        <4>1. IsConfirmed' => IsConfirmed
          BY <2>0, <3>1 DEF IsConfirmed
        <4> QED BY <4>1, <1>c DEF IsConfirmed
      <3>3. CASE Breaks(g) /\ type = "S3"
        <4>1. UNCHANGED object
          BY <3>3 DEF Breaks
        <4>2. CASE Excused'
          BY <4>1, <4>2, <2>0, <3>2, <1>o, <1>r, ArchiveMoves
        <4>3. CASE ~Excused'
          <5>1. ~Excused
            BY <4>3, <1>i, StaysExcused
          <5>2. Excused' = Excused
            BY <4>3, <5>1 DEF Excused
          <5> QED BY <4>1, <5>2, <2>0, <3>2, <1>o, <1>r, ArchiveMoves
        <4> QED BY <4>2, <4>3
      <3>4. CASE ~(Breaks(g) /\ type = "S3")
        <4>1. h'[g].stray = h[g].stray
          BY <1>1, <1>i, <3>4, HandlerForm
             DEF Receives, Ends, GivesUp, Prepares, Writes, Breaks, Updates, Answers
        <4>2. Excused' = Excused
          BY <2>0, <4>1, <1>e
        <4>3. Excused \/ (IsComplete => IsComplete')
          BY <4>2, StaysComplete
        <4> QED BY <2>0, <3>2, <4>2, <4>3, <1>r, ArchiveMoves
      <3> QED BY <3>3, <3>4
    <2> QED BY <2>1, <2>2
  <1>2. CASE ~\E g \in Senders : Handler(g)
    <2>c. IsConfirmed' = IsConfirmed
      BY <1>2, <1>d
    <2>1. CASE Quiet
      BY <2>1, <2>c, <1>e, <1>o, <1>r, ArchiveMoves DEF Quiet
    <2>2. ASSUME NEW g \in Senders, OpensStream(g)
          PROVE  ArchiveStep
      <3>1. h \in [Senders -> Handlers(clock, total)]
        BY <1>i, Types
      <3>2. h'[g] = [NoHandler EXCEPT !.pc = "recv"] /\ \A k \in Senders \ {g} : h'[k] = h[k]
        BY <2>2, <3>1 DEF OpensStream
      <3>3. ~h'[g].stray
        BY <3>2 DEF NoHandler
      <3>4. UNCHANGED <<object, reader, deleter>>
        BY <2>2 DEF OpensStream
      <3>5. Excused' = Excused
        BY <3>2, <3>3, <3>4, <1>e
      <3> QED BY <3>4, <3>5, <2>c, <1>o, <1>r, ArchiveMoves
    <2>3. CASE LosesHandlers
      <3>1. UNCHANGED <<object, reader, deleter>>
        BY <2>3 DEF LosesHandlers
      <3>2. \A k \in Senders : h'[k].stray => h[k].stray
        BY <2>3 DEF LosesHandlers, Gone, NoHandler
      <3>3. Excused' = Excused
        BY <3>1, <3>2, <1>e
      <3> QED BY <3>1, <3>3, <2>c, <1>o, <1>r, ArchiveMoves
    <2>4. CASE GetLogRead
      <3>1. UNCHANGED <<object, h, deleter>> /\ reader.pc = "idle" /\ reader'.pc = "opened"
        BY <2>4, <1>t DEF GetLogRead, store
      <3>2. Served' = Served
        BY <3>1 DEF Served
      <3>3. Excused' = Excused
        BY <3>1, <1>e
      <3> QED BY <3>1, <3>2, <3>3, <2>c, <1>o, ArchiveMoves
    <2>5. CASE GetLogWrite
      <3>1. UNCHANGED <<object, h, deleter>> /\ reader.pc = "opened"
        BY <2>5 DEF GetLogWrite, store
      <3>2. Excused' = Excused
        BY <3>1, <1>e
      <3>3. CASE object = NoObject
        <4>1. reader'.pc = "idle"
          BY <2>5, <3>3 DEF GetLogWrite
        <4>2. Served' = Served
          BY <3>1, <4>1 DEF Served
        <4> QED BY <3>1, <3>2, <4>2, <2>c, <1>o, ArchiveMoves
      <3>4. CASE object # NoObject
        <4>1. reader'.pc = "served" /\ reader'.answer = object
          BY <2>5, <3>4 DEF GetLogWrite
        <4>3. Served' = IF Contains(object) THEN "whole" ELSE "part"
          BY <4>1, <1>0 DEF Served, Contains
        <4>4. Excused \/ Contains(object)
          <5> SUFFICES ASSUME ~Excused PROVE Contains(object)
            OBVIOUS
          <5>1. CASE type = "S3"
            <6>1. object = Prefix(total)
              BY <3>4, <5>1, <1>i DEF StoreKept, NoObject
            <6>2. Embeds(object, total)
              BY <6>1, <1>t, EmbedsPrefix
            <6> QED BY <6>2 DEF Embeds, Contains
          <5>2. CASE type # "S3"
            BY <5>2, <3>1, <1>i DEF StoreKept, Embeds, Contains
          <5> QED BY <5>1, <5>2
        <4>5. \/ IsComplete /\ Served' = "whole"
              \/ Excused /\ Served' \in {"part", "whole"}
          BY <3>4, <4>3, <4>4 DEF IsComplete
        <4> QED BY <3>1, <3>2, <4>5, <2>c, <1>o, ArchiveMoves
      <3> QED BY <3>3, <3>4
    <2>6. CASE Deletes
      <3>1. Excused' /\ UNCHANGED reader
        BY <2>6 DEF Deletes, Excused, Spoilt
      <3>2. CASE Excused
        <4>1. Excused' = Excused
          BY <3>1, <3>2 DEF Excused
        <4> QED BY <3>1, <3>2, <4>1, <2>c, <1>r, ArchiveMoves
      <3>3. CASE ~Excused
        <4>1. UNCHANGED object
          BY <2>6, <3>3 DEF Deletes, Excused, Spoilt
        <4> QED BY <3>1, <4>1, <2>c, <1>o, <1>r, ArchiveMoves
      <3> QED BY <3>2, <3>3
    <2> QED BY <1>2, <2>1, <2>2, <2>3, <2>4, <2>5, <2>6, <1>i, StepForm DEF GetLog
  <1> QED BY <1>1, <1>2

\* The log API implements the archive: a log that is complete stays so, a
\* LogSummary is sent only for a complete log, and GetLog serves the whole log or
\* nothing, unless there is an excuse.
THEOREM LogsImplementArchive == Spec => ArchiveSpec
  <1>1. Init => Archive!Init
    <2> SUFFICES ASSUME Init PROVE Archive!Init
      OBVIOUS
    <2>1. object = NoObject /\ reader.pc = "idle" /\ \A g \in Senders : h[g].answer = "none"
      BY DEF Init, NoHandler
    <2>2. Excused \in BOOLEAN
      BY DEF Excused
    <2> QED BY <2>1, <2>2 DEF Archive!Init
  <1> QED BY <1>1, LogInvAlways, EveryStepArchives, PTL
          DEF Spec, ArchiveSpec, Archive!Spec, ArchiveStep
=============================================================================
