-------------------------------- MODULE Logs --------------------------------
(***************************************************************************)
(* The log of one completed run: the watcher's goroutines that stream it   *)
(* to the API server (sendLog, streamLogs), the UpdateLog handlers that    *)
(* receive the chunks, the storage back ends, and the log Record that      *)
(* tells GetLog and DeleteLog whether the log is there.                    *)
(*                                                                         *)
(* Every reconciliation of a completed run starts a goroutine of its own,  *)
(* so several may be under way. A chunk is a message of UpdateLog, told    *)
(* apart by its number; the log consists of the chunks 1..total.           *)
(*                                                                         *)
(* rec     the log Record: its etag (0: there is none), whether the log is *)
(*         stored, and its size in chunks                                  *)
(* clock   etags handed out so far                                         *)
(* object  the file or the object in the bucket, as a sequence of chunks   *)
(* s[g]    where the goroutine g is, and the chunks it has sent            *)
(* open[g] whether the context of g's UpdateLog call is still live         *)
(* h[g]    the handler of g's call: where it is, the etag of the Record it *)
(*         read, the chunks it received, the size it counted, the S3       *)
(*         upload (buffer, parts, whether it was aborted), the error it    *)
(*         returns with, and its answer                                    *)
(* reader  a GetLog call, deleter a DeleteLog call                         *)
(***************************************************************************)
EXTENDS Integers, Sequences

CONSTANTS
    Senders,      \* the goroutines: reconciliations of the completed run
    LogTypes,     \* the storage types the API server may be configured with
    Lengths,      \* bound: the lengths of the log, in chunks
    Window,       \* bound: chunks of a stream in flight (gRPC's flow control)
    PartChunks,   \* S3_MULTI_PART_SIZE in chunks
    MaxFaults     \* bound: failed calls, timeouts and crashes

ASSUME LogsAssumption ==
    /\ LogTypes \subseteq {"File", "S3", "GCS"}
    /\ Lengths \subseteq Nat /\ MaxFaults \in Nat
    /\ Window \in Nat \ {0}
    /\ PartChunks \in Nat \ {0, 1}    \* a part of S3 is at least 5 MiB, a chunk 64 KiB

VARIABLES type, total, rec, clock, object, s, open, h, reader, deleter, faults

store == <<rec, clock, object>>
vars == <<type, total, rec, clock, object, s, open, h, reader, deleter, faults>>

----------------------------------------------------------------------------
(* The storage back ends                                                   *)

\* No file, or no object under the key.
NoObject == <<>>

\* A chunk of which only a part was written when the disk failed.
Torn == 0

\* What ReadFrom leaves in the object for a received chunk c. A file is
\* opened with O_APPEND. Every call on GCS opens a new writer for the key,
\* which replaces the object. S3 makes nothing visible before Flush.
Stored(c) ==
    CASE type = "File" -> Append(object, c)
      [] type = "GCS"  -> <<c>>
      [] type = "S3"   -> object

\* A part is uploaded once the buffer holds PartChunks.
PartFull(u) == Len(u.buf) + 1 >= PartChunks

\* Mutant: ReadFrom returns the fill of the buffer after it was reset.
CountedAfterReset(u) == 0

\* s3Stream.ReadFrom returns partSize, the fill of the buffer, where the
\* others return the bytes they wrote.
Counted(u) ==
    IF type # "S3" THEN 1
    ELSE IF PartFull(u) THEN 0 ELSE Len(u.buf) + 1

\* Mutant: the buffer is not reset once its part is uploaded.
TakenTwice(u, c) ==
    IF type # "S3" THEN u
    ELSE IF PartFull(u)
         THEN [u EXCEPT !.parts = @ \o Append(u.buf, c), !.buf = Append(@, c)]
         ELSE [u EXCEPT !.buf = Append(@, c)]

\* The upload after a chunk c was taken in.
Taken(u, c) ==
    IF type # "S3" THEN u
    ELSE IF PartFull(u)
         THEN [u EXCEPT !.parts = @ \o Append(u.buf, c), !.buf = <<>>]
         ELSE [u EXCEPT !.buf = Append(@, c)]

NewUpload == [parts |-> <<>>, buf |-> <<>>, aborted |-> FALSE]

----------------------------------------------------------------------------
(* Records, goroutines and handlers                                        *)

NoRecord == [etag |-> 0, stored |-> FALSE, size |-> 0]

Exists == rec.etag # 0

NoHandler == [pc |-> "none", etag |-> 0, got |-> 0, size |-> 0, up |-> NewUpload,
              streaming |-> FALSE, stray |-> FALSE, err |-> "none", answer |-> "none"]

Fault == faults < MaxFaults /\ faults' = faults + 1

\* Goroutine g goes on at p.
Goto(g, p) == s' = [s EXCEPT ![g].pc = p]

\* g's call ends: the deferred cancel of its context ends the stream too.
Finish(g) == /\ Goto(g, "done")
             /\ open' = [open EXCEPT ![g] = FALSE]

Active(g) == s[g].pc \notin {"idle", "done"}

\* The handler of g goes on at p.
Handle(g, p) == h' = [h EXCEPT ![g].pc = p]

\* The handler of g leaves its loop with err.
Return(g, err) == h' = [h EXCEPT ![g].pc = "return", ![g].err = err]

\* The handler of g answers a and is gone; an upload it could not abort is not.
Gone(g, a) == [NoHandler EXCEPT !.pc = "end", !.answer = a, !.stray = h[g].stray]

Answer(g, a) == h' = [h EXCEPT ![g] = Gone(g, a)]

----------------------------------------------------------------------------
Init ==
    /\ type \in LogTypes
    /\ total \in Lengths
    /\ rec = NoRecord /\ clock = 0
    /\ object = NoObject
    /\ s = [g \in Senders |-> [pc |-> "idle", sent |-> 0]]
    /\ open = [g \in Senders |-> FALSE]
    /\ h = [g \in Senders |-> NoHandler]
    /\ reader = [pc |-> "idle", answer |-> NoObject]
    /\ deleter = [pc |-> "idle", etag |-> 0]
    /\ faults = 0

----------------------------------------------------------------------------
(* The watcher: sendLog                                                    *)

UnchangedButSender == UNCHANGED <<type, total, store, h, reader, deleter>>

\* The reconciliation of a completed TaskRun or PipelineRun starts g.
SendLog(g) ==
    /\ s[g].pc = "idle"
    /\ s' = [s EXCEPT ![g].pc = "lookup"]
    /\ open' = [open EXCEPT ![g] = TRUE]
    /\ UNCHANGED faults /\ UnchangedButSender

\* GetLogRecord: a Record that exists stands for a log already streamed; only
\* the run's Log annotation is set then.
GetLogRecord(g) ==
    /\ s[g].pc = "lookup"
    /\ \/ Exists /\ Finish(g) /\ UNCHANGED faults
       \/ ~Exists /\ Goto(g, "put") /\ UNCHANGED <<open, faults>>
       \/ Finish(g) /\ Fault
    /\ UnchangedButSender

\* PutLog looks the Record up again and takes the one it finds.
PutLogGet(g) ==
    /\ s[g].pc = "put"
    /\ \/ Goto(g, IF Exists THEN "annotate" ELSE "create") /\ UNCHANGED <<open, faults>>
       \/ Finish(g) /\ Fault
    /\ UnchangedButSender

\* CreateRecord; of two concurrent calls one gets AlreadyExists. The answer
\* may be lost after the Record was created.
CreateLogRecord(g) ==
    /\ s[g].pc = "create"
    /\ \/ Exists /\ Finish(g) /\ UNCHANGED <<rec, clock, faults>>
       \/ /\ ~Exists
          /\ clock' = clock + 1
          /\ rec' = [NoRecord EXCEPT !.etag = clock + 1]
          /\ \/ Goto(g, "annotate") /\ UNCHANGED <<open, faults>>
             \/ Finish(g) /\ Fault
       \/ Finish(g) /\ Fault /\ UNCHANGED <<rec, clock>>
    /\ UNCHANGED <<type, total, object, h, reader, deleter>>

\* The Log annotation is patched before anything is streamed.
PatchLogAnnotation(g) ==
    /\ s[g].pc = "annotate"
    /\ \/ Goto(g, "stream") /\ UNCHANGED <<open, faults>>
       \/ Finish(g) /\ Fault
    /\ UnchangedButSender

\* streamLogs opens the UpdateLog stream and reads the whole log into memory
\* with tkn's reader; when that fails the stream is cancelled.
OpenStream(g) ==
    /\ s[g].pc = "stream"
    /\ \/ /\ Goto(g, "send") /\ UNCHANGED <<open, faults>>
          /\ Handle(g, "recv")
       \/ /\ Finish(g) /\ Fault
          /\ \/ Handle(g, "recv")
             \/ UNCHANGED h
    /\ UNCHANGED <<type, total, store, reader, deleter>>

\* Mutant: one chunk too many.
SendChunkOffByOne(g) ==
    /\ s[g].pc = "send" /\ s[g].sent <= total
    /\ h[g].pc # "end" /\ s[g].sent - h[g].got < Window
    /\ s' = [s EXCEPT ![g].sent = @ + 1]
    /\ UNCHANGED <<open, faults>> /\ UnchangedButSender

\* BufferedLog sends a chunk; a send on a stream that is gone fails and ends it.
SendChunk(g) ==
    /\ s[g].pc = "send" /\ s[g].sent < total
    /\ \/ /\ h[g].pc # "end" /\ s[g].sent - h[g].got < Window
          /\ s' = [s EXCEPT ![g].sent = @ + 1] /\ UNCHANGED <<open, faults>>
       \/ h[g].pc = "end" /\ Finish(g) /\ UNCHANGED faults
       \/ Finish(g) /\ Fault
    /\ UnchangedButSender

\* After Flush of the rest: CloseAndRecv.
CloseSend(g) ==
    /\ s[g].pc = "send" /\ s[g].sent = total
    /\ Goto(g, "await")
    /\ UNCHANGED <<open, faults>> /\ UnchangedButSender

\* Mutant: waits for a summary that only a success sends.
RecvSummaryOnly(g) ==
    /\ s[g].pc = "await" /\ h[g].answer = "ok"
    /\ Finish(g)
    /\ UNCHANGED faults /\ UnchangedButSender

\* The answer of UpdateLog; whatever it is, sendLog only logs it.
RecvSummary(g) ==
    /\ s[g].pc = "await" /\ h[g].pc = "end"
    /\ Finish(g)
    /\ UNCHANGED faults /\ UnchangedButSender

\* -dynamic_reconcile_timeout: the context is cancelled under sendLog, whose
\* next call fails.
Timeout(g) ==
    /\ Active(g) /\ Fault
    /\ Finish(g)
    /\ UnchangedButSender

\* The watcher stops; reconciliations after the restart are goroutines that
\* have not started yet.
WatcherCrash ==
    /\ \E g \in Senders : Active(g)
    /\ Fault
    /\ s' = [g \in Senders |-> IF Active(g) THEN [s[g] EXCEPT !.pc = "done"] ELSE s[g]]
    /\ open' = [g \in Senders |-> FALSE]
    /\ UnchangedButSender

----------------------------------------------------------------------------
(* The API server: UpdateLog                                               *)

UnchangedButHandler == UNCHANGED <<type, total, s, open, reader, deleter>>

\* A call on g's context fails once the context is cancelled.
Ok(g) == open[g] /\ UNCHANGED faults
Fails(g) == (~open[g] /\ UNCHANGED faults) \/ (open[g] /\ Fault)

\* srv.Recv: a chunk, the end of the stream, or the cancelled context.
Recv(g) ==
    /\ h[g].pc = "recv"
    /\ \/ /\ h[g].got < s[g].sent
          /\ h' = [h EXCEPT ![g].got = @ + 1,
                            ![g].pc = IF h[g].streaming THEN "write" ELSE "record"]
       \/ /\ s[g].pc = "await" /\ h[g].got = s[g].sent
          /\ Return(g, "EOF")
       \/ ~open[g] /\ Return(g, "error")
    /\ UNCHANGED <<store, faults>> /\ UnchangedButHandler

\* The first chunk: authorization and the lookup of the log Record.
GetRecord(g) ==
    /\ h[g].pc = "record"
    /\ \/ /\ Ok(g)
          /\ IF Exists THEN h' = [h EXCEPT ![g].pc = "tostream", ![g].etag = rec.etag]
                       ELSE Return(g, "error")
       \/ Fails(g) /\ Return(g, "error")
    /\ UNCHANGED store /\ UnchangedButHandler

\* ToStream; for S3 it creates the multipart upload, without which there is
\* no stream to flush.
ToStream(g) ==
    /\ h[g].pc = "tostream"
    /\ \/ /\ type = "File" \/ open[g]
          /\ UNCHANGED faults
          /\ h' = [h EXCEPT ![g].pc = "write", ![g].streaming = TRUE]
       \/ Fails(g) /\ Return(g, "error")
    /\ UNCHANGED store /\ UnchangedButHandler

\* ReadFrom writes the chunk. A failed UploadPart aborts the upload, unless
\* that fails too, and may have drained the buffer.
ReadFrom(g) ==
    LET c == h[g].got
        u == h[g].up
        remote == type = "GCS" \/ (type = "S3" /\ PartFull(u))
    IN
    /\ h[g].pc = "write"
    /\ \/ /\ remote => open[g]
          /\ UNCHANGED faults
          /\ object' = Stored(c)
          /\ h' = [h EXCEPT ![g].pc = "recv", ![g].up = Taken(u, c),
                            ![g].size = @ + Counted(u)]
       \/ /\ type = "File" /\ Fault /\ Return(g, "error")
          /\ object' \in {object, Append(object, Torn)}
       \/ /\ type = "GCS" /\ Fails(g) /\ Return(g, "error")
          /\ UNCHANGED object
       \/ /\ type = "S3" /\ PartFull(u) /\ Fails(g)
          /\ \E b \in {<<>>, Append(u.buf, c)} : \E a \in {FALSE, open[g]} :
                h' = [h EXCEPT ![g].pc = "return", ![g].err = "error",
                               ![g].stray = open[g] /\ ~a,
                               ![g].up = [u EXCEPT !.buf = b, !.aborted = a]]
          /\ UNCHANGED object
    /\ UNCHANGED <<rec, clock>> /\ UnchangedButHandler

\* handleReturn without a Record or a Log: the error goes back as it is, the
\* EOF of an empty log included.
ReturnEarly(g) ==
    /\ h[g].pc = "return" /\ h[g].etag = 0
    /\ Answer(g, h[g].err)
    /\ UNCHANGED <<store, faults>> /\ UnchangedButHandler

\* UpdateRecord reads the Record and compares the etags.
UpdateRecordRead(g) ==
    /\ h[g].pc = "return" /\ h[g].etag # 0
    /\ \/ /\ Ok(g)
          /\ IF rec.etag = h[g].etag
             THEN Handle(g, "save")
             ELSE h' = [h EXCEPT ![g].pc = "flush", ![g].err = "error"]
       \/ Fails(g) /\ h' = [h EXCEPT ![g].pc = "flush", ![g].err = "error"]
    /\ UNCHANGED store /\ UnchangedButHandler

\* and saves it, with no condition: a row deleted meanwhile is inserted again.
UpdateRecordSave(g) ==
    /\ h[g].pc = "save"
    /\ \/ /\ Ok(g)
          /\ clock' = clock + 1
          /\ rec' = [etag |-> clock + 1, stored |-> h[g].err = "EOF", size |-> h[g].size]
          /\ Handle(g, "flush")
       \/ /\ Fails(g)
          /\ h' = [h EXCEPT ![g].pc = "flush", ![g].err = "error"]
          /\ UNCHANGED <<rec, clock>>
    /\ UNCHANGED object /\ UnchangedButHandler

\* Mutant: the summary is sent without regard to Flush's error.
FlushIgnored(g) ==
    LET content == h[g].up.parts \o h[g].up.buf IN
    /\ h[g].pc = "flush"
    /\ Answer(g, IF h[g].err = "EOF" THEN "ok" ELSE "error")
    /\ \/ type = "S3" /\ Ok(g) /\ object' = content
       \/ type = "S3" /\ Fails(g) /\ UNCHANGED object
       \/ type # "S3" /\ UNCHANGED <<object, faults>>
    /\ UNCHANGED <<rec, clock>> /\ UnchangedButHandler

\* Flush: S3 uploads what is left of the buffer and completes the upload.
\* The summary is sent only after it.
Flush(g) ==
    LET u == h[g].up
        content == u.parts \o u.buf
        upload == type = "S3" /\ h[g].streaming
        result == IF h[g].err = "EOF" THEN "ok" ELSE "error"
    IN
    /\ h[g].pc = "flush"
    /\ \/ /\ ~upload
          /\ Answer(g, result)
          /\ UNCHANGED <<object, faults>>
       \/ /\ upload /\ Ok(g) /\ ~u.aborted /\ content # <<>>
          /\ object' = content
          /\ Answer(g, result)
       \/ /\ upload
          /\ IF u.aborted \/ content = <<>> THEN UNCHANGED faults ELSE Fails(g)
          /\ Answer(g, "error")
          /\ UNCHANGED object
    /\ UNCHANGED <<rec, clock>> /\ UnchangedButHandler

\* The API server stops: its handlers are gone, their clients see an error.
ServerCrash ==
    /\ \E g \in Senders : h[g].pc \notin {"none", "end"}
    /\ Fault
    /\ h' = [g \in Senders |->
                IF h[g].pc \in {"none", "end"} THEN h[g]
                ELSE Gone(g, "error")]
    /\ UNCHANGED store /\ UnchangedButHandler

----------------------------------------------------------------------------
(* The API server: GetLog and DeleteLog                                    *)

\* The log Record by its own name, or by the uid of the run it refers to. A
\* reader that is refused is as one that has not asked.
GetLogRead ==
    /\ reader.pc = "idle"
    /\ Exists /\ rec.stored /\ rec.size # 0
    /\ reader' = [reader EXCEPT !.pc = "opened"]
    /\ UNCHANGED <<type, total, store, s, open, h, deleter, faults>>

\* WriteTo copies the object to the client.
GetLogWrite ==
    /\ reader.pc = "opened"
    /\ reader' = IF object # NoObject THEN [pc |-> "served", answer |-> object]
                                      ELSE [pc |-> "idle", answer |-> NoObject]
    /\ UNCHANGED <<type, total, store, s, open, h, deleter, faults>>

DeleteLogRead ==
    /\ deleter.pc = "idle" /\ Exists
    /\ deleter' = [pc |-> "object", etag |-> rec.etag]
    /\ UNCHANGED <<type, total, store, s, open, h, reader, faults>>

\* The object goes first. A missing file or S3 object is no error; for GCS it
\* is one, and the Record stays.
DeleteObject ==
    /\ deleter.pc = "object"
    /\ \/ /\ UNCHANGED faults
          /\ object' = NoObject
          /\ deleter' = [deleter EXCEPT
                !.pc = IF type = "GCS" /\ object = NoObject THEN "end" ELSE "row"]
       \/ /\ Fault
          /\ deleter' = [deleter EXCEPT !.pc = "end"]
          /\ UNCHANGED object
    /\ UNCHANGED <<type, total, rec, clock, s, open, h, reader>>

\* The row read before is the condition of the DELETE: one that changed stays.
DeleteRow ==
    /\ deleter.pc = "row"
    /\ \/ /\ UNCHANGED faults
          /\ rec' = IF rec.etag = deleter.etag THEN NoRecord ELSE rec
       \/ Fault /\ UNCHANGED rec
    /\ deleter' = [deleter EXCEPT !.pc = "end"]
    /\ UNCHANGED <<type, total, clock, object, s, open, h, reader>>

----------------------------------------------------------------------------
Sender(g) ==
    \/ GetLogRecord(g) \/ PutLogGet(g) \/ CreateLogRecord(g) \/ PatchLogAnnotation(g)
    \/ OpenStream(g) \/ SendChunk(g) \/ CloseSend(g) \/ RecvSummary(g)

Handler(g) ==
    \/ Recv(g) \/ GetRecord(g) \/ ToStream(g) \/ ReadFrom(g) \/ ReturnEarly(g)
    \/ UpdateRecordRead(g) \/ UpdateRecordSave(g) \/ Flush(g)

GetLog == GetLogRead \/ GetLogWrite
DeleteLog == DeleteLogRead \/ DeleteObject \/ DeleteRow

Next ==
    \/ \E g \in Senders : SendLog(g) \/ Sender(g) \/ Handler(g) \/ Timeout(g)
    \/ WatcherCrash \/ ServerCrash
    \/ GetLog \/ DeleteLog

Spec == Init /\ [][Next]_vars

\* A completed run is reconciled, and its goroutines and their handlers run
\* until they end. Readers and deletions come or do not come.
Fairness ==
    \A g \in Senders : WF_vars(SendLog(g) \/ Sender(g)) /\ WF_vars(Handler(g))

FairSpec == Spec /\ Fairness

----------------------------------------------------------------------------
(* Properties                                                              *)

\* The whole log is in o: its chunks, all of them, in their order. Two
\* goroutines that append to one file may leave more than that.
Contains(o) ==
    \E f \in [1..total -> 1..Len(o)] :
        /\ \A i \in 1..total : o[f[i]] = i
        /\ \A i, j \in 1..total : i < j => f[i] < f[j]

\* A deletion that overlaps the streams, and an AbortMultipartUpload that
\* failed: uploadMultiPart drops its error, and Flush completes the upload with
\* the parts it has, over the log.
Spoilt == deleter.pc # "idle" \/ \E g \in Senders : h[g].stray

\* On GCS a log of several chunks is never kept.
Excused == Spoilt \/ (type = "GCS" /\ total > 1)

\* The goroutines that ever streamed.
Streamed == {g \in Senders : h[g].pc # "none"}

TypeOK ==
    /\ type \in LogTypes /\ total \in Lengths
    /\ rec \in [etag: 0..clock, stored: BOOLEAN, size: Nat]
    /\ clock \in Nat
    /\ object \in Seq(0..total)
    /\ s \in [Senders -> [pc: {"idle", "lookup", "put", "create", "annotate", "stream",
                               "send", "await", "done"}, sent: 0..total]]
    /\ open \in [Senders -> BOOLEAN]
    /\ h \in [Senders -> [pc: {"none", "recv", "record", "tostream", "write", "return",
                               "save", "flush", "end"},
                          etag: 0..clock, got: 0..total, size: Nat,
                          up: [parts: Seq(1..total), buf: Seq(1..total), aborted: BOOLEAN],
                          streaming: BOOLEAN, stray: BOOLEAN, err: {"none", "EOF", "error"},
                          answer: {"none", "ok", "EOF", "error"}]]
    /\ reader \in [pc: {"idle", "opened", "served"}, answer: Seq(0..total)]
    /\ deleter \in [pc: {"idle", "object", "row", "end"}, etag: 0..clock]
    /\ faults \in 0..MaxFaults

\* A LogSummary confirms the log: when UpdateLog has sent one, the object
\* holds every chunk, whatever the storage type.
ConfirmedIsKept ==
    \A g \in Senders : h[g].answer = "ok" /\ ~Spoilt => Contains(object)

\* What GetLog serves of a log that one goroutine streamed is the log exactly:
\* the parts, the buffer and the retries of an upload repeat nothing and lose
\* nothing.
ServedExactly ==
    \A g \in Senders :
        reader.pc = "served" /\ ~Excused /\ Streamed = {g} =>
            reader.answer = [i \in 1..total |-> i]

\* Every goroutine and every handler comes to its end.
StreamsEnd ==
    \A g \in Senders : []<>(~Active(g) /\ h[g].pc \in {"none", "end"})

\* The log of a run that logged something is stored in the end, if nothing
\* failed and it was not deleted: that two goroutines race for it, or that one
\* stops because the Record of the other exists, loses nothing.
LogStored ==
    <>[](total > 0 /\ faults = 0 /\ ~Excused /\ Senders # {} =>
            rec.stored /\ rec.size > 0 /\ Contains(object))

----------------------------------------------------------------------------
(* The abstract log archive                                                *)

Archive == INSTANCE LogArchive WITH
    complete  <- object # NoObject /\ Contains(object),
    confirmed <- \E g \in Senders : h[g].answer = "ok",
    excused   <- Excused,
    answer    <- IF reader.pc # "served" THEN "none"
                 ELSE IF Contains(reader.answer) THEN "whole" ELSE "part"

\* sendLog, UpdateLog, GetLog and DeleteLog implement the archive: the many
\* steps of an upload are one step to those who read the log or send it.
ArchiveSpec == Archive!Spec
=============================================================================
