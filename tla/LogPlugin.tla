----------------------------- MODULE LogPlugin -----------------------------
(***************************************************************************)
(* The log plugin of the API server: the log of a run is not kept by       *)
(* Tekton Results but fetched from where a forwarder has put it, Loki,     *)
(* Splunk or the objects of a bucket, at the time somebody asks for it.    *)
(*                                                                         *)
(* The containers of a run write lines, the forwarder delivers them some   *)
(* time later, the watcher archives the run, and a client asks for the     *)
(* log over gRPC (GetLog) or HTTP (LogMux) at any moment. In a bucket      *)
(* every delivery is an object, a part of the log of its container.        *)
(***************************************************************************)
EXTENDS Integers, Sequences, FiniteSets, SequencesExt, FiniteSetsExt

CONSTANTS
    Steps,          \* the containers of the run
    Cases,          \* configurations of the server with a type of Record each
    MaxLines,       \* lines the containers write
    MaxTime,        \* bound of the clock
    Delay,          \* LOGGING_PLUGIN_FORWARDER_DELAY_DURATION
    Limit,          \* LOGGING_PLUGIN_QUERY_LIMIT
    PollTicks,      \* ticks of splunkPollInterval in splunkPollTimeoutDuration
    InsertionSort,  \* slices this short are sorted stably by Go: 12
    MaxFaults,      \* calls that fail
    MaxRequests

VARIABLES
    setup,      \* the configuration
    server,     \* "down", "off", "on" or "exited"
    kind,       \* the type of the Record
    clock,
    completed,  \* completion time of the run, 0 if it is running
    written,    \* number of lines each container has written
    stored,     \* the lines that have arrived in the back end
    rec,        \* the archived Record
    job,        \* Splunk's search job
    req,        \* the request in progress
    answer,     \* the last answer
    faults,
    requests

vars == <<setup, server, kind, clock, completed, written, stored, rec, job, req,
          answer, faults, requests>>

----------------------------------------------------------------------------
Setup == [type   : {"loki", "blob", "splunk", "file"},
          params : BOOLEAN,    \* labels and query parameters parse
          usable : BOOLEAN,    \* URL, token, index and expression are fit for use
          legacy : BOOLEAN]    \* v1alpha2LogType=true

Searched == {"TaskRun", "PipelineRun"}
Legacy   == {"TaskRunV1Beta1", "Log"}

ASSUME PluginAssumption ==
    /\ Cases \subseteq Setup \X (Searched \cup Legacy \cup {"CustomRun"})
    /\ IsFiniteSet(Steps)
    /\ MaxLines \in Nat \ {0} /\ MaxTime \in Nat \ {0}
    /\ Delay \in Nat /\ Limit \in Nat /\ PollTicks \in Nat /\ InsertionSort \in Nat
    /\ MaxFaults \in Nat /\ MaxRequests \in Nat

\* A log of the v1alpha2 API is one object.
Containers == IF kind \in Legacy THEN {"log"} ELSE Steps

Line(r, s, n, t) == [run |-> r, step |-> s, n |-> n, at |-> t]

\* A line of another run, in the same back end.
Foreign == {Line("other", s, 1, 1) : s \in Steps}

Mine == {l \in stored : l.run = "mine"}

\* What the server writes besides lines.
Header(s)  == [head |-> s]
ErrorText  == [head |-> "error"]
Cut(l)     == [cut |-> l]
IsLine(x)  == "run" \in DOMAIN x

NoRecord == [exists |-> FALSE, completed |-> 0]
NoJob    == [state |-> "none", rows |-> <<>>]
NoAnswer == [status |-> "none", via |-> "http", out |-> <<>>, seen |-> {}, end |-> 0]
Idle     == [pc |-> "idle"]

Init ==
    /\ \E c \in Cases : setup = c[1] /\ kind = c[2]
    /\ server = "down"
    /\ clock = 1
    /\ completed = 0
    /\ written = [s \in Steps \cup {"log"} |-> 0]
    /\ stored = Foreign
    /\ rec = NoRecord
    /\ job = NoJob
    /\ req = Idle
    /\ answer = NoAnswer
    /\ faults = 0
    /\ requests = 0

----------------------------------------------------------------------------
(* The run, the forwarder and the watcher                                  *)

environment == <<clock, completed, written, stored, rec>>

Tick ==
    /\ clock < MaxTime
    /\ clock' = clock + 1
    /\ UNCHANGED <<setup, server, kind, completed, written, stored, rec, job, req,
                   answer, faults, requests>>

\* The lines written so far, each as a container and a number.
Lines == {x \in (DOMAIN written) \X (1..MaxLines) : x[2] <= written[x[1]]}

Write(s) ==
    /\ completed = 0
    /\ Cardinality(Lines) < IF kind \in Legacy THEN 1 ELSE MaxLines
    /\ written' = [written EXCEPT ![s] = @ + 1]
    /\ UNCHANGED <<setup, server, kind, clock, completed, stored, rec, job, req, answer,
                   faults, requests>>

Complete ==
    /\ completed = 0
    /\ completed' = clock
    /\ UNCHANGED <<setup, server, kind, clock, written, stored, rec, job, req, answer,
                   faults, requests>>

\* The lines of one container are delivered in the order they were written.
Deliver(s) ==
    LET n == Cardinality({l \in Mine : l.step = s}) IN
    /\ n < written[s]
    /\ stored' = stored \cup {Line("mine", s, n + 1, clock)}
    /\ UNCHANGED <<setup, server, kind, clock, completed, written, rec, job, req, answer,
                   faults, requests>>

Archive ==
    /\ rec' = [exists |-> TRUE, completed |-> completed]
    /\ rec' # rec
    /\ UNCHANGED <<setup, server, kind, clock, completed, written, stored, job, req,
                   answer, faults, requests>>

----------------------------------------------------------------------------
(* The server: set-up and the way every request begins                     *)

\* NewLogServer, setLogPlugin. An error ends the process.
NewLogServer ==
    /\ server = "down"
    /\ server' = IF setup.type = "file" THEN "off"
                 ELSE IF ~setup.params THEN "exited"
                 ELSE "on"
    /\ UNCHANGED <<setup, kind, environment, job, req, answer, faults, requests>>

Request(via) ==
    /\ req = Idle
    /\ requests < MaxRequests
    /\ server \in {"on", "off"}
    /\ requests' = requests + 1
    /\ req' = [pc |-> "check", via |-> via, rec |-> NoRecord, parts |-> <<>>,
               out |-> <<>>, seen |-> {}, ticks |-> 0]
    /\ answer' = NoAnswer
    /\ UNCHANGED <<setup, server, kind, environment, job, faults>>

Respond(status, out) ==
    /\ req' = Idle
    /\ job' = NoJob
    /\ answer' = [status |-> status, via |-> req.via, out |-> out, seen |-> req.seen,
                  end |-> req.rec.completed]

\* getLog has returned. gRPC only logs its error; HTTP appends it to what was
\* written, and can choose the status only if that is nothing.
Finish(failed, out) ==
    IF failed /\ req.via = "http"
    THEN IF out = <<>> THEN Respond("Internal", <<ErrorText>>)
                       ELSE Respond("OK", Append(out, ErrorText))
    ELSE Respond("OK", out)

\* An endpoint that is not registered, a name that does not parse, a denied
\* access; then the Record is read.
Refuse ==
    /\ req.pc = "check"
    /\ \/ /\ server = "off"
          /\ Respond("Unimplemented", <<>>)
       \/ /\ server = "on"
          /\ \/ req.via = "grpc" /\ Respond("InvalidArgument", <<>>)
             \/ Respond("Denied", <<>>)
    /\ UNCHANGED <<setup, server, kind, environment, faults, requests>>

\* Mutant: Find instead of First, which finds nothing without an error.
GetRecordByFind ==
    /\ req.pc = "check"
    /\ server = "on"
    /\ req' = [req EXCEPT !.pc = setup.type, !.rec = rec]
    /\ UNCHANGED <<setup, server, kind, environment, job, answer, faults, requests>>

GetRecord ==
    /\ req.pc = "check"
    /\ server = "on"
    /\ IF rec.exists
       THEN /\ req' = [req EXCEPT !.pc = setup.type, !.rec = rec]
            /\ UNCHANGED <<job, answer>>
       ELSE IF req.via = "grpc" THEN Respond("NotFound", <<>>)
       ELSE Respond("Internal", <<ErrorText>>)
    /\ UNCHANGED <<setup, server, kind, environment, faults, requests>>

\* A call to the back end fails, in whatever way.
Fault ==
    /\ faults < MaxFaults
    /\ faults' = faults + 1

\* getLogRequestParams: only runs with a completion time can be searched for.
HasParams == kind \in Searched /\ req.rec.completed # 0

\* Mutant: the time the forwarder takes is not added.
WindowToCompletion(l) == l.at <= req.rec.completed

Window(l) == l.at <= req.rec.completed + Delay

\* What a search for the uid of the run between the two times finds.
Found == {l \in Mine : Window(l)}

----------------------------------------------------------------------------
(* Loki                                                                    *)

\* Loki answers with the latest lines up to the limit, as one stream for each
\* container.
Latest(found) ==
    {S \in SUBSET found :
        /\ Cardinality(S) = IF Cardinality(found) <= Limit THEN Cardinality(found) ELSE Limit
        /\ \A l \in S, k \in found \ S : k.at <= l.at}

InOrder(seq, Before(_, _)) ==
    \A i, j \in DOMAIN seq : i < j => ~Before(seq[j], seq[i])

\* Mutant: the streams are written one after the other as they come.
MergedByStream(S) == SetToSeqs(S)

\* sort.Slice by timestamp is not stable: lines of one time come in any order.
Merged(S) ==
    {seq \in SetToSeqs(S) : InOrder(seq, LAMBDA a, b : a.at < b.at)}

GetLokiLogs ==
    /\ req.pc = "loki"
    /\ \/ /\ ~setup.usable \/ ~HasParams
          /\ Finish(TRUE, <<>>)
          /\ UNCHANGED faults
       \/ /\ setup.usable /\ HasParams
          /\ \/ Fault /\ Finish(TRUE, <<>>)
             \/ /\ \E S \in Latest(Found) : \E seq \in Merged(S) :
                      req' = [req EXCEPT !.pc = "write", !.seen = Mine, !.out = seq]
                /\ UNCHANGED <<job, answer, faults>>
    /\ UNCHANGED <<setup, server, kind, environment, requests>>

\* The lines are written in one piece. Over gRPC, Flush may fail.
WriteLines ==
    /\ req.pc = "write"
    /\ \/ Finish(FALSE, req.out) /\ UNCHANGED faults
       \/ Fault /\ IF req.via = "grpc" THEN Respond("Internal", <<>>) ELSE Finish(TRUE, <<>>)
    /\ UNCHANGED <<setup, server, kind, environment, requests>>

----------------------------------------------------------------------------
(* A bucket                                                                *)

\* bucket.List under the prefix of the run, in the order of the keys, then
\* sorted by time. The sort keeps the order of the keys within one second only
\* while it is an insertion sort.
KeyOrder(a, b) == a.step = b.step /\ a.n < b.n
Listings ==
    {seq \in SetToSeqs(Mine) :
        /\ InOrder(seq, LAMBDA a, b : a.at < b.at)
        /\ Len(seq) <= InsertionSort =>
              InOrder(seq, LAMBDA a, b : a.at = b.at /\ KeyOrder(a, b))}

\* mergeLogParts: the parts of one container next to one another, the containers
\* in the order of their first parts.
mergeLogParts(paths) ==
    LET first(i)  == Min({j \in DOMAIN paths : paths[j].step = paths[i].step})
        before(i) == {j \in DOMAIN paths : \/ first(j) < first(i)
                                           \/ first(j) = first(i) /\ j < i}
    IN [k \in DOMAIN paths |->
           paths[CHOOSE i \in DOMAIN paths : Cardinality(before(i)) = k - 1]]

\* The Record of a log names its object, which may be there or not.
LogPath == <<Line("mine", "log", 1, 0)>>

GetBlobLogs ==
    /\ req.pc = "blob"
    /\ LET Read(paths) ==
              /\ req' = [req EXCEPT !.pc = "part", !.parts = mergeLogParts(paths),
                                    !.seen = Mine]
              /\ UNCHANGED <<job, answer, faults>>
       IN
       \/ /\ \/ Fault \* the bucket cannot be opened or listed
             \/ /\ \/ ~setup.usable
                   \/ kind \notin {"TaskRun"} \cup Legacy
                   \/ kind = "TaskRunV1Beta1" /\ ~setup.legacy
                /\ UNCHANGED faults
          /\ Finish(TRUE, <<>>)
       \/ /\ setup.usable
          /\ \/ kind = "TaskRun" /\ \E paths \in Listings : Read(paths)
             \/ kind = "Log" /\ Read(LogPath)
             \/ /\ kind = "TaskRunV1Beta1" /\ setup.legacy
                /\ \E paths \in {LogPath, <<>>} : Read(paths) \* no log Record: nothing
    /\ UNCHANGED <<setup, server, kind, environment, requests>>

\* One part: the header before the first of a container, then its content. A
\* part that cannot be opened ends the log, one that breaks off does not.
ReadPart ==
    /\ req.pc = "part"
    /\ IF req.parts = <<>> THEN Finish(FALSE, req.out) /\ UNCHANGED faults
       ELSE LET part == Head(req.parts)
                objects == {l \in Mine : l.step = part.step /\ l.n = part.n}
                first == ~\E i \in DOMAIN req.out : req.out[i] = Header(part.step)
                out == IF first THEN Append(req.out, Header(part.step)) ELSE req.out
                Continue(o) == /\ req' = [req EXCEPT !.parts = Tail(@), !.out = o]
                            /\ UNCHANGED <<job, answer>>
            IN \/ /\ objects = {}
                  /\ Finish(TRUE, out)
                  /\ UNCHANGED faults
               \/ /\ Fault
                  /\ \/ Finish(TRUE, out)
                     \/ Continue(Append(out, Cut(part)))
               \/ /\ objects # {}
                  /\ Continue(Append(out, CHOOSE l \in objects : TRUE))
                  /\ UNCHANGED faults
    /\ UNCHANGED <<setup, server, kind, environment, requests>>

----------------------------------------------------------------------------
(* Splunk                                                                  *)

CreateJob ==
    /\ req.pc = "splunk"
    /\ \/ /\ ~setup.usable \/ ~HasParams
          /\ Finish(TRUE, <<>>)
          /\ UNCHANGED faults
       \/ /\ setup.usable /\ HasParams
          /\ \/ Fault /\ Finish(TRUE, <<>>)
             \/ /\ req' = [req EXCEPT !.pc = "poll", !.seen = Mine]
                /\ job' = [state |-> "RUNNING", rows |-> <<>>]
                /\ UNCHANGED <<answer, faults>>
    /\ UNCHANGED <<setup, server, kind, environment, requests>>

\* The job finds the lines, in an order of its own, or fails.
RunJob ==
    /\ job.state = "RUNNING"
    /\ \/ \E seq \in SetToSeqs(Found) : job' = [state |-> "DONE", rows |-> seq]
       \/ job' = [state |-> "FAILED", rows |-> <<>>]
    /\ UNCHANGED <<setup, server, kind, environment, req, answer, faults, requests>>

\* Mutant: the timeout is never looked at.
PollTimeoutMissed == FALSE /\ UNCHANGED vars

PollTimeout ==
    /\ req.pc = "poll"
    /\ req.ticks >= PollTicks - 1
    /\ Finish(TRUE, <<>>)
    /\ UNCHANGED <<setup, server, kind, environment, faults, requests>>

\* A tick of pollSplunkJobStatus: only a job that failed ends it; a failed call
\* and a job still at work wait for the next tick.
PollTick ==
    /\ req.pc = "poll"
    /\ \/ /\ job.state = "FAILED"
          /\ Finish(TRUE, <<>>)
          /\ UNCHANGED faults
       \/ /\ job.state = "DONE"
          /\ req' = [req EXCEPT !.pc = "fetch"]
          /\ UNCHANGED <<job, answer, faults>>
       \/ /\ req.ticks < PollTicks
          /\ req' = [req EXCEPT !.ticks = @ + 1]
          /\ \/ Fault
             \/ job.state = "RUNNING" /\ UNCHANGED faults
          /\ UNCHANGED <<job, answer>>
    /\ UNCHANGED <<setup, server, kind, environment, requests>>

\* The rows, with a header whenever the container changes: next(k) is the row at
\* position k or, at the position of a header, the one that follows.
WithHeaders(rows) ==
    LET starts   == {i \in DOMAIN rows : i = 1 \/ rows[i - 1].step # rows[i].step}
        place(i) == i + Cardinality({j \in starts : j <= i})
        next(k)  == Min({i \in DOMAIN rows : place(i) >= k})
    IN [k \in 1..(Len(rows) + Cardinality(starts)) |->
           IF place(next(k)) = k THEN rows[next(k)] ELSE Header(rows[next(k)].step)]

Fetch ==
    /\ req.pc = "fetch"
    /\ \/ Fault /\ Finish(TRUE, <<>>)
       \/ /\ req' = [req EXCEPT !.pc = "write", !.out = WithHeaders(job.rows)]
          /\ UNCHANGED <<job, answer, faults>>
    /\ UNCHANGED <<setup, server, kind, environment, requests>>

----------------------------------------------------------------------------
Handle == Refuse \/ GetRecord \/ GetLokiLogs \/ WriteLines \/ GetBlobLogs \/ ReadPart
            \/ CreateJob \/ PollTick \/ PollTimeout \/ Fetch

Next ==
    \/ Tick \/ Complete \/ Archive \/ NewLogServer \/ RunJob \/ Handle
    \/ \E s \in Containers : Write(s) \/ Deliver(s)
    \/ \E via \in {"grpc", "http"} : Request(via)

\* A handler's goroutine runs until it answers; the ticker and the timeout of
\* the poll fire. Nothing makes Splunk finish a job.
Spec == Init /\ [][Next]_vars /\ WF_vars(Handle)

----------------------------------------------------------------------------
(* Properties                                                              *)

TypeOK ==
    /\ setup \in Setup /\ kind \in Searched \cup Legacy \cup {"CustomRun"}
    /\ server \in {"down", "off", "on", "exited"}
    /\ clock \in 1..MaxTime
    /\ completed \in 0..clock
    /\ \A s \in DOMAIN written : written[s] \in 0..MaxLines
    /\ \A l \in stored : l.at \in 1..clock
    /\ rec.completed \in {0, completed}
    /\ job.state \in {"none", "RUNNING", "DONE", "FAILED"}
    /\ req # Idle => /\ req.pc \in {"check", "loki", "blob", "splunk", "write", "part",
                                    "poll", "fetch"}
                     /\ req.ticks \in 0..PollTicks
                     /\ req.rec.exists <=> req.pc # "check"
                     /\ job.state # "none" => setup.type = "splunk"
    /\ answer.status \in {"none", "OK", "InvalidArgument", "Denied", "NotFound",
                          "Internal", "Unimplemented"}
    /\ faults \in 0..MaxFaults

LinesIn(out) == {i \in DOMAIN out : IsLine(out[i])}

\* Whatever fails on the way, an answer has lines of the run that was asked for
\* only, none of them twice, and, but for Splunk, which orders the rows itself,
\* those that a container had delivered at different times in their order
\* (getLokiLogs: sort.Slice; getBlobLogs: slices.SortFunc, mergeLogParts).
OwnLinesInOrder ==
    LET out == answer.out IN
    /\ \A i \in LinesIn(out) : out[i].run = "mine"
    /\ \A i, j \in LinesIn(out) :
          i < j => /\ out[i] # out[j]
                   /\ setup.type # "splunk" /\ out[i].step = out[j].step /\ out[i].at # out[j].at
                        => out[i].n < out[j].n

\* An HTTP answer without an error text and without a part that broke off has
\* every line that the back end had when it was asked, provided the forwarder
\* took no longer than the configured delay and the limit was not exceeded
\* (getLogRequestParams, getLokiLogs, getBlobLogs, getSplunkLogs). A TaskRun of
\* v1beta1 whose log is in a bucket is left out: without a Record of its log the
\* answer is empty and shows no error.
CompleteAnswer ==
    LET out   == answer.out
        owed  == {l \in answer.seen : l.at <= answer.end + Delay} IN
    (/\ answer.status = "OK" /\ answer.via = "http"
     /\ \A i \in DOMAIN out : out[i] # ErrorText /\ "cut" \notin DOMAIN out[i]
     /\ setup.type = "loki" => Cardinality(answer.seen) <= Limit
     /\ setup.type = "blob" => kind # "TaskRunV1Beta1")
    => \A l \in owed : Contains(out, l)

\* Every request is answered, even if Splunk never finishes the search
\* (pollSplunkJobStatus gives up after splunkPollTimeoutDuration).
Answered == req # Idle ~> req = Idle
============================================================================
