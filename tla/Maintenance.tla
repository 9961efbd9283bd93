---------------------------- MODULE Maintenance ----------------------------
(***************************************************************************)
(* What works on the database beside the API: the retention policy agent,  *)
(* which deletes Results by a schedule and by policies that may change at  *)
(* any time, the converter of the API server, which rewrites v1beta1       *)
(* Records as v1, batch by batch, and the watcher, which goes on storing   *)
(* runs.                                                                   *)
(*                                                                         *)
(* rec[r]    the row of the run r: whether it is there, the API version of *)
(*           its type, the generation of its data, its updated_time        *)
(* now       the clock of the database                                     *)
(* cm        the agent's ConfigMap                                         *)
(* agent     whether the process is up, and the policy it holds            *)
(* job[j]    a run of the agent's job: where it is, the policies and the   *)
(*           default it has read, the Results its DELETE has selected, and *)
(*           (for the properties) the policies in force since it began     *)
(* conv      the converter: the kind it converts, and the batch it holds   *)
(* changes, puts, faults   bounded steps so far                            *)
(***************************************************************************)
EXTENDS Integers, Sequences, FiniteSets

CONSTANTS
    Runs,          \* the runs, one Record each
    Kind,          \* "PipelineRun", "TaskRun" or "CustomRun"
    ResultOf,      \* the Result of a run
    Attr,          \* the namespace, label, annotation of a run ("": it has none)
    Legacy,        \* the runs stored as v1beta1 by an earlier release
    Convertible,   \* those of them whose data ConvertTo accepts
    Live,          \* the runs the cluster still has
    ConfigMaps,    \* the contents the ConfigMap may take,
    Shipped,       \* those it starts with
    Absent, Bad,   \* a key that is not set; a value that does not parse
    DefaultDefaultRetention,
    Limit,         \* CONVERTER_DB_LIMIT
    Jobs,          \* bound: runs of the job that may overlap
    MaxTime,       \* bound: the clock
    MaxChanges,    \* bound: changes of the ConfigMap
    MaxPuts,       \* bound: Records stored by the watcher
    MaxFaults      \* bound: statements that fail

ASSUME MaintenanceAssumption ==
    /\ Kind \in [Runs -> {"PipelineRun", "TaskRun", "CustomRun"}]
    /\ Convertible \subseteq Legacy /\ Legacy \subseteq Runs
    /\ \A r \in Legacy : Kind[r] # "CustomRun"
    /\ Live \subseteq Runs
    /\ Shipped \subseteq ConfigMaps
    /\ Limit \in Nat \ {0}
    /\ {MaxTime, MaxChanges, MaxPuts, MaxFaults, DefaultDefaultRetention} \subseteq Nat

VARIABLES rec, now, cm, agent, job, conv, changes, puts, faults

vars == <<rec, now, cm, agent, job, conv, changes, puts, faults>>

Results == {ResultOf[r] : r \in Runs}

Present == {r \in Runs : rec[r].there}

Of(x) == {r \in Present : ResultOf[r] = x}

\* The rows of a type such as tekton.dev/v1.TaskRun.
OfType(version, kind) == {r \in Present : rec[r].version = version /\ Kind[r] = kind}

\* The version the watcher stores a kind with; CustomRuns have only v1beta1.
Version(r) == IF Kind[r] = "CustomRun" THEN "v1beta1" ELSE "v1"

Gone == [there |-> FALSE, version |-> "v1", gen |-> 0, updated |-> 0]

Fault == faults < MaxFaults /\ faults' = faults + 1

----------------------------------------------------------------------------
(* The configuration of the agent                                          *)

\* newRetentionPolicyFromMap: the deprecated maxRetention goes first.
DefaultRetention(c) ==
    IF c.maxRetention # Absent THEN c.maxRetention
    ELSE IF c.defaultRetention # Absent THEN c.defaultRetention
    ELSE DefaultDefaultRetention

\* Policies that are no YAML are refused; the retention of a policy is not
\* parsed before the job runs.
Parses(c) == DefaultRetention(c) # Bad /\ c.policies # Bad

Policy(c) == [policies |-> IF c.policies = Absent THEN <<>> ELSE c.policies,
              default  |-> DefaultRetention(c)]

\* The reason of a run's condition, by the generation of its data.
Status(r) == IF rec[r].gen = 0 THEN "Running" ELSE "Succeeded"

\* buildWhereClause: a list that is not given matches every row, a label the
\* row does not have matches no list.
Matches(sel, r) ==
    /\ sel.namespaces # {} => Attr[r].namespace \in sel.namespaces
    /\ sel.labels # {} => Attr[r].label \in sel.labels
    /\ sel.annotations # {} => Attr[r].annotation \in sel.annotations
    /\ sel.statuses # {} => Status(r) \in sel.statuses

\* buildCaseStatement: the first WHEN that matches, else the default.
Retention(policies, default, r) ==
    LET hits == {i \in 1..Len(policies) : Matches(policies[i].selector, r)}
    IN IF hits = {} THEN default
       ELSE policies[CHOOSE i \in hits : \A k \in hits : i <= k].retention

Expired(policies, default, r) == now - rec[r].updated > Retention(policies, default, r)

----------------------------------------------------------------------------
Idle == [pc |-> "idle", policies |-> <<>>, default |-> 0, selected |-> {}, seen |-> {}]

\* A first start reads the ConfigMap as it is.
Init ==
    /\ rec = [r \in Runs |-> [there |-> TRUE, gen |-> 0, updated |-> 0,
                              version |-> IF r \in Legacy THEN "v1beta1" ELSE Version(r)]]
    /\ now = 0
    /\ cm \in Shipped
    /\ agent = [up |-> FALSE, policy |-> Policy(cm)]
    /\ job = [j \in Jobs |-> Idle]
    /\ conv = [kind |-> "TaskRun", pc |-> "get", batch |-> {}, gens |-> <<>>]
    /\ changes = 0 /\ puts = 0 /\ faults = 0

Tick == /\ now < MaxTime
        /\ now' = now + 1
        /\ UNCHANGED <<rec, cm, agent, job, conv, changes, puts, faults>>

\* Mutant: updated_time comes from a clock that runs ahead.
PutAhead(r) ==
    /\ puts < MaxPuts
    /\ puts' = puts + 1
    /\ rec' = [rec EXCEPT ![r] = [there |-> TRUE, version |-> Version(r), gen |-> 1,
                                  updated |-> now + 1]]
    /\ UNCHANGED <<now, cm, agent, job, conv, changes, faults>>

\* The watcher stores the state of a run. A Record that was deleted is
\* created again.
Put(r) ==
    /\ puts < MaxPuts
    /\ puts' = puts + 1
    /\ \E g \in {rec[r].gen, 1} :
          rec' = [rec EXCEPT ![r] = [there |-> TRUE, version |-> Version(r),
                                     gen |-> g, updated |-> now]]
    /\ UNCHANGED <<now, cm, agent, job, conv, changes, faults>>

----------------------------------------------------------------------------
(* The agent                                                               *)

\* Jobs that run see the policy change under them.
Noticed(p) == [j \in Jobs |-> IF job[j].pc = "idle" THEN Idle
                              ELSE [job[j] EXCEPT !.seen = @ \cup {p}]]

\* NewAgent: informers, the first configuration, the cron. A ConfigMap that
\* does not parse, or a schedule that does not, is fatal.
StartAgent ==
    /\ ~agent.up
    /\ Parses(cm) /\ cm.runAt # Bad
    /\ agent' = [up |-> TRUE, policy |-> Policy(cm)]
    /\ UNCHANGED <<rec, now, cm, job, conv, changes, puts, faults>>

\* The ConfigMap changes: setAgentConfig, stop and start. What does not parse
\* is ignored; a schedule that does not parse ends the process. A job in
\* progress is not waited for.
ChangeConfig ==
    /\ changes < MaxChanges
    /\ changes' = changes + 1
    /\ \E c \in ConfigMaps \ {cm} :
          /\ cm' = c
          /\ \/ /\ agent.up /\ Parses(c) /\ c.runAt # Bad
                /\ agent' = [agent EXCEPT !.policy = Policy(c)]
                /\ job' = Noticed(Policy(c))
             \/ /\ agent.up /\ Parses(c) /\ c.runAt = Bad
                /\ agent' = [agent EXCEPT !.up = FALSE]
                /\ job' = [j \in Jobs |-> Idle]
             \/ /\ ~agent.up \/ ~Parses(c)
                /\ UNCHANGED <<agent, job>>
    /\ UNCHANGED <<rec, now, conv, puts, faults>>

\* The cron starts the job; runs of it may overlap.
StartJob(j) ==
    /\ agent.up /\ job[j].pc = "idle"
    /\ job' = [job EXCEPT ![j] = [Idle EXCEPT !.pc = "policies", !.seen = {agent.policy}]]
    /\ UNCHANGED <<rec, now, cm, agent, conv, changes, puts, faults>>

\* The arguments of buildCaseStatement are read one by one, without the mutex.
ReadPolicies(j) ==
    /\ job[j].pc = "policies"
    /\ job' = [job EXCEPT ![j].pc = "default", ![j].policies = agent.policy.policies]
    /\ UNCHANGED <<rec, now, cm, agent, conv, changes, puts, faults>>

\* A retention that does not parse ends the job before it deletes anything.
ReadDefault(j) ==
    LET bad == \E i \in 1..Len(job[j].policies) : job[j].policies[i].retention = Bad IN
    /\ job[j].pc = "default"
    /\ job' = [job EXCEPT ![j] =
                  IF bad THEN Idle
                  ELSE [job[j] EXCEPT !.pc = "PipelineRun", !.default = agent.policy.default]]
    /\ UNCHANGED <<rec, now, cm, agent, conv, changes, puts, faults>>

\* Mutant: children count as top-level.
CountingChildren(kind) == {r \in Present : Kind[r] = kind /\ rec[r].version = Version(r)}

\* The rows that count for a kind: a TaskRun or a CustomRun is top-level when
\* its Result has no Record of type tekton.dev/v1.PipelineRun.
Counting(kind) ==
    {r \in Present : Kind[r] = kind /\ rec[r].version = Version(r) /\ (
        kind # "PipelineRun" => OfType("v1", "PipelineRun") \cap Of(ResultOf[r]) = {})}

Kinds == {"PipelineRun", "TaskRun", "CustomRun"}

\* What cleanupResults does after a kind.
After(kind) == CASE kind = "PipelineRun" -> "TaskRun"
                 [] kind = "TaskRun"     -> "CustomRun"
                 [] kind = "CustomRun"   -> "idle"

\* Mutant: the job returns after its first DELETE.
NextStatementReturns(j) == Idle


NextStatement(j) == IF After(job[j].pc) = "idle" THEN Idle
            ELSE [job[j] EXCEPT !.pc = After(job[j].pc), !.selected = {}]

\* The DELETE takes its snapshot; NOW() is the time of the statement.
Select(j) ==
    /\ job[j].pc \in Kinds /\ job[j].selected = {}
    /\ LET sel == {ResultOf[r] : r \in {q \in Counting(job[j].pc) :
                                            Expired(job[j].policies, job[j].default, q)}}
       IN job' = [job EXCEPT ![j] = IF sel = {} THEN NextStatement(j) ELSE [job[j] EXCEPT !.selected = sel]]
    /\ UNCHANGED <<rec, now, cm, agent, conv, changes, puts, faults>>

\* It deletes the Results it found, and with them, by cascade, all their
\* Records. An error is logged, and the next kind follows.
Delete(j) ==
    /\ job[j].selected # {}
    /\ \/ /\ rec' = [r \in Runs |-> IF ResultOf[r] \in job[j].selected THEN Gone ELSE rec[r]]
          /\ UNCHANGED faults
       \/ Fault /\ UNCHANGED rec
    /\ job' = [job EXCEPT ![j] = NextStatement(j)]
    /\ UNCHANGED <<now, cm, agent, conv, changes, puts>>

----------------------------------------------------------------------------
(* The converter                                                           *)

NextKind == IF conv.kind = "TaskRun" THEN "PipelineRun" ELSE "done"

\* Mutant: a batch that cannot be converted ends the kind.
GetRecordsOnce ==
    LET old == OfType("v1beta1", conv.kind)
        size == IF Cardinality(old) < Limit THEN Cardinality(old) ELSE Limit
    IN
    /\ conv.kind # "done" /\ conv.pc = "get"
    /\ \E b \in {b \in SUBSET old : Cardinality(b) = size} :
          conv' = [kind |-> NextKind, pc |-> "set", batch |-> b, gens |-> [r \in b |-> rec[r].gen]]
    /\ UNCHANGED <<rec, now, cm, agent, job, changes, puts, faults>>

\* getRecords: some Limit of the rows of the old type, in no order. A failed
\* query is repeated. When there is none the kind is done.
GetRecords ==
    LET old == OfType("v1beta1", conv.kind)
        size == IF Cardinality(old) < Limit THEN Cardinality(old) ELSE Limit
    IN
    /\ conv.kind # "done" /\ conv.pc = "get"
    /\ IF old = {}
       THEN conv' = [conv EXCEPT !.kind = NextKind]
       ELSE \E b \in {b \in SUBSET old : Cardinality(b) = size} :
               conv' = [conv EXCEPT !.pc = "set", !.batch = b,
                                    !.gens = [r \in b |-> rec[r].gen]]
    /\ UNCHANGED <<rec, now, cm, agent, job, changes, puts, faults>>

\* Mutant: Save instead of Updates inserts the rows that are gone.
SetRecordsSave ==
    /\ conv.pc = "set"
    /\ rec' = [r \in Runs |->
                  IF r \in conv.batch
                  THEN [rec[r] EXCEPT !.there = TRUE, !.gen = conv.gens[r],
                                      !.version = IF r \in Convertible THEN "v1" ELSE "v1beta1"]
                  ELSE rec[r]]
    /\ conv' = [conv EXCEPT !.pc = "get", !.batch = {}, !.gens = <<>>]
    /\ UNCHANGED <<now, cm, agent, job, changes, puts, faults>>

\* setRecords writes back what was read, converted where that was possible, in
\* one transaction. Rows that are gone are not created again.
SetRecords ==
    /\ conv.pc = "set"
    /\ \/ /\ rec' = [r \in Runs |->
                       IF r \in conv.batch /\ rec[r].there
                       THEN [rec[r] EXCEPT !.version = IF r \in Convertible THEN "v1" ELSE "v1beta1",
                                           !.gen = conv.gens[r]]
                       ELSE rec[r]]
          /\ UNCHANGED faults
       \/ Fault /\ UNCHANGED rec
    /\ conv' = [conv EXCEPT !.pc = "get", !.batch = {}, !.gens = <<>>]
    /\ UNCHANGED <<now, cm, agent, job, changes, puts>>

----------------------------------------------------------------------------
Job(j) == ReadPolicies(j) \/ ReadDefault(j) \/ Select(j) \/ Delete(j)

Converter == GetRecords \/ SetRecords

Next ==
    \/ Tick \/ ChangeConfig \/ StartAgent \/ Converter
    \/ \E r \in Live : Put(r)
    \/ \E j \in Jobs : StartJob(j) \/ Job(j)

Spec == Init /\ [][Next]_vars

\* The cron fires and its jobs run, the converter runs. Nothing else has to
\* happen, not even the passing of time.
FairSpec ==
    Spec /\ WF_vars(Converter) /\ WF_vars(\E j \in Jobs : StartJob(j) \/ Job(j))

----------------------------------------------------------------------------
(* Properties                                                              *)

\* What an agent may hold and its jobs may read; the generations of a batch.
Policies == {Policy(c) : c \in ConfigMaps}
PolicyLists == {p.policies : p \in Policies} \cup {<<>>}
Defaults == {p.default : p \in Policies} \cup {0}
Gens == UNION {[b -> {0, 1}] : b \in SUBSET Runs}

TypeOK ==
    /\ rec \in [Runs -> [there: BOOLEAN, version: {"v1", "v1beta1"}, gen: {0, 1},
                         updated: 0..MaxTime]]
    /\ now \in 0..MaxTime /\ cm \in ConfigMaps
    /\ agent \in [up: BOOLEAN, policy: Policies]
    /\ job \in [Jobs -> [pc: Kinds \cup {"idle", "policies", "default"},
                         policies: PolicyLists, default: Defaults,
                         selected: SUBSET Results, seen: SUBSET Policies]]
    /\ conv \in [kind: {"TaskRun", "PipelineRun", "done"}, pc: {"get", "set"},
                 batch: SUBSET Runs, gens: Gens]
    /\ DOMAIN conv.gens = conv.batch
    /\ changes \in 0..MaxChanges /\ puts \in 0..MaxPuts /\ faults \in 0..MaxFaults

\* The job runs to its end under p.
Valid(p) == \A i \in 1..Len(p.policies) : p.policies[i].retention # Bad

\* r has outlived a policy that was in force while the job j ran. The policies
\* may come from one configuration and the default from the next.
Outlived(j, r) ==
    \E p, q \in job[j].seen : Valid(p) /\ Expired(p.policies, q.default, r)

\* A job selects a Result, once it is converted, only when its PipelineRun has
\* outlived its policy or, without one, one of its own runs has: no mixture of
\* old and new configuration, and no other row of the Result, condemns it.
SelectedByPolicy ==
    [][\A j \in Jobs : \A x \in job'[j].selected \ job[j].selected :
          (\A r \in Of(x) : rec[r].version = Version(r)) =>
             LET prs == {r \in Of(x) : Kind[r] = "PipelineRun"} IN
             \E r \in (IF prs # {} THEN prs ELSE Of(x)) : Outlived(j, r)]_vars

\* A row that is gone comes back by the watcher only: a converter that holds a
\* batch across a DELETE revives nothing.
OnlyPutCreates ==
    [][\A r \in Runs : ~rec[r].there /\ rec'[r].there => puts' = puts + 1]_vars

\* The policy the ConfigMap asks for; an agent that is down, or one told of a
\* retention that does not parse, deletes nothing.
Effective == agent.up /\ Valid(agent.policy)

\* What has expired is deleted in the end, whatever jobs overlapped, statements
\* failed and configurations came in between: in the end no PipelineRun
\* and no top-level TaskRun or CustomRun, of those the converter has done, outlives
\* its policy.
Purged ==
    <>[](Effective => \A kind \in Kinds : \A r \in Counting(kind) :
                         ~Expired(agent.policy.policies, agent.policy.default, r))

\* Every Record that can be converted is, even if others cannot be, as long as
\* those do not fill a batch.
Converted ==
    Cardinality(Legacy \ Convertible) < Limit =>
        <>[](\A r \in Convertible : rec[r].version = "v1")
=============================================================================
