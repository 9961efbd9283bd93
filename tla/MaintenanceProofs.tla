------------------------- MODULE MaintenanceProofs -------------------------
(***************************************************************************)
(* Proofs about the retention agent and the converter, for any number of   *)
(* runs, of jobs that overlap and of changes of the configuration.         *)
(***************************************************************************)
EXTENDS Maintenance, TLAPS

\* A job that runs has seen the policy in force; the policies and the default
\* it holds come from configurations it has seen, and can be parsed by the
\* time it deletes; only then has it selected anything. An agent that is down
\* runs no job.
Informed(st, ag) ==
    /\ st.pc # "idle" => ag.up /\ ag.policy \in st.seen
    /\ st.pc \in Kinds \cup {"default"} => \E p \in st.seen : p.policies = st.policies
    /\ st.pc \in Kinds => /\ \A i \in 1..Len(st.policies) : st.policies[i].retention # Bad
                          /\ \E q \in st.seen : q.default = st.default
    /\ st.selected # {} => st.pc \in Kinds

JobsInformed == \A j \in Jobs : Informed(job[j], agent)

----------------------------------------------------------------------------
(* Type correctness                                                        *)

JobState == [pc: Kinds \cup {"idle", "policies", "default"},
             policies: PolicyLists, default: Defaults,
             selected: SUBSET Results, seen: SUBSET Policies]

ConvState == [kind: {"TaskRun", "PipelineRun", "done"}, pc: {"get", "set"},
              batch: SUBSET Runs, gens: Gens]

RowState == [there: BOOLEAN, version: {"v1", "v1beta1"}, gen: {0, 1}, updated: 0..MaxTime]

\* The job after a statement is a job.
LEMMA JobTypes ==
    ASSUME TypeOK, NEW j \in Jobs
    PROVE  /\ Idle \in JobState
           /\ job[j] \in JobState
           /\ job[j].pc \in Kinds => NextStatement(j) \in JobState
  <1>1. Idle \in JobState
    BY DEF Idle, JobState, PolicyLists, Defaults
  <1>2. job[j] \in JobState
    BY DEF TypeOK, JobState
  <1>3. ASSUME job[j].pc \in Kinds
        PROVE  NextStatement(j) \in JobState
    <2>1. After(job[j].pc) \in {"TaskRun", "CustomRun", "idle"}
      BY <1>3 DEF Kinds, After
    <2> QED BY <1>1, <1>2, <2>1 DEF NextStatement, JobState, Kinds
  <1> QED BY <1>1, <1>2, <1>3

\* A job that has read its policies, or its default, is a job.
LEMMA JobReads ==
    ASSUME NEW s \in JobState
    PROVE  /\ \A x \in PolicyLists : [s EXCEPT !.pc = "default", !.policies = x] \in JobState
           /\ \A x \in Defaults : [s EXCEPT !.pc = "PipelineRun", !.default = x] \in JobState
  <1>1. ASSUME NEW x \in PolicyLists
        PROVE  [s EXCEPT !.pc = "default", !.policies = x] \in JobState
    BY DEF JobState
  <1>2. ASSUME NEW x \in Defaults
        PROVE  [s EXCEPT !.pc = "PipelineRun", !.default = x] \in JobState
    BY DEF JobState, Kinds
  <1> QED BY <1>1, <1>2

\* The converter after a batch is written holds none.
LEMMA EmptyBatch == <<>> \in Gens /\ DOMAIN <<>> = {}
  <1>1. <<>> \in [{} -> {0, 1}] /\ DOMAIN <<>> = {}
    OBVIOUS
  <1>2. [{} -> {0, 1}] \in {[b -> {0, 1}] : b \in SUBSET Runs}
    OBVIOUS
  <1> QED BY <1>1, <1>2 DEF Gens

\* Every step of the agent, the converter and the watcher leaves rows, jobs
\* and batches well formed.
LEMMA StepType == TypeOK /\ JobsInformed /\ [Next]_vars => TypeOK'
  <1> SUFFICES ASSUME TypeOK, JobsInformed, [Next]_vars
               PROVE  TypeOK'
    OBVIOUS
  <1> USE MaintenanceAssumption
  <1>t. /\ rec \in [Runs -> RowState] /\ job \in [Jobs -> JobState] /\ conv \in ConvState
        /\ agent \in [up: BOOLEAN, policy: Policies]
    BY DEF TypeOK, RowState, JobState, ConvState
  <1>u. ASSUME rec' \in [Runs -> RowState], job' \in [Jobs -> JobState], conv' \in ConvState,
               agent' \in [up: BOOLEAN, policy: Policies], cm' \in ConfigMaps,
               now' \in 0..MaxTime, DOMAIN conv'.gens = conv'.batch,
               changes' \in 0..MaxChanges, puts' \in 0..MaxPuts, faults' \in 0..MaxFaults
        PROVE  TypeOK'
    BY <1>u DEF TypeOK, RowState, JobState, ConvState, Kinds, Policies, Policy,
                DefaultRetention, Results, Gens, PolicyLists, Defaults
  <1>p. \A c \in ConfigMaps : Policy(c) \in Policies
    BY DEF Policies
  <1>h. agent.policy.policies \in PolicyLists /\ agent.policy.default \in Defaults
    BY <1>t DEF PolicyLists, Defaults
  <1>f. Fault => faults' \in 0..MaxFaults
    BY DEF Fault, TypeOK
  <1>1. CASE Tick
    <2>1. now' \in 0..MaxTime
      BY <1>1 DEF Tick, TypeOK
    <2> QED BY <1>1, <1>t, <1>u, <2>1 DEF Tick, TypeOK
  <1>2. CASE ChangeConfig
    <2>1. changes' \in 0..MaxChanges
      BY <1>2 DEF ChangeConfig, TypeOK
    <2>2. PICK c \in ConfigMaps \ {cm} :
              /\ cm' = c
              /\ \/ /\ agent' = [agent EXCEPT !.policy = Policy(c)]
                    /\ job' = Noticed(Policy(c))
                 \/ /\ agent' = [agent EXCEPT !.up = FALSE]
                    /\ job' = [j \in Jobs |-> Idle]
                 \/ UNCHANGED <<agent, job>>
      BY <1>2 DEF ChangeConfig
    <2>3. agent' \in [up: BOOLEAN, policy: Policies]
      BY <1>t, <1>p, <2>2
    <2>4. job' \in [Jobs -> JobState]
      <3>1. ASSUME NEW j \in Jobs
            PROVE  [job[j] EXCEPT !.seen = @ \cup {Policy(c)}] \in JobState
        BY <1>t, <1>p DEF JobState
      <3>2. \A j \in Jobs : Idle \in JobState
        BY JobTypes
      <3>3. Noticed(Policy(c)) \in [Jobs -> JobState]
        BY <3>1, <3>2 DEF Noticed
      <3> QED BY <1>t, <2>2, <3>2, <3>3
    <2> QED BY <1>2, <1>t, <1>u, <2>1, <2>2, <2>3, <2>4 DEF ChangeConfig, TypeOK
  <1>3. CASE StartAgent
    <2>1. agent' \in [up: BOOLEAN, policy: Policies]
      BY <1>3, <1>p DEF StartAgent, TypeOK
    <2> QED BY <1>3, <1>t, <1>u, <2>1 DEF StartAgent, TypeOK
  <1>4. CASE GetRecords
    <2>1. CASE conv' = [conv EXCEPT !.kind = NextKind]
      <3>1. conv' \in ConvState /\ DOMAIN conv'.gens = conv'.batch
        BY <1>t, <2>1 DEF ConvState, NextKind, TypeOK
      <3> QED BY <1>4, <1>t, <1>u, <3>1 DEF GetRecords, TypeOK
    <2>2. ASSUME NEW b \in SUBSET OfType("v1beta1", conv.kind),
                 conv' = [conv EXCEPT !.pc = "set", !.batch = b,
                                      !.gens = [r \in b |-> rec[r].gen]]
          PROVE  TypeOK'
      <3>1. b \in SUBSET Runs
        BY DEF OfType, Present
      <3>2. [r \in b |-> rec[r].gen] \in [b -> {0, 1}]
        BY <1>t, <3>1 DEF RowState
      <3>3. [r \in b |-> rec[r].gen] \in Gens
        BY <3>1, <3>2 DEF Gens
      <3>4. conv' \in ConvState /\ DOMAIN conv'.gens = conv'.batch
        BY <1>t, <2>2, <3>1, <3>3 DEF ConvState
      <3> QED BY <1>4, <1>t, <1>u, <3>4 DEF GetRecords, TypeOK
    <2> QED BY <1>4, <2>1, <2>2 DEF GetRecords
  <1>5. CASE SetRecords
    <2>1. conv' \in ConvState /\ DOMAIN conv'.gens = conv'.batch
      BY <1>5, <1>t, EmptyBatch DEF SetRecords, ConvState
    <2>2. \A r \in conv.batch : conv.gens[r] \in {0, 1}
      BY <1>t DEF ConvState, Gens, TypeOK
    <2>3. rec' \in [Runs -> RowState]
      <3>1. ASSUME NEW r \in conv.batch
            PROVE  [rec[r] EXCEPT !.version = IF r \in Convertible THEN "v1" ELSE "v1beta1",
                                  !.gen = conv.gens[r]] \in RowState
        <4>1. r \in Runs /\ conv.gens[r] \in {0, 1}
          BY <1>t, <2>2 DEF ConvState
        <4>2. rec[r] \in RowState
          BY <1>t, <4>1
        <4>3. ASSUME NEW v \in {"v1", "v1beta1"}, NEW g \in {0, 1}
              PROVE  [rec[r] EXCEPT !.version = v, !.gen = g] \in RowState
          BY <4>2 DEF RowState
        <4> QED BY <4>1, <4>3
      <3>2. CASE UNCHANGED rec
        BY <1>t, <3>2
      <3>3. CASE rec' = [r \in Runs |->
                       IF r \in conv.batch /\ rec[r].there
                       THEN [rec[r] EXCEPT !.version = IF r \in Convertible THEN "v1"
                                                       ELSE "v1beta1",
                                           !.gen = conv.gens[r]]
                       ELSE rec[r]]
        BY <1>t, <3>1, <3>3
      <3> QED BY <1>5, <3>2, <3>3 DEF SetRecords
    <2>4. faults' \in 0..MaxFaults
      BY <1>5, <1>f DEF SetRecords, TypeOK
    <2> QED BY <1>5, <1>t, <1>u, <2>1, <2>3, <2>4 DEF SetRecords, TypeOK
  <1>6. ASSUME NEW r \in Live, Put(r) PROVE TypeOK'
    <2>1. puts' \in 0..MaxPuts
      BY <1>6 DEF Put, TypeOK
    <2>2. PICK g \in {rec[r].gen, 1} :
             rec' = [rec EXCEPT ![r] = [there |-> TRUE, version |-> Version(r),
                                        gen |-> g, updated |-> now]]
      BY <1>6 DEF Put
    <2>3. rec[r] \in RowState /\ r \in Runs
      BY <1>t
    <2>4. [there |-> TRUE, version |-> Version(r), gen |-> g, updated |-> now] \in RowState
      BY <2>3 DEF RowState, Version, TypeOK
    <2>5. rec' \in [Runs -> RowState]
      BY <1>t, <2>2, <2>4
    <2> QED BY <1>6, <1>t, <1>u, <2>1, <2>5 DEF Put, TypeOK
  <1>7. ASSUME NEW j \in Jobs, StartJob(j) PROVE TypeOK'
    <2>1. [Idle EXCEPT !.pc = "policies", !.seen = {agent.policy}] \in JobState
      BY <1>t DEF Idle, JobState, PolicyLists, Defaults
    <2>2. job' \in [Jobs -> JobState]
      BY <1>7, <1>t, <2>1 DEF StartJob
    <2> QED BY <1>7, <1>t, <1>u, <2>2 DEF StartJob, TypeOK
  <1>8. ASSUME NEW j \in Jobs, ReadPolicies(j) PROVE TypeOK'
    <2>1. [job[j] EXCEPT !.pc = "default", !.policies = agent.policy.policies] \in JobState
      BY <1>t, <1>h, JobReads
    <2>2. job' \in [Jobs -> JobState]
      BY <1>8, <1>t, <2>1 DEF ReadPolicies
    <2> QED BY <1>8, <1>t, <1>u, <2>2 DEF ReadPolicies, TypeOK
  <1>9. ASSUME NEW j \in Jobs, ReadDefault(j) PROVE TypeOK'
    <2>1. [job[j] EXCEPT !.pc = "PipelineRun", !.default = agent.policy.default] \in JobState
      BY <1>t, <1>h, JobReads
    <2>2. job' \in [Jobs -> JobState]
      BY <1>9, <1>t, <2>1, JobTypes DEF ReadDefault
    <2> QED BY <1>9, <1>t, <1>u, <2>2 DEF ReadDefault, TypeOK
  <1>10. ASSUME NEW j \in Jobs, Select(j) PROVE TypeOK'
    <2>1. PICK sel \in SUBSET Results :
              job' = [job EXCEPT ![j] = IF sel = {} THEN NextStatement(j)
                                        ELSE [job[j] EXCEPT !.selected = sel]]
      <3>1. Counting(job[j].pc) \subseteq Runs
        BY DEF Counting, Present
      <3> QED BY <1>10, <3>1 DEF Select, Results
    <2>2. [job[j] EXCEPT !.selected = sel] \in JobState
      BY <1>t DEF JobState
    <2>3. NextStatement(j) \in JobState
      BY <1>10, JobTypes DEF Select
    <2>4. job' \in [Jobs -> JobState]
      BY <1>t, <2>1, <2>2, <2>3
    <2> QED BY <1>10, <1>t, <1>u, <2>4 DEF Select, TypeOK
  <1>11. ASSUME NEW j \in Jobs, Delete(j) PROVE TypeOK'
    <2>1. job[j].pc \in Kinds
      BY <1>11 DEF JobsInformed, Informed, Delete
    <2>2. job' \in [Jobs -> JobState]
      BY <1>11, <1>t, <2>1, JobTypes DEF Delete
    <2>3. Gone \in RowState
      BY DEF Gone, RowState
    <2>4. rec' \in [Runs -> RowState]
      BY <1>11, <1>t, <2>3 DEF Delete
    <2>5. faults' \in 0..MaxFaults
      BY <1>11, <1>f DEF Delete, TypeOK
    <2> QED BY <1>11, <1>t, <1>u, <2>2, <2>4, <2>5 DEF Delete, TypeOK
  <1>12. CASE UNCHANGED vars
    BY <1>12, <1>t, <1>u DEF vars, TypeOK
  <1> QED
    BY <1>1, <1>2, <1>3, <1>4, <1>5, <1>6, <1>7, <1>8, <1>9, <1>10, <1>11, <1>12
       DEF Next, Converter, Job

----------------------------------------------------------------------------
(* The policies of a job                                                   *)

\* A statement that is done leaves an informed job.
LEMMA NextInformed ==
    ASSUME TypeOK, JobsInformed, NEW j \in Jobs, job[j].pc \in Kinds
    PROVE  Informed(NextStatement(j), agent) /\ NextStatement(j).selected = {}
  <1>1. After(job[j].pc) \in {"TaskRun", "CustomRun", "idle"}
    BY DEF Kinds, After
  <1>2. Informed(Idle, agent) /\ Idle.selected = {}
    BY DEF Informed, Idle, Kinds
  <1>3. job[j] \in JobState /\ Informed(job[j], agent)
    BY JobTypes DEF JobsInformed
  <1>4. ASSUME After(job[j].pc) # "idle"
        PROVE  LET st == [job[j] EXCEPT !.pc = After(job[j].pc), !.selected = {}]
               IN Informed(st, agent) /\ st.selected = {}
    BY <1>1, <1>3, <1>4 DEF Informed, JobState, Kinds
  <1> QED BY <1>2, <1>4 DEF NextStatement

\* Every step leaves jobs that know what they delete by.
LEMMA InformedStep == TypeOK /\ JobsInformed /\ [Next]_vars => JobsInformed'
  <1> SUFFICES ASSUME TypeOK, JobsInformed, [Next]_vars, NEW q \in Jobs
               PROVE  Informed(job'[q], agent')
    BY DEF JobsInformed, Informed, Kinds
  <1>t. /\ job \in [Jobs -> JobState] /\ agent \in [up: BOOLEAN, policy: Policies]
        /\ Informed(job[q], agent)
    BY DEF TypeOK, JobState, JobsInformed
  <1>i. \A ag : Informed(Idle, ag)
    BY DEF Informed, Idle, Kinds
  <1>1. CASE ChangeConfig
    <2>1. PICK c \in ConfigMaps :
             \/ /\ agent' = [agent EXCEPT !.policy = Policy(c)]
                /\ job' = Noticed(Policy(c))
             \/ job' = [j \in Jobs |-> Idle]
             \/ UNCHANGED <<agent, job>>
      BY <1>1 DEF ChangeConfig
    <2>2. CASE /\ agent' = [agent EXCEPT !.policy = Policy(c)]
               /\ job' = Noticed(Policy(c))
      <3>1. agent'.policy = Policy(c) /\ agent'.up = agent.up
        BY <1>t, <2>2
      <3>2. CASE job[q].pc = "idle"
        BY <1>i, <2>2, <3>2 DEF Noticed
      <3>3. CASE job[q].pc # "idle"
        <4>1. job'[q] = [job[q] EXCEPT !.seen = @ \cup {Policy(c)}]
          BY <2>2, <3>3 DEF Noticed
        <4>2. /\ job'[q].pc = job[q].pc /\ job'[q].policies = job[q].policies
              /\ job'[q].default = job[q].default /\ job'[q].selected = job[q].selected
              /\ job'[q].seen = job[q].seen \cup {Policy(c)}
          BY <1>t, <4>1 DEF JobState
        <4> HIDE DEF Policy
        <4> QED BY <1>t, <3>1, <3>3, <4>2 DEF Informed
      <3> QED BY <3>2, <3>3
    <2>3. CASE job' = [j \in Jobs |-> Idle]
      BY <1>i, <2>3
    <2>4. CASE UNCHANGED <<agent, job>>
      BY <1>t, <2>4
    <2> QED BY <2>1, <2>2, <2>3, <2>4
  <1>2. CASE StartAgent
    <2>1. job[q].pc = "idle"
      BY <1>2, <1>t DEF StartAgent, Informed
    <2>2. job'[q] = job[q] /\ job[q].selected = {}
      BY <1>2, <1>t, <2>1 DEF StartAgent, Informed, Kinds
    <2> QED BY <2>1, <2>2 DEF Informed, Kinds
  <1>3. ASSUME NEW j \in Jobs, StartJob(j) \/ Job(j) PROVE Informed(job'[q], agent')
    <2>1. UNCHANGED agent
      BY <1>3 DEF StartJob, Job, ReadPolicies, ReadDefault, Select, Delete
    <2>2. CASE q # j
      <3>1. job'[q] = job[q]
        BY <1>3, <1>t, <2>2 DEF StartJob, Job, ReadPolicies, ReadDefault, Select, Delete
      <3> QED BY <1>t, <2>1, <3>1
    <2>3. CASE q = j /\ StartJob(j)
      <3>1. job'[j] = [Idle EXCEPT !.pc = "policies", !.seen = {agent.policy}] /\ agent.up
        BY <1>t, <2>3 DEF StartJob
      <3> QED BY <2>1, <2>3, <3>1 DEF Informed, Idle, Kinds
    <2>4. CASE q = j /\ ReadPolicies(j)
      <3>1. /\ job'[j].pc = "default" /\ job'[j].policies = agent.policy.policies
            /\ job'[j].seen = job[j].seen /\ job'[j].selected = job[j].selected
            /\ job[j].pc = "policies"
        BY <1>t, <2>4 DEF ReadPolicies, JobState
      <3> QED BY <1>t, <2>1, <2>4, <3>1 DEF Informed, Kinds
    <2>5. CASE q = j /\ ReadDefault(j)
      <3> DEFINE bad == \E i \in 1..Len(job[j].policies) : job[j].policies[i].retention = Bad
      <3>1. CASE bad
        <4>1. job'[j] = Idle
          BY <1>t, <2>5, <3>1 DEF ReadDefault
        <4> QED BY <1>i, <2>5, <4>1
      <3>2. CASE ~bad
        <4>1. /\ job'[j].pc = "PipelineRun" /\ job'[j].policies = job[j].policies
              /\ job'[j].default = agent.policy.default
              /\ job'[j].seen = job[j].seen /\ job'[j].selected = job[j].selected
              /\ job[j].pc = "default"
          BY <1>t, <2>5, <3>2 DEF ReadDefault, JobState
        <4> QED BY <1>t, <2>1, <2>5, <3>2, <4>1 DEF Informed, Kinds
      <3> QED BY <3>1, <3>2
    <2>6. CASE q = j /\ Select(j)
      <3>1. job[j].pc \in Kinds
        BY <2>6 DEF Select
      <3>2. PICK sel : job'[j] = IF sel = {} THEN NextStatement(j)
                                 ELSE [job[j] EXCEPT !.selected = sel]
        BY <1>t, <2>6 DEF Select
      <3>3. CASE sel = {}
        BY <2>1, <2>6, <3>1, <3>2, <3>3, NextInformed
      <3>4. CASE sel # {}
        <4>1. /\ job'[j].pc = job[j].pc /\ job'[j].policies = job[j].policies
              /\ job'[j].default = job[j].default /\ job'[j].seen = job[j].seen
          BY <1>t, <3>2, <3>4 DEF JobState
        <4> QED BY <1>t, <2>1, <2>6, <3>1, <4>1 DEF Informed
      <3> QED BY <3>3, <3>4
    <2>7. CASE q = j /\ Delete(j)
      <3>1. job[j].pc \in Kinds /\ job'[j] = NextStatement(j)
        BY <1>t, <2>7 DEF Delete, Informed
      <3> QED BY <2>1, <2>7, <3>1, NextInformed
    <2> QED BY <1>3, <2>2, <2>3, <2>4, <2>5, <2>6, <2>7 DEF Job
  <1>4. CASE \/ Tick \/ Converter \/ UNCHANGED vars
             \/ \E r \in Live : Put(r)
    <2>1. UNCHANGED <<agent, job>>
      BY <1>4 DEF Tick, Converter, GetRecords, SetRecords, Put, vars
    <2> QED BY <1>t, <2>1
  <1> QED BY <1>1, <1>2, <1>3, <1>4 DEF Next

\* In the beginning the rows are the earlier releases' and no job runs.
LEMMA InitTypes == Init => TypeOK /\ JobsInformed
  <1> SUFFICES ASSUME Init PROVE TypeOK /\ JobsInformed
    OBVIOUS
  <1> USE MaintenanceAssumption
  <1>1. rec \in [Runs -> RowState]
    BY DEF Init, RowState, Version
  <1>2. agent \in [up: BOOLEAN, policy: Policies] /\ cm \in ConfigMaps
    <2>1. cm \in ConfigMaps
      BY DEF Init
    <2> QED BY <2>1 DEF Init, Policies
  <1>3. Idle \in JobState /\ Informed(Idle, agent)
    BY DEF Idle, JobState, PolicyLists, Defaults, Informed, Kinds
  <1>4. job \in [Jobs -> JobState] /\ JobsInformed
    BY <1>3 DEF Init, JobsInformed
  <1>5. conv \in ConvState /\ DOMAIN conv.gens = conv.batch
    BY EmptyBatch DEF Init, ConvState
  <1>6. /\ now \in 0..MaxTime /\ changes \in 0..MaxChanges
        /\ puts \in 0..MaxPuts /\ faults \in 0..MaxFaults
    BY DEF Init
  <1> QED BY <1>1, <1>2, <1>4, <1>5, <1>6 DEF TypeOK, RowState, JobState, ConvState

\* Both hold always.
LEMMA MaintenanceInvariant == Spec => [](TypeOK /\ JobsInformed)
  <1>1. TypeOK /\ JobsInformed /\ [Next]_vars => (TypeOK /\ JobsInformed)'
    BY StepType, InformedStep
  <1> QED BY <1>1, InitTypes, PTL DEF Spec

\* Rows, jobs, batches and counters have their types, whatever configurations
\* come and however many jobs overlap.
THEOREM MaintenanceTypeCorrect == Spec => []TypeOK
  BY MaintenanceInvariant, PTL

\* The converter, which holds rows in memory across a DELETE, and the jobs
\* bring no deleted row back.
THEOREM DeletedRowsStayDeleted == Spec => OnlyPutCreates
  <1> DEFINE Revives(r) == ~rec[r].there /\ rec'[r].there
  <1>1. ASSUME TypeOK, [Next]_vars, NEW r \in Runs, Revives(r)
        PROVE  puts' = puts + 1
    <2>1. rec \in [Runs -> RowState]
      BY <1>1 DEF TypeOK, RowState
    <2>2. ASSUME SetRecords PROVE FALSE
      BY <1>1, <2>1, <2>2 DEF SetRecords
    <2>3. ASSUME NEW j \in Jobs, Delete(j) PROVE FALSE
      BY <1>1, <2>1, <2>3 DEF Delete, Gone
    <2>4. ASSUME UNCHANGED rec PROVE FALSE
      BY <1>1, <2>4
    <2>5. ASSUME NEW k \in Live, Put(k) PROVE puts' = puts + 1
      BY <2>5 DEF Put
    <2>6. ASSUME NEW j \in Jobs, StartJob(j) \/ ReadPolicies(j) \/ ReadDefault(j) \/ Select(j)
          PROVE  FALSE
      BY <2>4, <2>6 DEF StartJob, ReadPolicies, ReadDefault, Select
    <2>7. ASSUME Tick \/ ChangeConfig \/ StartAgent \/ GetRecords \/ UNCHANGED vars PROVE FALSE
      BY <2>4, <2>7 DEF Tick, ChangeConfig, StartAgent, GetRecords, vars
    <2> QED BY <1>1, <2>2, <2>3, <2>5, <2>6, <2>7 DEF Next, Converter, Job
  <1>2. TypeOK /\ [Next]_vars =>
            [\A r \in Runs : ~rec[r].there /\ rec'[r].there => puts' = puts + 1]_vars
    BY <1>1
  <1> QED BY <1>2, MaintenanceTypeCorrect, PTL DEF Spec, OnlyPutCreates

\* Only its DELETE statement adds to what a job has selected.
LEMMA OnlySelectSelects ==
    ASSUME TypeOK, JobsInformed, [Next]_vars, NEW q \in Jobs,
           NEW x \in job'[q].selected \ job[q].selected
    PROVE  /\ job[q].pc \in Kinds
           /\ \E r \in Counting(job[q].pc) :
                 ResultOf[r] = x /\ Expired(job[q].policies, job[q].default, r)
  <1>t. job \in [Jobs -> JobState] /\ Idle.selected = {}
    BY DEF TypeOK, JobState, Idle
  <1>1. CASE ChangeConfig
    <2>1. job'[q] = job[q] \/ job'[q] = Idle \/ \E p : job'[q] = [job[q] EXCEPT !.seen = @ \cup {p}]
      BY <1>1 DEF ChangeConfig, Noticed
    <2> QED BY <1>t, <2>1 DEF JobState
  <1>2. ASSUME NEW j \in Jobs, StartJob(j) \/ Job(j)
        PROVE  /\ job[q].pc \in Kinds
               /\ \E r \in Counting(job[q].pc) :
                     ResultOf[r] = x /\ Expired(job[q].policies, job[q].default, r)
    <2>1. q = j
      BY <1>2, <1>t DEF StartJob, Job, ReadPolicies, ReadDefault, Select, Delete
    <2>2. CASE StartJob(j)
      BY <1>t, <2>1, <2>2 DEF StartJob, Idle
    <2>3. CASE ReadPolicies(j) \/ ReadDefault(j)
      <3>1. job'[q].selected = job[q].selected \/ job'[q] = Idle
        <4>1. CASE ReadPolicies(j)
          BY <1>t, <2>1, <4>1 DEF ReadPolicies, JobState
        <4>2. CASE ReadDefault(j)
          <5>1. \/ job'[j] = Idle
                \/ job'[j] = [job[j] EXCEPT !.pc = "PipelineRun",
                                            !.default = agent.policy.default]
            BY <1>t, <4>2 DEF ReadDefault
          <5> QED BY <1>t, <2>1, <5>1 DEF JobState
        <4> QED BY <2>3, <4>1, <4>2
      <3> QED BY <1>t, <3>1
    <2>4. CASE Select(j)
      <3> DEFINE sel == {ResultOf[r] : r \in {k \in Counting(job[j].pc) :
                                  Expired(job[j].policies, job[j].default, k)}}
      <3>1. job[j].pc \in Kinds
        BY <2>4 DEF Select
      <3>2. job'[j] = IF sel = {} THEN NextStatement(j) ELSE [job[j] EXCEPT !.selected = sel]
        BY <1>t, <2>4 DEF Select
      <3>3. sel # {} /\ job'[j].selected = sel
        BY <1>t, <2>1, <3>1, <3>2, NextInformed DEF JobState
      <3> QED BY <2>1, <3>1, <3>3
    <2>5. CASE Delete(j)
      <3>1. job[j].pc \in Kinds /\ job'[j] = NextStatement(j)
        BY <1>t, <2>5 DEF Delete, JobsInformed, Informed
      <3> QED BY <2>1, <3>1, NextInformed
    <2> QED BY <1>2, <2>2, <2>3, <2>4, <2>5 DEF Job
  <1>3. ASSUME UNCHANGED job PROVE FALSE
    BY <1>3
  <1> QED BY <1>1, <1>2, <1>3 DEF Next, Tick, StartAgent, Converter, GetRecords, SetRecords,
                                  Put, vars

\* However configurations change under overlapping jobs: a Result is condemned
\* only by the rows that count for it, under policies and a default that were
\* in force while the job ran.
THEOREM DeletionByPolicy == Spec => SelectedByPolicy
  <1> DEFINE Heads(x) == LET prs == {r \in Of(x) : Kind[r] = "PipelineRun"}
                         IN IF prs # {} THEN prs ELSE Of(x)
             Condemned(j, x) == (\A r \in Of(x) : rec[r].version = Version(r)) =>
                                   \E r \in Heads(x) : Outlived(j, r)
  <1>1. ASSUME TypeOK, JobsInformed, [Next]_vars, NEW j \in Jobs,
               NEW x \in job'[j].selected \ job[j].selected
        PROVE  Condemned(j, x)
    <2> SUFFICES ASSUME \A r \in Of(x) : rec[r].version = Version(r)
                 PROVE  \E r \in Heads(x) : Outlived(j, r)
      OBVIOUS
    <2>1. job[j].pc \in Kinds
      BY <1>1, OnlySelectSelects
    <2>2. PICK r \in Counting(job[j].pc) :
             ResultOf[r] = x /\ Expired(job[j].policies, job[j].default, r)
      BY <1>1, OnlySelectSelects
    <2>3. r \in Of(x) /\ Kind[r] = job[j].pc
      BY <2>2 DEF Counting, Of
    <2>4. Outlived(j, r)
      <3>1. Informed(job[j], agent)
        BY <1>1 DEF JobsInformed
      <3>2. PICK p \in job[j].seen, q \in job[j].seen :
               p.policies = job[j].policies /\ q.default = job[j].default
        BY <2>1, <3>1 DEF Informed
      <3>3. Valid(p)
        BY <2>1, <3>1, <3>2 DEF Informed, Valid
      <3> QED BY <2>2, <3>2, <3>3 DEF Outlived
    <2>5. r \in Heads(x)
      <3>1. CASE job[j].pc = "PipelineRun"
        BY <2>3, <3>1
      <3>2. CASE job[j].pc # "PipelineRun"
        <4>1. OfType("v1", "PipelineRun") \cap Of(x) = {}
          BY <2>2, <3>2 DEF Counting
        <4>2. ASSUME NEW k \in Of(x), Kind[k] = "PipelineRun" PROVE FALSE
          <5>1. rec[k].version = "v1" /\ k \in Present
            BY <4>2 DEF Version, Of
          <5> QED BY <4>1, <4>2, <5>1 DEF OfType
        <4> QED BY <2>3, <4>2
      <3> QED BY <3>1, <3>2
    <2> QED BY <2>4, <2>5
  <1>2. TypeOK /\ JobsInformed /\ [Next]_vars =>
            [\A j \in Jobs : \A x \in job'[j].selected \ job[j].selected :
                (\A r \in Of(x) : rec[r].version = Version(r)) =>
                   LET prs == {r \in Of(x) : Kind[r] = "PipelineRun"} IN
                   \E r \in (IF prs # {} THEN prs ELSE Of(x)) : Outlived(j, r)]_vars
    BY <1>1
  <1> QED BY <1>2, MaintenanceInvariant, PTL DEF Spec, SelectedByPolicy
============================================================================
