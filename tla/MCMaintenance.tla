--------------------------- MODULE MCMaintenance ---------------------------
(***************************************************************************)
(* A PipelineRun with a child, a TaskRun and a CustomRun in another    *)
(* Result, TaskRuns stored by an earlier release, a ConfigMap that changes.*)
(***************************************************************************)
EXTENDS Maintenance, TLC

CONSTANTS pr, tr, top, cr, x, y

MCRuns == {pr, tr, top, cr}
MCKind == (pr :> "PipelineRun") @@ (tr :> "TaskRun") @@ (top :> "TaskRun") @@ (cr :> "CustomRun")
MCResultOf == (pr :> x) @@ (tr :> x) @@ (top :> y) @@ (cr :> y)
MCAttr == (pr :> [namespace |-> "ns", label |-> "high", annotation |-> ""])
       @@ (tr :> [namespace |-> "ns", label |-> "", annotation |-> ""])
       @@ (top :> [namespace |-> "ci", label |-> "", annotation |-> "keep"])
       @@ (cr :> [namespace |-> "ci", label |-> "", annotation |-> ""])

All == [namespaces |-> {}, labels |-> {}, annotations |-> {}, statuses |-> {}]

\* Keep what is labelled "high" longer; nothing else set.
Keep == <<[selector |-> [All EXCEPT !.labels = {"high"}], retention |-> 1]>>

\* By status, then by namespace and annotation.
ByStatus == <<[selector |-> [All EXCEPT !.statuses = {"Running"}], retention |-> 1],
              [selector |-> [All EXCEPT !.namespaces = {"ci"}, !.annotations = {"keep"}], retention |-> 2]>>

Broken == <<[selector |-> All, retention |-> Bad]>>

Map(runAt, max, def, policies) ==
    [runAt |-> runAt, maxRetention |-> max, defaultRetention |-> def, policies |-> policies]

MCShipped == {Map("daily", Absent, 0, Keep)}

MCConfigMaps == MCShipped \cup
                {Map("daily", 1, 0, ByStatus),
                 Map("daily", Absent, Absent, Broken),
                 Map("daily", Absent, Bad, Absent),
                 Map(Bad, Absent, 0, Absent)}
=============================================================================
